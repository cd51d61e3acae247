--------------------------- MODULE BffSessionProofs ---------------------------
EXTENDS BffSession, TLAPS

-----------------------------------------------------------------------------
(* The inductive invariant.  One promise may answer the requests of several *)
(* browsers without mixing their sessions, because the refresh under way    *)
(* belongs to the request of its call, and sends the token of its copy.     *)

\* Only the requests that make calls have calls under way, and a request at
\* work has a browser.
WorkInv ==
    /\ \A k \in Calls : call[k].pc # "idle" => request[RequestOf[k]].pc = "calls"
    /\ \A r \in Requests : request[r].pc # "idle" <=> request[r].browser \in Browsers

\* The token a rotation makes belongs to the user and to the family of the refresh
\* token that the request of its call has in its copy.
RotatingOk(k) ==
    /\ call[k].token \in Issues /\ Jar(k).refresh \in Issues
    /\ user[call[k].token] = BrowserOf(k)
    /\ family[call[k].token] = family[Jar(k).refresh]

\* That token is also the one a refresh presents.
SentInv == \A k \in Calls :
    /\ call[k].pc = "sent" => call[k].token = Jar(k).refresh
    /\ call[k].pc = "rotating" => RotatingOk(k)

\* Tokens that have not been handed out are nobody's.
IssuedInv == \A i \in Issues : user[i] # NoBrowser => i <= issued

\* What a session holds is b's, u being whose tokens they are.
Own(u, b, s) == \A i \in Issues : i \in {s.access, s.refresh} => u[i] = b

\* The copy that request r of b works on holds b's tokens, and none when r is
\* not at work.
OwnJar(u, r) ==
    IF r.browser = NoBrowser THEN r.jar = NoSession ELSE Own(u, r.browser, r.jar)

\* SessionsAreOwn, session by session.
OwnInv ==
    /\ \A b \in Browsers : Own(user, b, cookie[b])
    /\ \A r \in Requests : OwnJar(user, request[r])

\* After a logout that no rotation of the user overlapped, no token of the user is
\* active or about to be inserted: only an active one could be rotated into another.
\* A row is somebody's.
SignedInv ==
    /\ \A b \in signedOut, i \in Issues : user[i] = b => row[i] \notin {"active", "pending"}
    /\ \A i \in Issues : row[i] # "absent" => user[i] # NoBrowser

\* A rotation revokes a token of the user for whom it makes one.
ReplacesInv == \A i \in Issues : replaces[i] # 0 =>
    /\ replaces[i] \in Issues /\ row[replaces[i]] \in {"active", "recent", "past"}
    /\ row[i] # "absent" /\ user[replaces[i]] = user[i]

IInv ==
    /\ TypeOK /\ WorkInv /\ SentInv /\ IssuedInv /\ OneRefreshAtATime /\ OwnInv
    /\ SignedInv /\ ReplacesInv

\* A family is the chain of one user's tokens: what ends it ends nobody else's.
FamilyInv == \A i \in Issues : row[i] # "absent" =>
    family[i] \in Issues /\ user[family[i]] = user[i]

\* By the rows rw and the revocations rv still to be made, token i is there to stay,
\* or is on its way there.
Firm(i, rw, rv) == rw[i] = "active" /\ \A j \in Issues : rv[j] # i
Making(i, rw, rv) == rw[i] \in {"pending", "active"} /\ \A j \in Issues : rv[j] # i

\* A session can go on.
GoesOn(s, rw, rv) == s # NoSession => Firm(s.refresh, rw, rv)

\* RestingCookieIsActive while a request is under way: it is the only one of its
\* browser b; its copy of the cookie can go on, or else a rotation is making the
\* token that can; and until it has refreshed it the copy is what the browser still
\* has.  The cookie is ck, the requests are rq, and the calls are cl.
Calm(b, ck, rq, cl, rw, rv) ==
    /\ \A q, r \in Requests : rq[q].browser = b /\ rq[r].browser = b => q = r
    /\ (\A r \in Requests : rq[r].browser # b) => GoesOn(ck, rw, rv)
    /\ \A r \in Requests : rq[r].browser = b =>
          /\ ~rq[r].dirty => rq[r].jar = ck
          /\ \/ GoesOn(rq[r].jar, rw, rv)
             \/ \E k \in Calls : RequestOf[k] = r /\ cl[k].pc = "rotating"
          /\ \A k \in Calls : RequestOf[k] = r /\ cl[k].pc = "rotating" =>
                Making(cl[k].token, rw, rv)

CalmInv == \A b \in Browsers \ disturbed : Calm(b, cookie[b], request, call, row, replaces)

HInv == IInv /\ FamilyInv /\ CalmInv

-----------------------------------------------------------------------------
(* Types *)

\* The fields of a request, and that a session of the two tokens is one.
LEMMA RequestFields ==
    ASSUME TypeOK, NEW r \in Requests
    PROVE  /\ request[r].pc \in {"idle", "calls", "respond"}
           /\ request[r].browser \in Browsers \cup {NoBrowser}
           /\ request[r].jar \in Session
           /\ request[r].jar.refresh \in Token
           /\ request[r].jar.access \in Token
<1>1. request[r] \in Request
  BY DEF TypeOK
<1>2. request[r].jar \in Session
  BY <1>1 DEF Request
<1>3. \A s \in Session : s.refresh \in Token /\ s.access \in Token
  BY BffAssumption DEF Session, NoSession, Token, Issues
<1> QED
  BY <1>1, <1>2, <1>3 DEF Request

\* The same of a cookie.
LEMMA CookieFields ==
    ASSUME TypeOK, NEW b \in Browsers
    PROVE  cookie[b] \in Session /\ cookie[b].refresh \in Token /\ cookie[b].access \in Token
<1>1. cookie[b] \in Session
  BY DEF TypeOK
<1>2. \A s \in Session : s.refresh \in Token /\ s.access \in Token
  BY BffAssumption DEF Session, NoSession, Token, Issues
<1> QED
  BY <1>1, <1>2

\* The records the actions build are requests and calls.
LEMMA RecordTypes ==
    /\ NoSession \in Session
    /\ NoRequest \in Request
    /\ IdleCall \in Call
    /\ \A b \in Browsers, s \in Session, d \in BOOLEAN :
          /\ [pc |-> "calls", browser |-> b, jar |-> s, dirty |-> d] \in Request
          /\ [pc |-> "respond", browser |-> b, jar |-> s, dirty |-> d] \in Request
    /\ \A t \in Token :
          /\ [pc |-> "fetch", token |-> t] \in Call
          /\ [pc |-> "sent", token |-> t] \in Call
          /\ [pc |-> "rotating", token |-> t] \in Call
    /\ \A i \in Issues, t \in Issues : [access |-> i, refresh |-> t] \in Session
<1>1. NoSession \in Session
  BY DEF Session
<1>2. NoRequest \in Request
  BY <1>1 DEF NoRequest, Request
<1>3. IdleCall \in Call
  BY BffAssumption DEF IdleCall, Call, Token
<1>4. \A b \in Browsers, s \in Session, d \in BOOLEAN :
          /\ [pc |-> "calls", browser |-> b, jar |-> s, dirty |-> d] \in Request
          /\ [pc |-> "respond", browser |-> b, jar |-> s, dirty |-> d] \in Request
  BY DEF Request
<1>5. \A t \in Token :
          /\ [pc |-> "fetch", token |-> t] \in Call
          /\ [pc |-> "sent", token |-> t] \in Call
          /\ [pc |-> "rotating", token |-> t] \in Call
  BY DEF Call, Refreshing
<1>6. \A i \in Issues, t \in Issues : [access |-> i, refresh |-> t] \in Session
  BY DEF Session
<1> QED
  BY <1>1, <1>2, <1>3, <1>4, <1>5, <1>6

\* What a rotation starts with.
LEMMA RotateFacts ==
    ASSUME TypeOK, NEW k \in Calls, Rotate(k)
    PROVE  \E t, n \in Issues :
              /\ call[k].pc = "sent" /\ t = call[k].token /\ row[t] = "active"
              /\ n = issued + 1 /\ issued' = n /\ issued < MaxIssued
              /\ row' = [row EXCEPT ![n] = "pending"]
              /\ family' = [family EXCEPT ![n] = family[t]]
              /\ user' = [user EXCEPT ![n] = user[t]]
              /\ replaces' = [replaces EXCEPT ![n] = t]
              /\ call' = [call EXCEPT ![k] = [pc |-> "rotating", token |-> n]]
              /\ UNCHANGED <<cookie, request, refreshPromise, stale, disturbed, signedOut>>
<1> USE BffAssumption
<1>1. call[k].token \in Token
  BY DEF TypeOK, Call
<1>2. call[k].token \in Issues /\ row[call[k].token] = "active"
  BY <1>1 DEF Rotate, RowOf, Token, Issues
<1>3. issued + 1 \in Issues
  BY DEF TypeOK, Rotate, Token, Issues
<1> QED
  BY <1>2, <1>3 DEF Rotate, past

\* The tokens an answer within the grace period carries.
LEMMA GraceTypes ==
    ASSUME TypeOK, NEW t \in Token, Grace(t)
    PROVE  /\ t \in Issues /\ issued' \in Issues /\ issued' = issued + 1
           /\ issued' \in Token
           /\ user' \in [Issues -> Browsers \cup {NoBrowser}]
           /\ user'[issued'] = user[t]
           /\ \A i \in Issues : i # issued' => user'[i] = user[i]
           /\ UNCHANGED <<row, family, replaces>>
<1>1. t \in Issues
  BY BffAssumption DEF Grace, RowOf, Token, Issues
<1> QED
  BY <1>1, BffAssumption DEF TypeOK, Grace, Token, Issues

\* What a good answer is, wherever it comes from.
LEMMA OkSaves ==
    ASSUME IInv, NEW k \in Calls, RefreshOk(k)
    PROVE  /\ Settle(k) /\ UNCHANGED <<cookie, stale, disturbed, signedOut>>
           /\ UNCHANGED <<row, family, replaces>>
           /\ \/ /\ call[k].pc = "rotating" /\ Rotated(call[k].token)
                 /\ call[k].token \in Issues
                 /\ SaveSession(k, [access |-> call[k].token, refresh |-> call[k].token])
                 /\ [access |-> call[k].token, refresh |-> call[k].token] \in Session
                 /\ UNCHANGED <<issued, user>>
              \/ /\ call[k].pc = "sent" /\ Grace(call[k].token)
                 /\ call[k].token \in Issues /\ issued' \in Issues /\ issued' = issued + 1
                 /\ SaveSession(k, [access |-> issued', refresh |-> call[k].token])
                 /\ [access |-> issued', refresh |-> call[k].token] \in Session
<1>1. TypeOK /\ call[k].token \in Token
  BY DEF IInv, TypeOK, Call
<1>2. CASE call[k].pc = "rotating" /\ Rotated(call[k].token)
           /\ SaveSession(k, [access |-> call[k].token, refresh |-> call[k].token])
           /\ UNCHANGED <<issued, table>>
  <2>1. call[k].token \in Issues
    BY <1>2 DEF IInv, SentInv, RotatingOk
  <2> QED
    BY <1>2, <2>1, RecordTypes DEF RefreshOk, table, past
<1>3. CASE call[k].pc = "sent" /\ Grace(call[k].token)
           /\ SaveSession(k, [access |-> issued', refresh |-> call[k].token])
  <2>1. /\ call[k].token \in Issues /\ issued' \in Issues /\ issued' = issued + 1
        /\ UNCHANGED <<row, family, replaces>>
    BY <1>1, <1>3, GraceTypes
  <2> QED
    BY <1>3, <2>1, RecordTypes DEF RefreshOk, past
<1> QED
  BY <1>2, <1>3 DEF RefreshOk

\* What a refusal is, wherever it comes from.
LEMMA NoSaves ==
    ASSUME IInv, NEW k \in Calls, RefreshRefused(k) \/ RefreshFails(k)
    PROVE  /\ call[k].pc \in Refreshing /\ Settle(k) /\ SaveSession(k, NoSession)
           /\ UNCHANGED <<cookie, stale, disturbed, signedOut, issued, family, user>>
BY DEF RefreshRefused, RefreshFails, Refuse, table, past, Refreshing

\* Settling the promise and saving a session keep the types.
LEMMA SettleTypes ==
    ASSUME TypeOK, NEW k \in Calls, Settle(k)
    PROVE  call' \in [Calls -> Call] /\ refreshPromise' = NoCall
<1>1. CallAt("done") \in Call
  BY BffAssumption DEF CallAt, Call, Token
<1> QED
  BY <1>1 DEF TypeOK, Settle

\* The request whose session is saved is one that makes calls.
LEMMA SaveTypes ==
    ASSUME IInv, NEW k \in Calls, call[k].pc \in Refreshing, NEW s \in Session,
           SaveSession(k, s)
    PROVE  request' \in [Requests -> Request]
<1>1. RequestOf[k] \in Requests /\ BrowserOf(k) \in Browsers
  BY BffAssumption DEF IInv, WorkInv, BrowserOf, Refreshing
<1> QED
  BY <1>1, RecordTypes DEF IInv, TypeOK, SaveSession

\* Every step keeps the variables within their types.
LEMMA TypeStep == ASSUME IInv, [Next]_vars PROVE TypeOK'
<1> USE BffAssumption
<1>0. TypeOK
  BY DEF IInv
<1>1. ASSUME NEW r \in Requests, NEW b \in Browsers, BeginCalls(r, b) PROVE TypeOK'
  <2>1. request' \in [Requests -> Request]
    BY <1>0, <1>1, CookieFields, RecordTypes DEF TypeOK, BeginCalls
  <2>2. call' \in [Calls -> Call]
    BY <1>0, <1>1, CookieFields, RecordTypes DEF TypeOK, BeginCalls
  <2> QED
    BY <1>0, <1>1, <2>1, <2>2 DEF TypeOK, BeginCalls, api, table, Overlapped
<1>2. ASSUME NEW r \in Requests, NEW b \in Browsers, NEW s \in Session, RespondWith(r, b, s)
      PROVE  /\ request' \in [Requests -> Request] /\ disturbed' \subseteq Browsers
             /\ UNCHANGED <<cookie, call, refreshPromise, stale>>
  BY <1>0, <1>2, RecordTypes DEF TypeOK, RespondWith, Overlapped
<1>3. ASSUME NEW r \in Requests, NEW b \in Browsers, Login(r, b) PROVE TypeOK'
  <2>1. issued + 1 \in Issues
    BY <1>0, <1>3 DEF Login, TypeOK, Issues, Token
  <2>2. [access |-> issued + 1, refresh |-> issued + 1] \in Session
    BY <2>1, RecordTypes
  <2> QED
    BY <1>0, <1>2, <1>3, <2>1, <2>2 DEF Login, TypeOK, Issues, Token
<1>4. ASSUME NEW r \in Requests, NEW b \in Browsers, Logout(r, b) PROVE TypeOK'
  BY <1>0, <1>2, <1>4, RecordTypes DEF Logout, SignedOutBy, TypeOK
<1>5. ASSUME NEW r \in Requests, NEW b \in Browsers, LogoutIgnored(r, b) PROVE TypeOK'
  BY <1>0, <1>2, <1>5, RecordTypes DEF LogoutIgnored, TypeOK, table
<1>6. ASSUME NEW r \in Requests, Respond(r) PROVE TypeOK'
  BY <1>0, <1>6, RequestFields, RecordTypes DEF Respond, Finish, TypeOK, api, table
<1>7. ASSUME NEW r \in Requests, ResponseLost(r) PROVE TypeOK'
  <2>1. request[r].browser \in Browsers
    BY <1>7 DEF ResponseLost, MayRespond, IInv, WorkInv
  <2> QED
    BY <1>0, <1>7, <2>1, RecordTypes DEF ResponseLost, Finish, TypeOK, api, table
<1>8. ASSUME NEW k \in Calls, FetchOk(k) PROVE TypeOK'
  <2>1. CallAt("done") \in Call
    BY DEF CallAt, Call, Token
  <2> QED
    BY <1>0, <1>8, <2>1 DEF FetchOk, TypeOK, api, table, past
<1>9. ASSUME NEW k \in Calls, FetchDenied(k) PROVE TypeOK'
  <2>1. CallAt("wait") \in Call /\ [pc |-> "sent", token |-> Jar(k).refresh] \in Call
    BY <1>0, RequestFields, RecordTypes DEF CallAt, Call, Token, Jar
  <2>2. call' \in [Calls -> Call] /\ refreshPromise' \in Calls \cup {NoCall}
    BY <1>0, <1>9, <2>1 DEF FetchDenied, TypeOK
  <2> QED
    BY <1>0, <1>9, <2>2 DEF FetchDenied, TypeOK, api, table, past
<1>17. ASSUME NEW k \in Calls, Rotate(k) PROVE TypeOK'
  <2>1. PICK t, n \in Issues :
              /\ issued' = n
              /\ row' = [row EXCEPT ![n] = "pending"]
              /\ family' = [family EXCEPT ![n] = family[t]]
              /\ user' = [user EXCEPT ![n] = user[t]]
              /\ replaces' = [replaces EXCEPT ![n] = t]
              /\ call' = [call EXCEPT ![k] = [pc |-> "rotating", token |-> n]]
              /\ UNCHANGED <<cookie, request, refreshPromise, stale, disturbed, signedOut>>
    BY <1>0, <1>17, RotateFacts
  <2>2. n \in Token /\ t \in Token
    BY DEF Token, Issues
  <2>3. [pc |-> "rotating", token |-> n] \in Call
    BY <2>2, RecordTypes
  <2> QED
    BY <1>0, <2>1, <2>2, <2>3 DEF TypeOK
<1>10. ASSUME NEW k \in Calls, RefreshOk(k) PROVE TypeOK'
  <2>1. /\ Settle(k) /\ UNCHANGED <<cookie, stale, disturbed, signedOut, row, family, replaces>>
        /\ call[k].pc \in Refreshing /\ \E s \in Session : SaveSession(k, s)
    BY <1>10, OkSaves DEF Refreshing
  <2>2. call' \in [Calls -> Call] /\ refreshPromise' = NoCall
    BY <1>0, <2>1, SettleTypes
  <2>3. request' \in [Requests -> Request]
    BY <2>1, SaveTypes
  <2>4. issued' \in Token /\ user' \in [Issues -> Browsers \cup {NoBrowser}]
    <3>1. call[k].token \in Token
      BY <1>0 DEF TypeOK, Call
    <3> QED
      BY <1>0, <1>10, <3>1, OkSaves, GraceTypes DEF TypeOK
  <2> QED
    BY <1>0, <2>1, <2>2, <2>3, <2>4 DEF TypeOK
<1>11. ASSUME NEW k \in Calls, RefreshRefused(k) \/ RefreshFails(k) PROVE TypeOK'
  <2>1. /\ call[k].pc \in Refreshing /\ Settle(k) /\ SaveSession(k, NoSession)
        /\ UNCHANGED <<cookie, stale, disturbed, signedOut, issued, family, user>>
    BY <1>11, NoSaves
  <2>2. call' \in [Calls -> Call] /\ refreshPromise' = NoCall
    BY <1>0, <2>1, SettleTypes
  <2>3. request' \in [Requests -> Request]
    BY <2>1, SaveTypes, RecordTypes
  <2>4. /\ row' \in [Issues -> {"absent", "pending", "active", "recent", "past", "failed"}]
        /\ replaces' \in [Issues -> Token]
    BY <1>0, <1>11 DEF RefreshRefused, Refuse, RefreshFails, WriteFails, table, TypeOK, Token
  <2> QED
    BY <1>0, <2>1, <2>2, <2>3, <2>4 DEF TypeOK
<1>13. ASSUME NEW k \in Calls, RefreshThrows(k) PROVE TypeOK'
  <2>1. call' \in [Calls -> Call] /\ refreshPromise' = NoCall
    BY <1>0, <1>13, SettleTypes DEF RefreshThrows
  <2>2. BrowserOf(k) \in Browsers
    BY <1>13 DEF RefreshThrows, IInv, WorkInv, BrowserOf, Refreshing
  <2> QED
    BY <1>0, <1>13, <2>1, <2>2 DEF RefreshThrows, Missed, TypeOK, api, table
<1>14. ASSUME NEW i \in Issues, GraceEnds(i) PROVE TypeOK'
  BY <1>0, <1>14 DEF GraceEnds, TypeOK, past
<1>18. ASSUME NEW i \in Issues, Revoke(i) PROVE TypeOK'
  <2>1. /\ row' \in [Issues -> {"absent", "pending", "active", "recent", "past", "failed"}]
        /\ UNCHANGED <<cookie, request, call, refreshPromise, issued, stale, family, user>>
        /\ UNCHANGED <<disturbed, signedOut>>
    BY <1>0, <1>18 DEF Revoke, TypeOK, past
  <2>2. replaces' \in [Issues -> Token]
    BY <1>0, <1>18 DEF Revoke, TypeOK, Token
  <2> QED
    BY <1>0, <2>1, <2>2 DEF TypeOK
<1>19. ASSUME NEW i \in Issues, Insert(i) PROVE TypeOK'
  BY <1>0, <1>19 DEF Insert, TypeOK, past
<1>15. CASE AccessExpires
  BY <1>0, <1>15 DEF AccessExpires, TypeOK, table, past, Token
<1>16. CASE UNCHANGED vars
  BY <1>0, <1>16 DEF vars, api, table, past, TypeOK
<1> QED
  BY <1>1, <1>3, <1>4, <1>5, <1>6, <1>7, <1>8, <1>9, <1>10, <1>11, <1>13,
     <1>14, <1>15, <1>16, <1>17, <1>18, <1>19 DEF Next, CallStep

-----------------------------------------------------------------------------
(* The single flight *)

\* Where the calls and the requests stand after a promise has settled.
LEMMA SettleControl ==
    ASSUME IInv, NEW k \in Calls, call[k].pc \in Refreshing, Settle(k),
           \/ UNCHANGED request
           \/ \E s \in Session : SaveSession(k, s)
    PROVE  WorkInv' /\ OneRefreshAtATime'
<1>1. /\ \A j \in Calls : call'[j].pc # "idle" => call[j].pc # "idle"
      /\ \A j \in Calls : call'[j].pc \notin Refreshing \cup {"wait"}
      /\ refreshPromise' = NoCall
  BY DEF IInv, TypeOK, Settle, CallAt, Refreshing, OneRefreshAtATime
<1>2. \A r \in Requests :
          request'[r].pc = request[r].pc /\ request'[r].browser = request[r].browser
  <2>1. request[RequestOf[k]].pc = "calls" /\ RequestOf[k] \in Requests
    BY BffAssumption DEF IInv, WorkInv, Refreshing
  <2>2. CASE UNCHANGED request
    BY <2>2
  <2>3. CASE \E s \in Session : SaveSession(k, s)
    <3>1. PICK s \in Session : SaveSession(k, s)
      BY <2>3
    <3> QED
      BY <2>1, <3>1 DEF IInv, TypeOK, SaveSession, BrowserOf
  <2> QED
    BY <2>2, <2>3
<1>3. WorkInv'
  BY <1>1, <1>2, BffAssumption DEF IInv, WorkInv
<1>4. OneRefreshAtATime'
  BY <1>1, BffAssumption DEF OneRefreshAtATime
<1> QED
  BY <1>3, <1>4

\* Calls belong to requests at work, and there is one refresh at a time.
LEMMA ControlStep == ASSUME IInv, [Next]_vars PROVE WorkInv' /\ OneRefreshAtATime'
<1> USE BffAssumption
<1>0. TypeOK /\ WorkInv /\ OneRefreshAtATime
  BY DEF IInv
<1>1. ASSUME NEW r \in Requests, NEW b \in Browsers, BeginCalls(r, b)
      PROVE  WorkInv' /\ OneRefreshAtATime'
  <2>1. \A k \in Calls : RequestOf[k] = r => call[k].pc = "idle"
    BY <1>0, <1>1 DEF BeginCalls, WorkInv
  <2>2. \A k \in Calls : IF RequestOf[k] = r THEN call'[k].pc = "fetch" ELSE call'[k] = call[k]
    BY <1>1 DEF BeginCalls
  <2>3. /\ request'[r].pc = "calls" /\ request'[r].browser = b
        /\ \A q \in Requests : q # r => request'[q] = request[q]
        /\ refreshPromise' = refreshPromise
    BY <1>0, <1>1 DEF BeginCalls, TypeOK
  <2>4. WorkInv'
    BY <1>0, <2>2, <2>3 DEF WorkInv
  <2>5. OneRefreshAtATime'
    BY <1>0, <2>1, <2>2, <2>3 DEF OneRefreshAtATime, Refreshing
  <2> QED
    BY <2>4, <2>5
<1>2. ASSUME NEW r \in Requests, NEW b \in Browsers, NEW s \in Session, RespondWith(r, b, s)
      PROVE  WorkInv' /\ OneRefreshAtATime'
  <2>1. \A k \in Calls : RequestOf[k] = r => call[k].pc = "idle"
    BY <1>0, <1>2 DEF RespondWith, WorkInv
  <2>2. /\ request'[r].pc = "respond" /\ request'[r].browser = b
        /\ \A q \in Requests : q # r => request'[q] = request[q]
        /\ UNCHANGED <<call, refreshPromise>>
    BY <1>0, <1>2 DEF RespondWith, TypeOK
  <2> QED
    BY <1>0, <2>1, <2>2 DEF WorkInv, OneRefreshAtATime
<1>3. ASSUME NEW r \in Requests, NEW b \in Browsers, Login(r, b)
      PROVE  WorkInv' /\ OneRefreshAtATime'
  <2>1. issued + 1 \in Issues
    BY <1>0, <1>3 DEF Login, TypeOK, Issues, Token
  <2>2. [access |-> issued + 1, refresh |-> issued + 1] \in Session
    BY <2>1, RecordTypes
  <2> QED
    BY <1>2, <1>3, <2>2 DEF Login
<1>4. ASSUME NEW r \in Requests, NEW b \in Browsers, Logout(r, b) \/ LogoutIgnored(r, b)
      PROVE  WorkInv' /\ OneRefreshAtATime'
  BY <1>2, <1>4, RecordTypes DEF Logout, LogoutIgnored
<1>5. ASSUME NEW r \in Requests, MayRespond(r), Finish(r)
      PROVE  WorkInv' /\ OneRefreshAtATime'
  <2>1. \A k \in Calls : RequestOf[k] = r => call[k].pc \in {"done", "idle"}
    BY <1>0, <1>5 DEF MayRespond, WorkInv, CallsOf
  <2>2. \A k \in Calls : IF RequestOf[k] = r THEN call'[k].pc = "idle" ELSE call'[k] = call[k]
    BY <1>5 DEF Finish, IdleCall
  <2>3. /\ request'[r].pc = "idle" /\ request'[r].browser = NoBrowser
        /\ \A q \in Requests : q # r => request'[q] = request[q]
        /\ refreshPromise' = refreshPromise
    BY <1>0, <1>5 DEF Finish, TypeOK, NoRequest
  <2>4. WorkInv'
    BY <1>0, <2>2, <2>3 DEF WorkInv
  <2>5. OneRefreshAtATime'
    BY <1>0, <2>1, <2>2, <2>3 DEF OneRefreshAtATime, Refreshing
  <2> QED
    BY <2>4, <2>5
<1>6. ASSUME NEW k \in Calls, FetchOk(k) PROVE WorkInv' /\ OneRefreshAtATime'
  BY <1>0, <1>6 DEF FetchOk, CallAt, TypeOK, WorkInv, OneRefreshAtATime, Refreshing
<1>7. ASSUME NEW k \in Calls, FetchDenied(k) PROVE WorkInv' /\ OneRefreshAtATime'
  <2>1. WorkInv'
    BY <1>0, <1>7 DEF FetchDenied, TypeOK, WorkInv
  <2>2. call[k].pc = "fetch" /\ \A j \in Calls : j # k => call'[j] = call[j]
    BY <1>0, <1>7 DEF FetchDenied, TypeOK
  <2>3. CASE refreshPromise = NoCall
    <3>1. refreshPromise' = k /\ call'[k].pc = "sent"
      BY <1>0, <1>7, <2>3 DEF FetchDenied, TypeOK
    <3>2. \A j \in Calls : call[j].pc \notin Refreshing \cup {"wait"}
      BY <1>0, <2>3 DEF OneRefreshAtATime
    <3>3. \A j \in Calls : j # k => call'[j].pc \notin Refreshing \cup {"wait"}
      BY <2>2, <3>2
    <3> QED
      BY <2>1, <3>1, <3>3 DEF OneRefreshAtATime, Refreshing
  <2>4. CASE refreshPromise # NoCall
    <3>1. refreshPromise' = refreshPromise /\ call'[k].pc = "wait"
      BY <1>0, <1>7, <2>4 DEF FetchDenied, TypeOK, CallAt
    <3>2. \A j \in Calls : call'[j].pc \in Refreshing <=> call[j].pc \in Refreshing
      BY <2>2, <3>1 DEF Refreshing
    <3> QED
      BY <1>0, <2>1, <2>4, <3>1, <3>2 DEF OneRefreshAtATime
  <2> QED
    BY <2>1, <2>3, <2>4
<1>12. ASSUME NEW k \in Calls, Rotate(k) PROVE WorkInv' /\ OneRefreshAtATime'
  <2>1. /\ call[k].pc = "sent" /\ call'[k].pc = "rotating"
        /\ \A j \in Calls : j # k => call'[j] = call[j]
        /\ UNCHANGED <<request, refreshPromise>>
    BY <1>0, <1>12 DEF Rotate, TypeOK
  <2>2. WorkInv'
    BY <1>0, <2>1 DEF WorkInv
  <2>3. \A j \in Calls : /\ call'[j].pc \in Refreshing <=> call[j].pc \in Refreshing
                         /\ call'[j].pc = "wait" <=> call[j].pc = "wait"
    BY <2>1 DEF Refreshing
  <2>4. OneRefreshAtATime'
    BY <1>0, <2>1, <2>3 DEF OneRefreshAtATime
  <2> QED
    BY <2>2, <2>4
<1>8. ASSUME NEW k \in Calls, RefreshOk(k) PROVE WorkInv' /\ OneRefreshAtATime'
  <2>1. Settle(k) /\ call[k].pc \in Refreshing /\ \E s \in Session : SaveSession(k, s)
    BY <1>8, OkSaves DEF Refreshing
  <2> QED
    BY <2>1, SettleControl
<1>9. ASSUME NEW k \in Calls, RefreshRefused(k) \/ RefreshFails(k)
      PROVE  WorkInv' /\ OneRefreshAtATime'
  BY <1>9, NoSaves, SettleControl, RecordTypes
<1>10. ASSUME NEW k \in Calls, RefreshThrows(k) PROVE WorkInv' /\ OneRefreshAtATime'
  BY <1>10, SettleControl DEF RefreshThrows
<1>11. CASE UNCHANGED <<request, call, refreshPromise>>
  BY <1>0, <1>11 DEF WorkInv, OneRefreshAtATime
<1> QED
  BY <1>1, <1>3, <1>4, <1>5, <1>6, <1>7, <1>8, <1>9, <1>10, <1>11, <1>12
     DEF Next, CallStep, Respond, ResponseLost, Revoke, Insert, GraceEnds, AccessExpires, vars

-----------------------------------------------------------------------------
(* Whose tokens *)

\* The promise settles: no call is left with a refresh under way.
LEMMA SettleSent ==
    ASSUME IInv, NEW k \in Calls, call[k].pc \in Refreshing, Settle(k)
    PROVE  SentInv' /\ \A j \in Calls : call'[j].pc \notin Refreshing
<1>1. \A j \in Calls : call'[j].pc \notin Refreshing
  BY DEF IInv, TypeOK, Settle, CallAt, Refreshing, OneRefreshAtATime
<1> QED
  BY <1>1 DEF SentInv, Refreshing

\* The session is saved in one request, for its browser.
LEMMA SaveEffect ==
    ASSUME IInv, NEW k \in Calls, NEW s \in Session, SaveSession(k, s)
    PROVE  /\ RequestOf[k] \in Requests
           /\ request'[RequestOf[k]].jar = s
           /\ request'[RequestOf[k]].browser = BrowserOf(k)
           /\ request'[RequestOf[k]].dirty = TRUE
           /\ \A r \in Requests : r # RequestOf[k] => request'[r] = request[r]
<1>1. RequestOf[k] \in Requests
  BY BffAssumption
<1> QED
  BY <1>1 DEF IInv, TypeOK, SaveSession

\* Who a refresh is for: a browser, whose tokens its request has.
LEMMA RefreshFor ==
    ASSUME IInv, NEW k \in Calls, call[k].pc \in Refreshing
    PROVE  /\ RequestOf[k] \in Requests /\ BrowserOf(k) \in Browsers /\ BrowserOf(k) # NoBrowser
           /\ call[k].token \in Token /\ Jar(k) \in Session /\ Jar(k).refresh \in Token
           /\ Own(user, BrowserOf(k), Jar(k))
           /\ call[k].token \in Issues => user[call[k].token] = BrowserOf(k)
<1> USE BffAssumption
<1>1. /\ RequestOf[k] \in Requests /\ BrowserOf(k) \in Browsers /\ BrowserOf(k) # NoBrowser
      /\ call[k].token \in Token
  BY DEF IInv, TypeOK, Call, WorkInv, BrowserOf, Refreshing
<1>2. Jar(k) \in Session /\ Jar(k).refresh \in Token
  BY <1>1, RequestFields DEF IInv, Jar
<1>3. Own(user, BrowserOf(k), Jar(k))
  BY <1>1 DEF IInv, OwnInv, OwnJar, Jar, BrowserOf
<1>4. call[k].token \in Issues => user[call[k].token] = BrowserOf(k)
  BY <1>3 DEF IInv, SentInv, RotatingOk, Own, Refreshing
<1> QED
  BY <1>1, <1>2, <1>3, <1>4

\* Handing out a token takes nothing from anybody.
LEMMA HandOut ==
    ASSUME IInv, NEW b \in Browsers \cup {NoBrowser}, issued < MaxIssued,
           issued' = issued + 1, user' = [user EXCEPT ![issued + 1] = b]
    PROVE  /\ IssuedInv'
           /\ issued' \in Issues /\ user'[issued'] = b
           /\ \A i \in Issues : user[i] # NoBrowser => i # issued' /\ user'[i] = user[i]
           /\ \A c, s : c # NoBrowser /\ Own(user, c, s) => Own(user', c, s)
           /\ \A r : OwnJar(user, r) => OwnJar(user', r)
<1> USE BffAssumption
<1>1. issued \in Nat /\ issued + 1 \in Issues /\ user \in [Issues -> Browsers \cup {NoBrowser}]
  BY DEF IInv, TypeOK, Token, Issues
<1>2. user[issued + 1] = NoBrowser
  BY <1>1 DEF IInv, IssuedInv
<1>3. IssuedInv'
  BY <1>1 DEF IInv, IssuedInv, Issues
<1>4. \A c, s : c # NoBrowser /\ Own(user, c, s) => Own(user', c, s)
  BY <1>1, <1>2 DEF Own
<1>5. \A r : OwnJar(user, r) => OwnJar(user', r)
  BY <1>4 DEF OwnJar
<1>6. \A i \in Issues : user[i] # NoBrowser => i # issued' /\ user'[i] = user[i]
  BY <1>1, <1>2
<1> QED
  BY <1>1, <1>3, <1>4, <1>5, <1>6

\* What is said of the refreshes under way survives a step that leaves them, and
\* the tokens that are somebody's, alone.
LEMMA SentFrame ==
    ASSUME IInv,
           \A j \in Calls : call'[j].pc \in Refreshing =>
               call'[j] = call[j] /\ request'[RequestOf[j]] = request[RequestOf[j]],
           \A i \in Issues : user[i] # NoBrowser =>
               user'[i] = user[i] /\ family'[i] = family[i]
    PROVE  SentInv'
<1> SUFFICES ASSUME NEW j \in Calls, call'[j].pc \in Refreshing
             PROVE  /\ call'[j].pc = "sent" => call'[j].token = Jar(j)'.refresh
                    /\ call'[j].pc = "rotating" => RotatingOk(j)'
  BY DEF SentInv, Refreshing, Jar
<1>1. call'[j] = call[j] /\ Jar(j)' = Jar(j) /\ BrowserOf(j)' = BrowserOf(j)
  BY BffAssumption DEF Jar, BrowserOf
<1>2. /\ call[j].pc = "sent" => call[j].token = Jar(j).refresh
      /\ call[j].pc = "rotating" => RotatingOk(j)
  BY DEF IInv, SentInv
<1>3. BrowserOf(j) # NoBrowser /\ Own(user, BrowserOf(j), Jar(j))
  BY <1>1, RefreshFor
<1>4. ASSUME RotatingOk(j) PROVE RotatingOk(j)'
  <2>1. user[call[j].token] # NoBrowser /\ user[Jar(j).refresh] # NoBrowser
    BY <1>3, <1>4 DEF RotatingOk, Own
  <2> QED
    BY <1>1, <1>4, <2>1 DEF RotatingOk
<1> QED
  BY <1>1, <1>2, <1>4

\* A rotation makes a token for the user, and the family, of the one presented.
LEMMA RotateOwn ==
    ASSUME IInv, NEW k \in Calls, Rotate(k)
    PROVE  SentInv' /\ IssuedInv' /\ OwnInv'
<1> USE BffAssumption
<1>0. TypeOK /\ SentInv /\ OwnInv
  BY DEF IInv
<1>1. PICK t, n \in Issues :
          /\ call[k].pc = "sent" /\ t = call[k].token
          /\ n = issued + 1 /\ issued' = n /\ issued < MaxIssued
          /\ family' = [family EXCEPT ![n] = family[t]]
          /\ user' = [user EXCEPT ![n] = user[t]]
          /\ call' = [call EXCEPT ![k] = [pc |-> "rotating", token |-> n]]
          /\ UNCHANGED <<cookie, request>>
  BY <1>0, RotateFacts
<1>2. /\ t = Jar(k).refresh /\ user[t] = BrowserOf(k)
      /\ BrowserOf(k) \in Browsers /\ BrowserOf(k) # NoBrowser
  BY <1>0, <1>1, RefreshFor DEF SentInv, Refreshing
<1>3. /\ IssuedInv'
      /\ user'[n] = BrowserOf(k)
      /\ \A i \in Issues : user[i] # NoBrowser => i # n /\ user'[i] = user[i]
      /\ \A c, s : c # NoBrowser /\ Own(user, c, s) => Own(user', c, s)
      /\ \A r : OwnJar(user, r) => OwnJar(user', r)
  BY <1>1, <1>2, HandOut
<1>4. OwnInv'
  BY <1>0, <1>1, <1>3 DEF OwnInv
<1>5. SentInv'
  <2>1. call[k].pc \in Refreshing
    BY <1>1 DEF Refreshing
  <2>2. \A j \in Calls : j # k => call'[j].pc \notin Refreshing
    BY <1>0, <1>1, <2>1 DEF TypeOK, IInv, OneRefreshAtATime
  <2>3. call'[k] = [pc |-> "rotating", token |-> n]
    BY <1>0, <1>1 DEF TypeOK
  <2>4. Jar(k)' = Jar(k) /\ BrowserOf(k)' = BrowserOf(k)
    BY <1>1 DEF Jar, BrowserOf
  <2>5. t # n /\ family'[n] = family[t] /\ family'[t] = family[t]
    BY <1>0, <1>1, <1>2, <1>3 DEF TypeOK
  <2>6. RotatingOk(k)'
    BY <1>2, <1>3, <2>3, <2>4, <2>5 DEF RotatingOk
  <2> QED
    BY <2>2, <2>3, <2>6 DEF SentInv, Refreshing
<1> QED
  BY <1>3, <1>4, <1>5

\* The answer of the API belongs to the user whose token was presented.
LEMMA RefreshOwn ==
    ASSUME IInv, NEW k \in Calls, RefreshOk(k)
    PROVE  IssuedInv' /\ OwnInv'
<1> USE BffAssumption
<1> DEFINE t == call[k].token
<1>0. /\ TypeOK /\ OwnInv /\ IssuedInv /\ call[k].pc \in Refreshing /\ t \in Issues
      /\ UNCHANGED cookie
  BY OkSaves DEF IInv, Refreshing
<1>1. user[t] = BrowserOf(k) /\ BrowserOf(k) \in Browsers /\ BrowserOf(k) # NoBrowser
  BY <1>0, RefreshFor
<1>2. ASSUME NEW s \in Session, SaveSession(k, s), Own(user', BrowserOf(k), s),
             \A c, x : c # NoBrowser /\ Own(user, c, x) => Own(user', c, x),
             \A r : OwnJar(user, r) => OwnJar(user', r)
      PROVE  OwnInv'
  <2>1. \A b \in Browsers : Own(user', b, cookie'[b])
    BY <1>0, <1>2 DEF OwnInv
  <2>2. \A r \in Requests : OwnJar(user', request'[r])
    <3>1. /\ request'[RequestOf[k]].jar = s /\ request'[RequestOf[k]].browser = BrowserOf(k)
          /\ \A r \in Requests : r # RequestOf[k] => request'[r] = request[r]
      BY <1>2, SaveEffect
    <3>2. OwnJar(user', request'[RequestOf[k]])
      BY <1>1, <1>2, <3>1 DEF OwnJar
    <3>3. \A r \in Requests : r # RequestOf[k] => OwnJar(user', request'[r])
      BY <1>0, <1>2, <3>1 DEF OwnInv
    <3> QED
      BY <3>2, <3>3
  <2> QED
    BY <2>1, <2>2 DEF OwnInv
<1>3. CASE /\ SaveSession(k, [access |-> t, refresh |-> t])
           /\ [access |-> t, refresh |-> t] \in Session
           /\ UNCHANGED <<issued, user>>
  <2>1. Own(user', BrowserOf(k), [access |-> t, refresh |-> t])
    BY <1>1, <1>3 DEF Own
  <2> QED
    BY <1>0, <1>2, <1>3, <2>1 DEF IssuedInv
<1>4. CASE /\ Grace(t) /\ issued' \in Issues /\ issued' = issued + 1
           /\ SaveSession(k, [access |-> issued', refresh |-> t])
           /\ [access |-> issued', refresh |-> t] \in Session
  <2>1. issued < MaxIssued /\ user' = [user EXCEPT ![issued + 1] = BrowserOf(k)]
    BY <1>1, <1>4 DEF Grace
  <2>2. /\ IssuedInv' /\ user'[issued'] = BrowserOf(k) /\ user'[t] = user[t]
        /\ \A c, x : c # NoBrowser /\ Own(user, c, x) => Own(user', c, x)
        /\ \A r : OwnJar(user, r) => OwnJar(user', r)
    BY <1>0, <1>1, <1>4, <2>1, HandOut
  <2>3. Own(user', BrowserOf(k), [access |-> issued', refresh |-> t])
    BY <1>1, <2>2 DEF Own
  <2> QED
    BY <1>2, <1>4, <2>2, <2>3
<1> QED
  BY <1>3, <1>4, OkSaves

\* Every step keeps the tokens with their users.
LEMMA OwnStep == ASSUME IInv, [Next]_vars PROVE SentInv' /\ IssuedInv' /\ OwnInv'
<1> USE BffAssumption
<1>0. TypeOK /\ WorkInv /\ SentInv /\ IssuedInv /\ OwnInv
  BY DEF IInv
<1>1. ASSUME NEW r \in Requests, NEW b \in Browsers, BeginCalls(r, b)
      PROVE  SentInv' /\ IssuedInv' /\ OwnInv'
  <2>1. /\ \A k \in Calls : IF RequestOf[k] = r THEN call'[k].pc = "fetch" ELSE call'[k] = call[k]
        /\ request'[r].browser = b /\ request'[r].jar = cookie[b]
        /\ \A q \in Requests : q # r => request'[q] = request[q]
        /\ UNCHANGED <<cookie, issued, family, user>>
    BY <1>0, <1>1 DEF BeginCalls, TypeOK, api, table
  <2>2. SentInv'
    BY <2>1, SentFrame DEF Refreshing
  <2>3. IssuedInv' /\ OwnInv'
    BY <1>0, <2>1 DEF IssuedInv, OwnInv, OwnJar
  <2> QED
    BY <2>2, <2>3
<1>2. ASSUME NEW r \in Requests, NEW b \in Browsers, NEW s \in Session, RespondWith(r, b, s),
             \A i \in Issues : user[i] # NoBrowser => user'[i] = user[i] /\ family'[i] = family[i]
      PROVE  /\ SentInv'
             /\ request'[r].browser = b /\ request'[r].jar = s
             /\ \A q \in Requests : q # r => request'[q] = request[q]
             /\ UNCHANGED cookie
  <2>1. \A k \in Calls : RequestOf[k] = r => call[k].pc = "idle"
    BY <1>0, <1>2 DEF RespondWith, WorkInv
  <2>2. /\ request'[r].browser = b /\ request'[r].jar = s
        /\ \A q \in Requests : q # r => request'[q] = request[q]
        /\ UNCHANGED <<cookie, call>>
    BY <1>0, <1>2 DEF RespondWith, TypeOK
  <2> QED
    BY <1>2, <2>1, <2>2, SentFrame DEF Refreshing
<1>3. ASSUME NEW r \in Requests, NEW b \in Browsers, Login(r, b)
      PROVE  SentInv' /\ IssuedInv' /\ OwnInv'
  <2> DEFINE s == [access |-> issued + 1, refresh |-> issued + 1]
  <2>1. /\ IssuedInv'
        /\ issued' = issued + 1 /\ issued' \in Issues /\ user'[issued'] = b
        /\ \A i \in Issues : user[i] # NoBrowser => i # issued' /\ user'[i] = user[i]
        /\ \A c, x : c # NoBrowser /\ Own(user, c, x) => Own(user', c, x)
        /\ \A q : OwnJar(user, q) => OwnJar(user', q)
    BY <1>3, HandOut DEF Login
  <2>2. s \in Session
    BY <2>1, RecordTypes
  <2>3. RespondWith(r, b, s)
    BY <1>3 DEF Login
  <2>4. Own(user', b, s)
    BY <2>1 DEF Own
  <2>5. \A i \in Issues : user[i] # NoBrowser => family'[i] = family[i]
    BY <1>0, <1>3, <2>1 DEF Login, TypeOK
  <2>6. OwnInv'
    BY <1>0, <1>2, <2>1, <2>2, <2>3, <2>4, <2>5 DEF OwnInv, OwnJar
  <2> QED
    BY <1>2, <2>1, <2>2, <2>3, <2>5, <2>6
<1>4. ASSUME NEW r \in Requests, NEW b \in Browsers, Logout(r, b) \/ LogoutIgnored(r, b)
      PROVE  SentInv' /\ IssuedInv' /\ OwnInv'
  <2>1. RespondWith(r, b, NoSession) /\ UNCHANGED <<issued, family, user>>
    BY <1>4 DEF Logout, LogoutIgnored, table
  <2>2. Own(user, b, NoSession)
    BY DEF Own, NoSession, Issues
  <2>3. OwnInv'
    BY <1>0, <1>2, <2>1, <2>2, RecordTypes DEF OwnInv, OwnJar
  <2> QED
    BY <1>0, <1>2, <2>1, <2>3, RecordTypes DEF IssuedInv
<1>5. ASSUME NEW r \in Requests, Finish(r) PROVE SentInv' /\ IssuedInv'
                 /\ \A q \in Requests : OwnJar(user', request'[q])
  <2>1. /\ \A k \in Calls : IF RequestOf[k] = r THEN call'[k].pc = "idle" ELSE call'[k] = call[k]
        /\ request'[r] = NoRequest
        /\ \A q \in Requests : q # r => request'[q] = request[q]
        /\ UNCHANGED <<issued, family, user>>
    BY <1>0, <1>5 DEF Finish, TypeOK, IdleCall, api, table
  <2>2. SentInv'
    BY <2>1, SentFrame DEF Refreshing
  <2> QED
    BY <1>0, <2>1, <2>2 DEF IssuedInv, OwnInv, OwnJar, NoRequest
<1>6. ASSUME NEW r \in Requests, Respond(r) PROVE SentInv' /\ IssuedInv' /\ OwnInv'
  <2>1. Finish(r) /\ user' = user
    BY <1>6 DEF Respond, Finish, api, table
  <2>2. \A b \in Browsers : b = request[r].browser => Own(user, b, request[r].jar)
    BY <1>0 DEF OwnInv, OwnJar
  <2>3. \A b \in Browsers : Own(user', b, cookie'[b])
    BY <1>0, <1>6, <2>1, <2>2 DEF Respond, OwnInv
  <2> QED
    BY <1>5, <2>1, <2>3 DEF OwnInv
<1>7. ASSUME NEW r \in Requests, ResponseLost(r) PROVE SentInv' /\ IssuedInv' /\ OwnInv'
  BY <1>0, <1>5, <1>7 DEF ResponseLost, Finish, api, table, OwnInv
<1>8. ASSUME NEW k \in Calls, FetchOk(k) PROVE SentInv' /\ IssuedInv' /\ OwnInv'
  <2>1. /\ \A j \in Calls : call'[j].pc \in Refreshing => call'[j] = call[j]
        /\ UNCHANGED <<cookie, request, issued, family, user>>
    BY <1>0, <1>8 DEF FetchOk, CallAt, TypeOK, api, table, Refreshing
  <2> QED
    BY <1>0, <2>1, SentFrame DEF IssuedInv, OwnInv
<1>9. ASSUME NEW k \in Calls, FetchDenied(k) PROVE SentInv' /\ IssuedInv' /\ OwnInv'
  <2>1. /\ call'[k].pc = "sent" => call'[k].token = Jar(k).refresh
        /\ call'[k].pc # "rotating"
    BY <1>0, <1>9 DEF FetchDenied, TypeOK, CallAt
  <2>2. /\ \A j \in Calls : j # k => call'[j] = call[j]
        /\ UNCHANGED <<cookie, request, issued, family, user>>
    BY <1>0, <1>9 DEF FetchDenied, TypeOK, api, table
  <2> QED
    BY <1>0, <2>1, <2>2 DEF SentInv, RotatingOk, Jar, BrowserOf, IssuedInv, OwnInv
<1>14. ASSUME NEW k \in Calls, Rotate(k) PROVE SentInv' /\ IssuedInv' /\ OwnInv'
  BY <1>14, RotateOwn
<1>10. ASSUME NEW k \in Calls, RefreshOk(k) PROVE SentInv' /\ IssuedInv' /\ OwnInv'
  BY <1>10, RefreshOwn, SettleSent, OkSaves DEF Refreshing
<1>11. ASSUME NEW k \in Calls, RefreshRefused(k) \/ RefreshFails(k)
       PROVE  SentInv' /\ IssuedInv' /\ OwnInv'
  <2>1. /\ call[k].pc \in Refreshing /\ SaveSession(k, NoSession) /\ Settle(k)
        /\ UNCHANGED <<cookie, issued, user>>
    BY <1>11, NoSaves
  <2>2. Own(user, BrowserOf(k), NoSession)
    BY DEF Own, NoSession, Issues
  <2>3. BrowserOf(k) # NoBrowser
    BY <2>1, RefreshFor
  <2>4. OwnInv'
    <3>1. /\ request'[RequestOf[k]].browser = BrowserOf(k)
          /\ request'[RequestOf[k]].jar = NoSession
          /\ \A r \in Requests : r # RequestOf[k] => request'[r] = request[r]
      BY <2>1, RecordTypes, SaveEffect
    <3>2. OwnJar(user', request'[RequestOf[k]])
      BY <2>1, <2>2, <2>3, <3>1 DEF OwnJar
    <3>3. \A r \in Requests : r # RequestOf[k] => OwnJar(user', request'[r])
      BY <1>0, <2>1, <3>1 DEF OwnInv
    <3>4. \A b \in Browsers : Own(user', b, cookie'[b])
      BY <1>0, <2>1 DEF OwnInv
    <3> QED
      BY <3>2, <3>3, <3>4 DEF OwnInv
  <2> QED
    BY <1>0, <2>1, <2>4, SettleSent DEF IssuedInv
<1>12. ASSUME NEW k \in Calls, RefreshThrows(k) PROVE SentInv' /\ IssuedInv' /\ OwnInv'
  <2>1. /\ call[k].pc \in Refreshing /\ Settle(k)
        /\ UNCHANGED <<cookie, request, issued, user>>
    BY <1>12 DEF RefreshThrows, api, table
  <2> QED
    BY <1>0, <2>1, SettleSent DEF IssuedInv, OwnInv
<1>13. CASE UNCHANGED <<cookie, request, call, issued, family, user>>
  BY <1>0, <1>13 DEF SentInv, RotatingOk, Jar, BrowserOf, IssuedInv, OwnInv
<1> QED
  BY <1>1, <1>3, <1>4, <1>6, <1>7, <1>8, <1>9, <1>10, <1>11, <1>12, <1>13, <1>14
     DEF Next, CallStep, Revoke, Insert, GraceEnds, AccessExpires, vars, api, table, past

-----------------------------------------------------------------------------
(* Logout *)

\* A refusal, by the API or by a failing write, makes no token active, and none
\* that is about to be.
LEMMA NoRises ==
    ASSUME IInv, NEW k \in Calls, RefreshRefused(k) \/ RefreshFails(k)
    PROVE  /\ \A i \in Issues : /\ row'[i] = "active" => row[i] = "active"
                                /\ row'[i] = "pending" => row[i] = "pending"
                                /\ row'[i] = "absent" <=> row[i] = "absent"
           /\ \A i \in Issues : replaces'[i] \in {0, replaces[i]}
           /\ \A i \in Issues : row[i] \in {"active", "recent", "past"} =>
                  row'[i] \in {"active", "recent", "past"}
<1>0. TypeOK
  BY DEF IInv
<1>1. CASE RefreshRefused(k)
  BY <1>0, <1>1 DEF RefreshRefused, Refuse, Active, TypeOK
<1>2. CASE UNCHANGED <<row, replaces>>
  BY <1>0, <1>2
<1>3. CASE WriteFails(call[k].token)
  BY <1>0, <1>3 DEF WriteFails, TypeOK
<1> QED
  BY <1>1, <1>2, <1>3 DEF RefreshFails, table

\* A token in the table is not the next one to be handed out.
LEMMA NotNext ==
    ASSUME IInv, NEW i \in Issues, row[i] # "absent"
    PROVE  user[i] # NoBrowser /\ i # issued + 1
<1>1. issued \in Nat /\ i \in Nat
  BY BffAssumption DEF IInv, TypeOK, Token, Issues
<1>2. user[i] # NoBrowser
  BY DEF IInv, SignedInv
<1>3. i <= issued
  BY <1>2 DEF IInv, IssuedInv
<1> QED
  BY <1>1, <1>2, <1>3

\* Every step leaves the browsers that are signed out without active tokens.
LEMMA SignedStep == ASSUME IInv, [Next]_vars PROVE SignedInv'
<1> USE BffAssumption
<1>0. TypeOK /\ SignedInv
  BY DEF IInv
<1>1. ASSUME NEW r \in Requests, NEW b \in Browsers, Login(r, b) PROVE SignedInv'
  BY <1>0, <1>1 DEF Login, TypeOK, SignedInv
<1>2. ASSUME NEW r \in Requests, NEW b \in Browsers, Logout(r, b) PROVE SignedInv'
  <2>1. /\ UNCHANGED user
        /\ \A i \in Issues :
              row'[i] = IF user[i] = b /\ row[i] = "active" THEN "recent" ELSE row[i]
    BY <1>0, <1>2 DEF Logout, TypeOK
  <2>2. ASSUME NEW c \in signedOut', NEW i \in Issues, user[i] = c
        PROVE  row'[i] \notin {"active", "pending"}
    <3>1. CASE c = b /\ Pending(b) = {}
      <4>1. row[i] # "pending"
        BY <2>2, <3>1 DEF Pending
      <4> QED
        BY <2>1, <2>2, <3>1, <4>1
    <3>2. CASE c \in signedOut
      BY <1>0, <2>1, <2>2, <3>2 DEF SignedInv
    <3> QED
      BY <1>2, <2>2, <3>1, <3>2 DEF Logout, SignedOutBy
  <2> QED
    BY <1>0, <2>1, <2>2 DEF SignedInv
<1>3. ASSUME NEW k \in Calls, Rotate(k) PROVE SignedInv'
  <2>1. PICK t, n \in Issues :
            /\ row[t] = "active" /\ n = issued + 1
            /\ row' = [row EXCEPT ![n] = "pending"]
            /\ user' = [user EXCEPT ![n] = user[t]]
            /\ UNCHANGED signedOut
    BY <1>0, <1>3, RotateFacts
  <2>2. user[t] \notin signedOut /\ user[t] # NoBrowser
    BY <1>0, <2>1 DEF SignedInv
  <2> QED
    BY <1>0, <2>1, <2>2 DEF TypeOK, SignedInv
<1>4. ASSUME NEW k \in Calls, RefreshOk(k) PROVE SignedInv'
  <2>1. UNCHANGED <<row, signedOut>>
    BY <1>4, OkSaves
  <2>2. CASE UNCHANGED user
    BY <1>0, <2>1, <2>2 DEF SignedInv
  <2>3. CASE Grace(call[k].token)
    <3>1. /\ issued' \in Issues /\ issued' = issued + 1
          /\ \A i \in Issues : i # issued' => user'[i] = user[i]
      <4>1. call[k].token \in Token
        BY <1>0 DEF TypeOK, Call
      <4> QED
        BY <1>0, <2>3, <4>1, GraceTypes
    <3>2. row[issued'] = "absent"
      BY <3>1, NotNext
    <3> QED
      BY <1>0, <2>1, <3>1, <3>2 DEF SignedInv
  <2> QED
    BY <1>4, <2>2, <2>3, OkSaves
<1>5. ASSUME NEW k \in Calls, RefreshRefused(k) \/ RefreshFails(k) PROVE SignedInv'
  BY <1>0, <1>5, NoSaves, NoRises DEF SignedInv
<1>6. ASSUME NEW i \in Issues, GraceEnds(i) PROVE SignedInv'
  BY <1>0, <1>6 DEF GraceEnds, TypeOK, SignedInv, past
<1>8. ASSUME NEW i \in Issues, Revoke(i) PROVE SignedInv'
  <2>1. replaces[i] \in Issues /\ row[replaces[i]] # "absent"
    BY <1>8 DEF Revoke, IInv, ReplacesInv
  <2>2. /\ row' = [row EXCEPT ![replaces[i]] = IF @ = "past" THEN "past" ELSE "recent"]
        /\ UNCHANGED <<user, signedOut>>
    BY <1>8 DEF Revoke, past
  <2> QED
    BY <1>0, <2>1, <2>2 DEF TypeOK, SignedInv
<1>9. ASSUME NEW i \in Issues, Insert(i) PROVE SignedInv'
  BY <1>0, <1>9 DEF Insert, TypeOK, SignedInv, past
<1>7. CASE UNCHANGED <<row, user, signedOut>>
  BY <1>0, <1>7 DEF SignedInv
<1> QED
  BY <1>1, <1>2, <1>3, <1>4, <1>5, <1>6, <1>7, <1>8, <1>9
     DEF Next, CallStep, BeginCalls, LogoutIgnored, Respond, ResponseLost, Finish, FetchOk,
         FetchDenied, RefreshThrows, AccessExpires, vars, api, table, past

\* Every step leaves to the rotations that are to revoke a token one that is in the
\* table, and a user's own.
LEMMA ReplacesStep == ASSUME IInv, [Next]_vars PROVE ReplacesInv'
<1> USE BffAssumption
<1>0. TypeOK /\ ReplacesInv /\ \A i \in Issues : i # 0
  BY DEF IInv, Issues
<1>1. ASSUME \A i \in Issues : replaces'[i] \in {0, replaces[i]},
             \A i \in Issues : row[i] # "absent" => row'[i] # "absent" /\ user'[i] = user[i],
             \A i \in Issues : row[i] \in {"active", "recent", "past"} =>
                 row'[i] \in {"active", "recent", "past"}
      PROVE  ReplacesInv'
  <2> SUFFICES ASSUME NEW i \in Issues, replaces'[i] # 0
               PROVE  /\ replaces'[i] \in Issues
                      /\ row'[replaces'[i]] \in {"active", "recent", "past"}
                      /\ row'[i] # "absent" /\ user'[replaces'[i]] = user'[i]
    BY DEF ReplacesInv
  <2>1. /\ replaces'[i] = replaces[i] /\ replaces[i] \in Issues
        /\ row[replaces[i]] \in {"active", "recent", "past"} /\ row[i] # "absent"
        /\ user[replaces[i]] = user[i]
    BY <1>0, <1>1 DEF ReplacesInv
  <2> QED
    BY <1>1, <2>1
<1>2. ASSUME NEW r \in Requests, NEW b \in Browsers, Login(r, b) PROVE ReplacesInv'
  <2>1. /\ issued + 1 \in Issues /\ row[issued + 1] = "absent"
        /\ row' = [row EXCEPT ![issued + 1] = "active"]
        /\ user' = [user EXCEPT ![issued + 1] = b]
        /\ UNCHANGED replaces
    <3>1. issued + 1 \in Issues
      BY <1>0, <1>2 DEF Login, TypeOK, Issues, Token
    <3> QED
      BY <1>2, <3>1, NotNext DEF Login
  <2> QED
    BY <1>0, <1>1, <2>1 DEF TypeOK
<1>3. ASSUME NEW r \in Requests, NEW b \in Browsers, Logout(r, b) PROVE ReplacesInv'
  BY <1>0, <1>1, <1>3 DEF Logout, TypeOK
<1>4. ASSUME NEW k \in Calls, Rotate(k) PROVE ReplacesInv'
  <2>1. PICK t, n \in Issues :
            /\ row[t] = "active" /\ n = issued + 1
            /\ row' = [row EXCEPT ![n] = "pending"]
            /\ user' = [user EXCEPT ![n] = user[t]]
            /\ replaces' = [replaces EXCEPT ![n] = t]
    BY <1>0, <1>4, RotateFacts
  <2>2. row[n] = "absent" /\ t # n
    BY <2>1, NotNext
  <2>3. /\ replaces'[n] = t /\ row'[n] = "pending" /\ user'[n] = user[t]
        /\ row'[t] = "active" /\ user'[t] = user[t]
    BY <1>0, <2>1, <2>2 DEF TypeOK
  <2>4. ASSUME NEW i \in Issues, i # n, replaces'[i] # 0
        PROVE  /\ replaces'[i] \in Issues
               /\ row'[replaces'[i]] \in {"active", "recent", "past"}
               /\ row'[i] # "absent" /\ user'[replaces'[i]] = user'[i]
    <3>1. replaces'[i] = replaces[i]
      BY <1>0, <2>1, <2>4 DEF TypeOK
    <3>2. /\ replaces[i] \in Issues /\ row[replaces[i]] \in {"active", "recent", "past"}
          /\ row[i] # "absent" /\ user[replaces[i]] = user[i]
      BY <1>0, <2>4, <3>1 DEF ReplacesInv
    <3>3. replaces[i] # n
      BY <2>2, <3>2
    <3> QED
      BY <1>0, <2>1, <2>4, <3>1, <3>2, <3>3 DEF TypeOK
  <2> QED
    BY <2>3, <2>4 DEF ReplacesInv
<1>5. ASSUME NEW k \in Calls, RefreshOk(k) PROVE ReplacesInv'
  <2>1. UNCHANGED <<row, replaces>>
    BY <1>5, OkSaves
  <2>2. CASE UNCHANGED user
    BY <1>1, <2>1, <2>2
  <2>3. CASE Grace(call[k].token)
    <3>1. /\ issued' \in Issues /\ issued' = issued + 1
          /\ \A i \in Issues : i # issued' => user'[i] = user[i]
      <4>1. call[k].token \in Token
        BY <1>0 DEF TypeOK, Call
      <4> QED
        BY <1>0, <2>3, <4>1, GraceTypes
    <3> QED
      BY <1>1, <2>1, <3>1, NotNext
  <2> QED
    BY <1>5, <2>2, <2>3, OkSaves
<1>6. ASSUME NEW k \in Calls, RefreshRefused(k) \/ RefreshFails(k) PROVE ReplacesInv'
  BY <1>1, <1>6, NoSaves, NoRises
<1>7. ASSUME NEW i \in Issues, GraceEnds(i) PROVE ReplacesInv'
  BY <1>0, <1>1, <1>7 DEF GraceEnds, TypeOK
<1>8. ASSUME NEW i \in Issues, Revoke(i) PROVE ReplacesInv'
  <2>1. /\ row' = [row EXCEPT ![replaces[i]] = IF @ = "past" THEN "past" ELSE "recent"]
        /\ replaces' = [replaces EXCEPT ![i] = 0]
        /\ UNCHANGED user
    BY <1>8 DEF Revoke
  <2> QED
    BY <1>0, <1>1, <2>1 DEF TypeOK
<1>9. ASSUME NEW i \in Issues, Insert(i) PROVE ReplacesInv'
  BY <1>0, <1>1, <1>9 DEF Insert, TypeOK
<1>10. CASE UNCHANGED <<row, user, replaces>>
  BY <1>1, <1>10
<1> QED
  BY <1>2, <1>3, <1>4, <1>5, <1>6, <1>7, <1>8, <1>9, <1>10
     DEF Next, CallStep, BeginCalls, LogoutIgnored, RespondWith, Respond, ResponseLost, Finish,
         FetchOk, FetchDenied, RefreshThrows, AccessExpires, vars, api, table

-----------------------------------------------------------------------------
(* A browser that makes one request at a time                               *)

\* Tokens in the table are numbered up to issued, and so is the first token of
\* their family.
LEMMA OldTokens ==
    ASSUME IInv, FamilyInv, NEW i \in Issues, row[i] # "absent"
    PROVE  /\ i # issued + 1 /\ user[i] # NoBrowser
           /\ family[i] \in Issues /\ family[i] # issued + 1 /\ user[family[i]] = user[i]
<1>1. issued \in Nat /\ \A j \in Issues : j \in Nat
  BY BffAssumption DEF IInv, TypeOK, Token, Issues
<1>2. user[i] # NoBrowser
  BY DEF IInv, SignedInv
<1>3. family[i] \in Issues /\ user[family[i]] = user[i]
  BY DEF FamilyInv
<1>4. i <= issued /\ family[i] <= issued
  BY <1>2, <1>3 DEF IInv, IssuedInv
<1> QED
  BY <1>1, <1>2, <1>3, <1>4

\* Every step keeps a family with one user.
LEMMA FamilyStep == ASSUME IInv, FamilyInv, [Next]_vars PROVE FamilyInv'
<1> USE BffAssumption
<1>0. TypeOK
  BY DEF IInv
<1>1. ASSUME NEW r \in Requests, NEW b \in Browsers, Login(r, b) PROVE FamilyInv'
  <2>1. /\ issued + 1 \in Issues
        /\ row' = [row EXCEPT ![issued + 1] = "active"]
        /\ family' = [family EXCEPT ![issued + 1] = issued + 1]
        /\ user' = [user EXCEPT ![issued + 1] = b]
    BY <1>0, <1>1 DEF Login, TypeOK, Issues, Token
  <2> QED
    BY <1>0, <2>1, OldTokens DEF TypeOK, FamilyInv
<1>2. ASSUME UNCHANGED <<family, user>>,
             \A i \in Issues : row'[i] # "absent" => row[i] # "absent"
      PROVE  FamilyInv'
  BY <1>2 DEF FamilyInv
<1>3. ASSUME NEW r \in Requests, NEW b \in Browsers, Logout(r, b) PROVE FamilyInv'
  BY <1>0, <1>2, <1>3 DEF Logout, TypeOK
<1>4. ASSUME NEW k \in Calls, Rotate(k) PROVE FamilyInv'
  <2>1. PICK t, n \in Issues :
            /\ row[t] = "active" /\ n = issued + 1
            /\ row' = [row EXCEPT ![n] = "pending"]
            /\ family' = [family EXCEPT ![n] = family[t]]
            /\ user' = [user EXCEPT ![n] = user[t]]
    BY <1>0, <1>4, RotateFacts
  <2>2. /\ t # n
        /\ family[t] \in Issues /\ family[t] # n /\ user[family[t]] = user[t]
    BY <2>1, OldTokens
  <2>3. family'[n] \in Issues /\ user'[family'[n]] = user'[n]
    BY <1>0, <2>1, <2>2 DEF TypeOK
  <2>4. ASSUME NEW i \in Issues, i # n, row'[i] # "absent"
        PROVE  family'[i] \in Issues /\ user'[family'[i]] = user'[i]
    <3>1. row[i] # "absent" /\ family'[i] = family[i] /\ user'[i] = user[i]
      BY <1>0, <2>1, <2>4 DEF TypeOK
    <3>2. family[i] \in Issues /\ family[i] # n /\ user[family[i]] = user[i]
      BY <2>1, <3>1, OldTokens
    <3> QED
      BY <1>0, <2>1, <3>1, <3>2 DEF TypeOK
  <2> QED
    BY <2>3, <2>4 DEF FamilyInv
<1>5. ASSUME NEW k \in Calls, RefreshOk(k) PROVE FamilyInv'
  <2>1. UNCHANGED <<row, family>>
    BY <1>5, OkSaves
  <2>2. CASE UNCHANGED user
    BY <2>1, <2>2 DEF FamilyInv
  <2>3. CASE Grace(call[k].token)
    <3>1. issued' = issued + 1 /\ \A i \in Issues : i # issued' => user'[i] = user[i]
      <4>1. call[k].token \in Token
        BY <1>0 DEF TypeOK, Call
      <4> QED
        BY <1>0, <2>3, <4>1, GraceTypes
    <3> QED
      BY <2>1, <3>1, OldTokens DEF FamilyInv
  <2> QED
    BY <1>5, <2>2, <2>3, OkSaves
<1>6. ASSUME NEW k \in Calls, RefreshRefused(k) \/ RefreshFails(k) PROVE FamilyInv'
  BY <1>2, <1>6, NoSaves, NoRises
<1>7. ASSUME NEW i \in Issues, GraceEnds(i) PROVE FamilyInv'
  BY <1>0, <1>2, <1>7 DEF GraceEnds, TypeOK
<1>9. ASSUME NEW i \in Issues, Revoke(i) PROVE FamilyInv'
  <2>1. replaces[i] \in Issues /\ row[replaces[i]] # "absent"
    BY <1>9 DEF Revoke, IInv, ReplacesInv
  <2>2. /\ row' = [row EXCEPT ![replaces[i]] = IF @ = "past" THEN "past" ELSE "recent"]
        /\ UNCHANGED <<family, user>>
    BY <1>9 DEF Revoke
  <2> QED
    BY <1>0, <1>2, <2>1, <2>2 DEF TypeOK
<1>10. ASSUME NEW i \in Issues, Insert(i) PROVE FamilyInv'
  BY <1>0, <1>2, <1>10 DEF Insert, TypeOK
<1>8. CASE UNCHANGED <<row, family, user>>
  BY <1>2, <1>8
<1> QED
  BY <1>1, <1>3, <1>4, <1>5, <1>6, <1>7, <1>8, <1>9, <1>10
     DEF Next, CallStep, BeginCalls, LogoutIgnored, RespondWith, Respond, ResponseLost, Finish,
         FetchOk, FetchDenied, RefreshThrows, AccessExpires, vars, api, table, past

\* The tokens of b that are there to stay, or on their way there, still are by the
\* rows rw and the revocations rv.
Spared(b, rw, rv) == \A i \in Issues : user[i] = b =>
    /\ Firm(i, row, replaces) => Firm(i, rw, rv)
    /\ Making(i, row, replaces) => Making(i, rw, rv)

\* What a session of b could do it still can.
LEMMA SparedGoesOn ==
    ASSUME IInv, NEW b \in Browsers, Spared(b, row', replaces')
    PROVE  /\ GoesOn(cookie[b], row, replaces) => GoesOn(cookie[b], row', replaces')
           /\ \A r \in Requests :
                  request[r].browser = b /\ GoesOn(request[r].jar, row, replaces) =>
                      GoesOn(request[r].jar, row', replaces')
<1>1. \A s \in Session : s # NoSession => s.refresh \in Issues
  BY DEF Session
<1>2. cookie[b] \in Session /\ Own(user, b, cookie[b])
  BY CookieFields DEF IInv, OwnInv
<1>3. \A r \in Requests : request[r].browser = b =>
          request[r].jar \in Session /\ Own(user, b, request[r].jar)
  BY RequestFields, BffAssumption DEF IInv, OwnInv, OwnJar
<1> QED
  BY <1>1, <1>2, <1>3 DEF Spared, Own, GoesOn

\* The rotations for b go on as they did.
SameRotations(b) == \A k \in Calls : BrowserOf(k) = b =>
    /\ call[k].pc = "rotating" <=> call'[k].pc = "rotating"
    /\ call[k].pc = "rotating" => call'[k].token = call[k].token

\* A step of others leaves b as it is.
LEMMA CalmFrame ==
    ASSUME IInv, NEW b \in Browsers, Calm(b, cookie[b], request, call, row, replaces),
           Spared(b, row', replaces'), cookie'[b] = cookie[b], SameRotations(b),
           \A r \in Requests :
               \/ request'[r] = request[r]
               \/ request'[r].browser # b /\ request[r].browser # b
    PROVE  Calm(b, cookie'[b], request', call', row', replaces')
<1>1. \A r \in Requests : request'[r].browser = b <=> request[r].browser = b
  OBVIOUS
<1>2. \A r \in Requests : request'[r].browser = b => request'[r] = request[r]
  OBVIOUS
<1>3. (\A r \in Requests : request'[r].browser # b) => GoesOn(cookie'[b], row', replaces')
  BY <1>1, SparedGoesOn DEF Calm
<1>4. ASSUME NEW r \in Requests, request[r].browser = b, NEW k \in Calls, RequestOf[k] = r
      PROVE  /\ call[k].pc = "rotating" <=> call'[k].pc = "rotating"
             /\ call[k].pc = "rotating" =>
                    Making(call'[k].token, row', replaces')
  <2>1. BrowserOf(k) = b
    BY <1>4 DEF BrowserOf
  <2>2. ASSUME call[k].pc = "rotating" PROVE Making(call'[k].token, row', replaces')
    <3>1. call[k].token \in Issues /\ user[call[k].token] = b
      BY <2>1, <2>2 DEF IInv, SentInv, RotatingOk
    <3>2. Making(call[k].token, row, replaces)
      BY <1>4, <2>2 DEF Calm
    <3>3. call'[k].token = call[k].token
      BY <2>1, <2>2 DEF SameRotations
    <3> QED
      BY <3>1, <3>2, <3>3 DEF Spared
  <2> QED
    BY <2>1, <2>2 DEF SameRotations
<1>5. ASSUME NEW r \in Requests, request'[r].browser = b
      PROVE  /\ ~request'[r].dirty => request'[r].jar = cookie'[b]
             /\ \/ GoesOn(request'[r].jar, row', replaces')
                \/ \E k \in Calls : RequestOf[k] = r /\ call'[k].pc = "rotating"
             /\ \A k \in Calls : RequestOf[k] = r /\ call'[k].pc = "rotating" =>
                   Making(call'[k].token, row', replaces')
  <2>1. request'[r] = request[r] /\ request[r].browser = b
    BY <1>1, <1>2, <1>5
  <2>2. /\ ~request[r].dirty => request[r].jar = cookie[b]
        /\ \/ GoesOn(request[r].jar, row, replaces)
           \/ \E k \in Calls : RequestOf[k] = r /\ call[k].pc = "rotating"
    BY <2>1 DEF Calm
  <2>3. GoesOn(request[r].jar, row, replaces) => GoesOn(request[r].jar, row', replaces')
    BY <2>1, SparedGoesOn
  <2> QED
    BY <1>4, <2>1, <2>2, <2>3
<1> QED
  BY <1>1, <1>3, <1>5 DEF Calm

\* A step that starts request r of b: b has no other one, or is disturbed.
LEMMA CalmStart ==
    ASSUME IInv, CalmInv, NEW r \in Requests, NEW b \in Browsers, NEW jar, NEW pc, NEW d,
           request[r].pc = "idle",
           request' = [request EXCEPT ![r] =
               [pc |-> pc, browser |-> b, jar |-> jar, dirty |-> d]],
           disturbed' = Overlapped(b), UNCHANGED cookie,
           b \notin disturbed' => GoesOn(jar, row', replaces'),
           d \/ jar = cookie[b],
           \A k \in Calls : IF RequestOf[k] = r THEN call'[k].pc # "rotating"
                            ELSE call'[k] = call[k],
           \A c \in Browsers : c # b => Spared(c, row', replaces')
    PROVE  CalmInv'
<1>1. /\ request'[r].browser = b /\ request'[r].jar = jar /\ request'[r].dirty = d
      /\ \A q \in Requests : q # r => request'[q] = request[q]
      /\ request[r].browser \notin Browsers
      /\ \A k \in Calls : RequestOf[k] = r => call[k].pc = "idle"
  BY DEF IInv, TypeOK, WorkInv
<1>2. \A c \in Browsers : SameRotations(c)
  BY <1>1 DEF SameRotations
<1>3. ASSUME NEW c \in Browsers, c \notin disturbed'
      PROVE  Calm(c, cookie'[c], request', call', row', replaces')
  <2>1. c \notin disturbed
    BY <1>3 DEF Overlapped
  <2>2. Calm(c, cookie[c], request, call, row, replaces)
    BY <2>1 DEF CalmInv
  <2>3. CASE c # b
    BY <1>1, <1>2, <2>2, <2>3, CalmFrame
  <2>4. CASE c = b
    <3>1. \A q \in Requests : request[q].browser # b
      BY <1>3, <2>1, <2>4 DEF Overlapped, AtRest
    <3>2. \A q \in Requests : request'[q].browser = b => q = r
      BY <1>1, <3>1
    <3>4. GoesOn(request'[r].jar, row', replaces')
      BY <1>1, <1>3, <2>4
    <3> QED
      BY <1>1, <2>4, <3>2, <3>4 DEF Calm
  <2> QED
    BY <2>3, <2>4
<1> QED
  BY <1>3 DEF CalmInv

\* A refresh that ends with a copy that can go on, or for a browser that is disturbed.
LEMMA CalmSave ==
    ASSUME IInv, CalmInv, NEW k \in Calls, call[k].pc \in Refreshing, Settle(k),
           NEW s \in Session, SaveSession(k, s), UNCHANGED <<cookie, disturbed>>,
           BrowserOf(k) \notin disturbed => GoesOn(s, row', replaces'),
           \A c \in Browsers : c # BrowserOf(k) => Spared(c, row', replaces')
    PROVE  CalmInv'
<1> USE BffAssumption
<1>1. /\ RequestOf[k] \in Requests /\ BrowserOf(k) \in Browsers
      /\ request[RequestOf[k]].browser = BrowserOf(k)
  BY RefreshFor DEF BrowserOf
<1>2. /\ request'[RequestOf[k]].browser = BrowserOf(k) /\ request'[RequestOf[k]].jar = s
      /\ request'[RequestOf[k]].dirty = TRUE
      /\ \A q \in Requests : q # RequestOf[k] => request'[q] = request[q]
  BY SaveEffect
<1>3. /\ \A j \in Calls : call'[j].pc # "rotating"
      /\ \A j \in Calls : j # k => call[j].pc # "rotating"
  BY SettleSent DEF Refreshing, IInv, OneRefreshAtATime
<1>4. ASSUME NEW c \in Browsers, c \notin disturbed'
      PROVE  Calm(c, cookie'[c], request', call', row', replaces')
  <2>1. c \notin disturbed /\ Calm(c, cookie[c], request, call, row, replaces)
    BY <1>4 DEF CalmInv
  <2>2. CASE c # BrowserOf(k)
    <3>1. SameRotations(c)
      BY <1>3, <2>2 DEF SameRotations
    <3> QED
      BY <1>1, <1>2, <2>1, <2>2, <3>1, CalmFrame
  <2>3. CASE c = BrowserOf(k)
    <3>1. \A q \in Requests : request[q].browser = c => q = RequestOf[k]
      BY <1>1, <2>1, <2>3 DEF Calm
    <3>2. \A q \in Requests : request'[q].browser = c => q = RequestOf[k]
      BY <1>2, <3>1
    <3>4. GoesOn(request'[RequestOf[k]].jar, row', replaces')
      BY <1>2, <2>1, <2>3
    <3> QED
      BY <1>2, <1>3, <2>3, <3>2, <3>4 DEF Calm
  <2> QED
    BY <2>2, <2>3
<1> QED
  BY <1>4 DEF CalmInv

\* As long as its browser is calm, a refresh presents a token that is there to
\* stay, or none.
LEMMA Presents ==
    ASSUME IInv, CalmInv, NEW k \in Calls, call[k].pc = "sent", BrowserOf(k) \notin disturbed
    PROVE  RowOf(call[k].token) \in {"active", "absent"}
<1> USE BffAssumption
<1>1. /\ RequestOf[k] \in Requests /\ BrowserOf(k) \in Browsers
      /\ request[RequestOf[k]].browser = BrowserOf(k)
      /\ request[RequestOf[k]].jar = Jar(k)
      /\ Jar(k) \in Session /\ Jar(k).refresh \in Token
  BY RefreshFor DEF BrowserOf, Jar, Refreshing
<1>2. call[k].token = Jar(k).refresh
  BY DEF IInv, SentInv
<1>3. \A j \in Calls : call[j].pc # "rotating"
  BY DEF IInv, OneRefreshAtATime, Refreshing
<1>4. GoesOn(Jar(k), row, replaces)
  BY <1>1, <1>3 DEF CalmInv, Calm
<1>5. CASE Jar(k) = NoSession
  BY <1>2, <1>5 DEF NoSession, RowOf
<1>6. CASE Jar(k) # NoSession
  BY <1>1, <1>2, <1>4, <1>6 DEF GoesOn, Firm, RowOf, Session, Issues
<1> QED
  BY <1>5, <1>6

\* A refusal, or a write that fails, spares the tokens of other users.
LEMMA NoSpares ==
    ASSUME IInv, FamilyInv, NEW k \in Calls, RefreshRefused(k) \/ RefreshFails(k),
           NEW c \in Browsers, c # BrowserOf(k)
    PROVE  Spared(c, row', replaces')
<1> USE BffAssumption
<1>0. TypeOK
  BY DEF IInv
<1>1. /\ call[k].pc \in Refreshing /\ call[k].token \in Token
      /\ call[k].token \in Issues => user[call[k].token] = BrowserOf(k)
  BY NoSaves, RefreshFor
<1>2. ASSUME \A i \in Issues : row'[i] = row[i] \/ user[i] = BrowserOf(k),
             \A i \in Issues : replaces'[i] \in {0, replaces[i]}
      PROVE  Spared(c, row', replaces')
  BY <1>2 DEF Spared, Firm, Making, Issues
<1>3. CASE RefreshRefused(k) /\ RowOf(call[k].token) = "past"
           /\ row' = [i \in Issues |-> IF i \in Active(family[call[k].token])
                                       THEN "recent" ELSE row[i]]
  <2>1. call[k].token \in Issues /\ row[call[k].token] # "absent"
    BY <1>1, <1>3 DEF RowOf, Token, Issues
  <2>2. \A i \in Active(family[call[k].token]) : user[i] = BrowserOf(k)
    BY <1>1, <2>1 DEF Active, FamilyInv
  <2> QED
    BY <1>2, <1>3, <2>2, NoRises
<1>4. CASE UNCHANGED row
  BY <1>2, <1>4, NoRises
<1>5. CASE RefreshFails(k) /\ call[k].pc = "rotating" /\ WriteFails(call[k].token)
  <2>1. user[call[k].token] = BrowserOf(k)
    BY <1>1, <1>5 DEF IInv, SentInv, RotatingOk
  <2>2. \A i \in Issues : row'[i] = row[i] \/ user[i] = BrowserOf(k)
    BY <1>0, <1>5, <2>1 DEF WriteFails, TypeOK
  <2> QED
    BY <1>2, <2>2, NoRises
<1> QED
  BY <1>3, <1>4, <1>5 DEF RefreshRefused, RefreshFails, Refuse, table

\* The rotation of k's token spares the tokens of other users, and makes one that no
\* other rotation is to revoke.
LEMMA CalmRotate == ASSUME HInv, NEW k \in Calls, Rotate(k) PROVE CalmInv'
<1> USE BffAssumption
<1>0. TypeOK /\ IInv /\ CalmInv
  BY DEF HInv, IInv
<1>1. PICK t, n \in Issues :
          /\ call[k].pc = "sent" /\ t = call[k].token /\ row[t] = "active"
          /\ n = issued + 1
          /\ row' = [row EXCEPT ![n] = "pending"]
          /\ replaces' = [replaces EXCEPT ![n] = t]
          /\ call' = [call EXCEPT ![k] = [pc |-> "rotating", token |-> n]]
          /\ UNCHANGED <<cookie, request, disturbed>>
  BY <1>0, RotateFacts
<1>2. /\ call[k].pc \in Refreshing /\ user[t] = BrowserOf(k) /\ BrowserOf(k) \in Browsers
      /\ RequestOf[k] \in Requests
  BY <1>0, <1>1, RefreshFor DEF Refreshing
<1>3. row[n] = "absent" /\ t # n
  BY <1>0, <1>1, NotNext
<1>4. /\ row'[n] = "pending" /\ \A i \in Issues : i # n => row'[i] = row[i]
      /\ replaces'[n] = t /\ \A i \in Issues : i # n => replaces'[i] = replaces[i]
      /\ call'[k].pc = "rotating" /\ call'[k].token = n
      /\ \A j \in Calls : j # k => call'[j] = call[j] /\ call[j].pc # "rotating"
  BY <1>0, <1>1, <1>2 DEF TypeOK, IInv, OneRefreshAtATime, Refreshing
<1>5. Making(n, row', replaces')
  <2>1. \A j \in Issues : replaces[j] # n
    BY <1>0, <1>3 DEF IInv, ReplacesInv, Issues
  <2> QED
    BY <1>3, <1>4, <2>1 DEF Making
<1>6. ASSUME NEW c \in Browsers, c \notin disturbed'
      PROVE  Calm(c, cookie'[c], request', call', row', replaces')
  <2>1. Calm(c, cookie[c], request, call, row, replaces)
    BY <1>0, <1>1, <1>6 DEF CalmInv
  <2>2. CASE c # BrowserOf(k)
    <3>1. Spared(c, row', replaces')
      BY <1>2, <1>3, <1>4, <2>2 DEF Spared, Firm, Making
    <3>2. SameRotations(c)
      BY <1>4, <2>2 DEF SameRotations
    <3> QED
      BY <1>0, <1>1, <2>1, <3>1, <3>2, CalmFrame
  <2>3. CASE c = BrowserOf(k)
    <3>1. request[RequestOf[k]].browser = c
      BY <2>3 DEF BrowserOf
    <3>2. \A r \in Requests : request[r].browser = c => r = RequestOf[k]
      BY <1>2, <2>1, <3>1 DEF Calm
    <3> QED
      BY <1>1, <1>2, <1>4, <1>5, <2>1, <3>1, <3>2 DEF Calm
  <2> QED
    BY <2>2, <2>3
<1> QED
  BY <1>6 DEF CalmInv

\* Every step leaves the browsers that are not disturbed calm.
LEMMA CalmStep == ASSUME HInv, [Next]_vars PROVE CalmInv'
<1> USE BffAssumption
<1>0. TypeOK /\ IInv /\ FamilyInv /\ CalmInv /\ ReplacesInv
  BY DEF HInv, IInv
<1>s. ASSUME UNCHANGED <<row, replaces>> PROVE \A c \in Browsers : Spared(c, row', replaces')
  BY <1>s DEF Spared
<1>1. ASSUME NEW r \in Requests, NEW b \in Browsers, BeginCalls(r, b) PROVE CalmInv'
  <2>1. /\ request[r].pc = "idle" /\ disturbed' = Overlapped(b)
        /\ UNCHANGED <<cookie, row, replaces>>
        /\ request' = [request EXCEPT ![r] =
               [pc |-> "calls", browser |-> b, jar |-> cookie[b], dirty |-> FALSE]]
        /\ \A k \in Calls : IF RequestOf[k] = r THEN call'[k].pc # "rotating"
                            ELSE call'[k] = call[k]
    BY <1>1 DEF BeginCalls, api, table
  <2>2. b \notin disturbed' => GoesOn(cookie[b], row', replaces')
    BY <1>0, <2>1 DEF Overlapped, AtRest, CalmInv, Calm
  <2> QED
    BY <1>0, <1>s, <2>1, <2>2, CalmStart
<1>r. ASSUME NEW r \in Requests, NEW b \in Browsers, NEW s, RespondWith(r, b, s),
             b \notin disturbed' => GoesOn(s, row', replaces'),
             \A c \in Browsers : c # b => Spared(c, row', replaces')
      PROVE  CalmInv'
  <2>1. /\ request[r].pc = "idle" /\ disturbed' = Overlapped(b) /\ UNCHANGED <<cookie, call>>
        /\ request' = [request EXCEPT ![r] =
               [pc |-> "respond", browser |-> b, jar |-> s, dirty |-> TRUE]]
    BY <1>r DEF RespondWith
  <2>2. \A k \in Calls : RequestOf[k] = r => call[k].pc # "rotating"
    BY <1>0, <2>1 DEF IInv, WorkInv
  <2> QED
    BY <1>0, <1>r, <2>1, <2>2, CalmStart
<1>2. ASSUME NEW r \in Requests, NEW b \in Browsers, Login(r, b) PROVE CalmInv'
  <2> DEFINE n == issued + 1
             s == [access |-> n, refresh |-> n]
  <2>1. /\ RespondWith(r, b, s)
        /\ row' = [row EXCEPT ![n] = "active"]
        /\ n \in Issues /\ UNCHANGED replaces
    BY <1>0, <1>2 DEF Login, TypeOK, Issues, Token
  <2>2. row[n] = "absent" /\ \A j \in Issues : replaces[j] # n
    <3>1. row[n] = "absent"
      BY <1>0, <2>1, NotNext
    <3> QED
      BY <1>0, <2>1, <3>1 DEF ReplacesInv, Issues
  <2>3. GoesOn(s, row', replaces')
    BY <1>0, <2>1, <2>2 DEF GoesOn, Firm, TypeOK
  <2>4. \A c \in Browsers : Spared(c, row', replaces')
    BY <1>0, <2>1, <2>2 DEF TypeOK, Spared, Firm, Making
  <2> HIDE DEF s
  <2> QED
    BY <1>r, <2>1, <2>3, <2>4
<1>3. ASSUME NEW r \in Requests, NEW b \in Browsers, Logout(r, b) \/ LogoutIgnored(r, b)
      PROVE  CalmInv'
  <2>1. RespondWith(r, b, NoSession) /\ GoesOn(NoSession, row', replaces')
    BY <1>3 DEF Logout, LogoutIgnored, GoesOn
  <2>2. \A c \in Browsers : c # b => Spared(c, row', replaces')
    BY <1>0, <1>3 DEF Logout, LogoutIgnored, TypeOK, table, Spared, Firm, Making
  <2> QED
    BY <1>r, <2>1, <2>2
<1>4. ASSUME NEW r \in Requests, Respond(r) \/ ResponseLost(r) PROVE CalmInv'
  <2>1. /\ request'[r].browser = NoBrowser
        /\ \A q \in Requests : q # r => request'[q] = request[q]
        /\ UNCHANGED <<row, replaces>>
        /\ request[r].browser \in Browsers
        /\ \A k \in Calls : RequestOf[k] = r => call[k].pc # "rotating"
        /\ \A k \in Calls : IF RequestOf[k] = r THEN call'[k].pc = "idle"
                            ELSE call'[k] = call[k]
    <3>1. request[r].pc # "idle" /\ Finish(r) /\ MayRespond(r)
      BY <1>4 DEF Respond, ResponseLost, MayRespond
    <3>2. \A k \in Calls : RequestOf[k] = r => call[k].pc \in {"idle", "done"}
      BY <1>0, <3>1 DEF MayRespond, IInv, WorkInv, CallsOf
    <3> QED
      BY <1>0, <3>1, <3>2 DEF Finish, TypeOK, NoRequest, IdleCall, api, table, IInv, WorkInv
  <2>2. \A c \in Browsers : Spared(c, row', replaces') /\ SameRotations(c)
    BY <1>s, <2>1 DEF SameRotations
  <2>3. ASSUME NEW c \in Browsers, c \notin disturbed'
        PROVE  Calm(c, cookie'[c], request', call', row', replaces')
    <3>1. c \notin disturbed /\ Calm(c, cookie[c], request, call, row, replaces)
      BY <1>0, <1>4, <2>3 DEF CalmInv, Respond, ResponseLost
    <3>2. CASE c # request[r].browser
      <4>1. cookie'[c] = cookie[c]
        BY <1>0, <1>4, <3>2 DEF Respond, ResponseLost, TypeOK
      <4> QED
        BY <1>0, <2>1, <2>2, <3>1, <3>2, <4>1, CalmFrame
    <3>3. CASE c = request[r].browser
      <4>1. Respond(r)
        BY <1>4, <2>3, <3>3 DEF ResponseLost
      <4>2. cookie'[c] = request[r].jar
        BY <1>0, <2>1, <3>1, <3>3, <4>1 DEF Respond, Calm
      <4>3. \A q \in Requests : request'[q].browser # c
        BY <2>1, <3>1, <3>3 DEF Calm
      <4>4. GoesOn(cookie'[c], row', replaces')
        BY <2>1, <3>1, <3>3, <4>2 DEF Calm
      <4> QED
        BY <4>3, <4>4 DEF Calm
    <3> QED
      BY <3>2, <3>3
  <2> QED
    BY <2>3 DEF CalmInv
<1>5. ASSUME UNCHANGED <<cookie, request>>, disturbed \subseteq disturbed',
             \A c \in Browsers \ disturbed' :
                 Spared(c, row', replaces') /\ SameRotations(c)
      PROVE  CalmInv'
  BY <1>0, <1>5, CalmFrame DEF CalmInv
<1>6. ASSUME NEW k \in Calls, RefreshOk(k) PROVE CalmInv'
  <2> DEFINE t == call[k].token
  <2>1. /\ call[k].pc \in Refreshing /\ Settle(k) /\ UNCHANGED <<cookie, disturbed>>
        /\ UNCHANGED <<row, replaces>> /\ t \in Issues
    BY <1>0, <1>6, OkSaves DEF Refreshing
  <2>2. CASE /\ call[k].pc = "rotating" /\ Rotated(t)
             /\ SaveSession(k, [access |-> t, refresh |-> t])
             /\ [access |-> t, refresh |-> t] \in Session
    <3>1. ASSUME BrowserOf(k) \notin disturbed
          PROVE  GoesOn([access |-> t, refresh |-> t], row', replaces')
      <4>1. /\ BrowserOf(k) \in Browsers /\ RequestOf[k] \in Requests
            /\ request[RequestOf[k]].browser = BrowserOf(k)
        BY <1>0, <2>1, RefreshFor DEF BrowserOf
      <4>2. Making(t, row, replaces)
        BY <1>0, <2>2, <3>1, <4>1 DEF CalmInv, Calm
      <4> QED
        BY <2>1, <2>2, <4>2 DEF Making, Rotated, GoesOn, Firm
    <3> QED
      BY <1>0, <1>s, <2>1, <2>2, <3>1, CalmSave
  <2>3. CASE /\ call[k].pc = "sent" /\ Grace(t) /\ SaveSession(k, [access |-> issued', refresh |-> t])
             /\ [access |-> issued', refresh |-> t] \in Session
    <3>1. BrowserOf(k) \in disturbed
      BY <1>0, <2>3, Presents DEF Grace
    <3> QED
      BY <1>0, <1>s, <2>1, <2>3, <3>1, CalmSave
  <2> QED
    BY <1>0, <1>6, <2>2, <2>3, OkSaves
<1>7. ASSUME NEW k \in Calls, RefreshRefused(k) \/ RefreshFails(k) PROVE CalmInv'
  <2>1. /\ call[k].pc \in Refreshing /\ Settle(k) /\ SaveSession(k, NoSession)
        /\ UNCHANGED <<cookie, disturbed>> /\ GoesOn(NoSession, row', replaces')
    BY <1>0, <1>7, NoSaves DEF GoesOn
  <2>2. \A c \in Browsers : c # BrowserOf(k) => Spared(c, row', replaces')
    BY <1>0, <1>7, NoSpares
  <2> QED
    BY <1>0, <2>1, <2>2, RecordTypes, CalmSave
<1>8. ASSUME NEW k \in Calls, RefreshThrows(k) PROVE CalmInv'
  <2>1. /\ call[k].pc \in Refreshing /\ Settle(k) /\ disturbed' = Missed(k)
        /\ UNCHANGED <<cookie, request, row, replaces>>
    BY <1>8 DEF RefreshThrows, api, table
  <2>2. /\ \A j \in Calls : call'[j].pc # "rotating"
        /\ \A j \in Calls : call[j].pc = "rotating" => j = k /\ BrowserOf(k) \in disturbed'
    BY <1>0, <2>1, SettleSent DEF Refreshing, Missed, IInv, OneRefreshAtATime
  <2>3. \A c \in Browsers \ disturbed' : SameRotations(c)
    BY <2>2 DEF SameRotations
  <2> QED
    BY <1>5, <1>s, <2>1, <2>3 DEF Missed
<1>9. ASSUME NEW i \in Issues, GraceEnds(i) PROVE CalmInv'
  <2>1. /\ UNCHANGED <<cookie, request, call, disturbed>>
        /\ \A c \in Browsers : Spared(c, row', replaces') /\ SameRotations(c)
    BY <1>0, <1>9 DEF GraceEnds, past, TypeOK, Spared, Firm, Making, SameRotations
  <2> QED
    BY <1>5, <2>1
<1>11. ASSUME NEW i \in Issues, Revoke(i) PROVE CalmInv'
  <2>1. /\ UNCHANGED <<cookie, request, call, disturbed>>
        /\ replaces[i] \in Issues
        /\ \A j \in Issues : j # replaces[i] => row'[j] = row[j]
        /\ \A j \in Issues : replaces'[j] \in {0, replaces[j]}
    BY <1>0, <1>11 DEF Revoke, past, TypeOK, ReplacesInv
  <2>2. \A c \in Browsers : Spared(c, row', replaces') /\ SameRotations(c)
    BY <2>1 DEF Spared, Firm, Making, SameRotations, Issues
  <2> QED
    BY <1>5, <2>1, <2>2
<1>12. ASSUME NEW i \in Issues, Insert(i) PROVE CalmInv'
  <2>1. /\ UNCHANGED <<cookie, request, call, disturbed>>
        /\ \A c \in Browsers : Spared(c, row', replaces') /\ SameRotations(c)
    BY <1>0, <1>12 DEF Insert, past, TypeOK, Spared, Firm, Making, SameRotations
  <2> QED
    BY <1>5, <2>1
<1>13. ASSUME NEW k \in Calls, FetchOk(k) \/ FetchDenied(k) PROVE CalmInv'
  <2>1. /\ UNCHANGED <<cookie, request, row, replaces, disturbed>>
        /\ \A j \in Calls : j # k => call'[j] = call[j]
        /\ call[k].pc # "rotating" /\ call'[k].pc # "rotating"
    BY <1>0, <1>13 DEF FetchOk, FetchDenied, api, table, past, TypeOK, CallAt
  <2> QED
    BY <1>5, <1>s, <2>1 DEF SameRotations
<1>10. CASE UNCHANGED <<cookie, request, call, disturbed, row, replaces>>
  BY <1>5, <1>s, <1>10 DEF SameRotations
<1> QED
  BY <1>1, <1>2, <1>3, <1>4, <1>6, <1>7, <1>8, <1>9, <1>10, <1>11, <1>12, <1>13, CalmRotate
     DEF Next, CallStep, AccessExpires, vars, api, table, past

-----------------------------------------------------------------------------
(* The refinement: a family of tokens is a session of SessionLifecycle       *)

\* A family has a row for the token it is named by, which is its first; a token
\* without a row has no family.
ChainInv == \A i \in Issues :
    IF row[i] = "absent" THEN family[i] = 0
    ELSE row[family[i]] # "absent" /\ family[family[i]] = family[i]

JInv == IInv /\ FamilyInv /\ ChainInv

\* A token is in the hands of a browser.
Has(b, i) ==
    \/ cookie[b].refresh = i
    \/ \E r \in Requests : request[r].browser = b /\ request[r].jar.refresh = i

\* A token in the hands of a browser is its own.
LEMMA OwnTokens ==
    ASSUME IInv, NEW b \in Browsers, NEW i \in Issues, Has(b, i)
    PROVE  user[i] = b
BY BffAssumption DEF IInv, OwnInv, OwnJar, Own, Has

\* Who has a token of a family holds it, and the other way round, before a step
\* and after it.
LEMMA HasHolds ==
    ASSUME NEW b, NEW f
    PROVE  /\ Holds(b, f) <=> \E i : i # 0 /\ Has(b, i) /\ family[i] = f
           /\ Holds(b, f)' <=> \E i : i # 0 /\ Has(b, i)' /\ family'[i] = f
<1>1. ASSUME NEW i, i # 0, Has(b, i), family[i] = f PROVE Holds(b, f)
  BY <1>1 DEF Has, Holds, InFamily
<1>2. Holds(b, f) => \E i : i # 0 /\ Has(b, i) /\ family[i] = f
  BY DEF Has, Holds, InFamily
<1>3. ASSUME NEW i, i # 0, Has(b, i)', family'[i] = f PROVE Holds(b, f)'
  BY <1>3 DEF Has, Holds, InFamily
<1>4. Holds(b, f)' => \E i : i # 0 /\ Has(b, i)' /\ family'[i] = f
  BY DEF Has, Holds, InFamily
<1> QED
  BY <1>1, <1>2, <1>3, <1>4

\* The next number is nobody's.
LEMMA NextToken ==
    ASSUME JInv, issued + 1 \in Issues
    PROVE  /\ row[issued + 1] = "absent" /\ family[issued + 1] = 0
           /\ \A i \in Issues : family[i] # issued + 1
           /\ \A b \in Browsers : ~Has(b, issued + 1)
<1>1. issued \in Nat /\ user[issued + 1] = NoBrowser
  BY BffAssumption DEF JInv, IInv, TypeOK, Token, IssuedInv
<1>2. row[issued + 1] = "absent" /\ family[issued + 1] = 0
  BY <1>1, OldTokens DEF JInv, ChainInv
<1>3. ASSUME NEW i \in Issues PROVE family[i] # issued + 1
  <2>1. CASE row[i] = "absent"
    BY <1>1, <2>1 DEF JInv, ChainInv
  <2>2. CASE row[i] # "absent"
    BY <2>2, OldTokens DEF JInv
  <2> QED
    BY <2>1, <2>2
<1>4. \A b \in Browsers : ~Has(b, issued + 1)
  BY <1>1, OwnTokens, BffAssumption DEF JInv
<1> QED
  BY <1>2, <1>3, <1>4

\* Requests and cookies carry numbers of tokens.
LEMMA HasToken ==
    ASSUME TypeOK, NEW b \in Browsers, NEW i, i # 0, Has(b, i) PROVE i \in Issues
<1>1. i \in Token
  BY RequestFields, CookieFields DEF Has
<1> QED
  BY <1>1, BffAssumption DEF Token, Issues

\* What every session has to do for the whole to take a step.
LEMMA Evolve ==
    ASSUME \A f \in Issues : \/ L!Opens(SessionOf(f), SessionOf(f)')
                             \/ L!Fades(SessionOf(f), SessionOf(f)')
    PROVE  L!Next
BY DEF L!Next

\* A session that does not come to life and that nobody gets hold of, fades.
LEMMA Fade ==
    ASSUME NEW f \in Issues, family'[f] = f <=> family[f] = f,
           family[f] = f /\ Live(f)' # {} => Live(f) # {},
           family[f] = f => \A b \in Browsers : Holds(b, f)' => Holds(b, f)
    PROVE  L!Fades(SessionOf(f), SessionOf(f)')
BY DEF L!Fades, SessionOf

\* So do they all when no row comes to life and no browser gets a token of a family
\* that it does not hold.
LEMMA FadeAll ==
    ASSUME family' = family,
           \A i \in Issues : row'[i] \in {"active", "pending"} => row[i] \in {"active", "pending"},
           \A b \in Browsers : \A i : i # 0 /\ Has(b, i)' =>
               Has(b, i) \/ \E j : j # 0 /\ Has(b, j) /\ family[j] = family[i]
    PROVE  L!Next
<1> SUFFICES ASSUME NEW f \in Issues PROVE L!Fades(SessionOf(f), SessionOf(f)')
  BY Evolve
<1>1. Live(f)' # {} => Live(f) # {}
  BY DEF Live
<1>2. ASSUME NEW b \in Browsers, Holds(b, f)' PROVE Holds(b, f)
  <2>1. PICK i : i # 0 /\ Has(b, i)' /\ family'[i] = f
    BY <1>2, HasHolds
  <2>2. PICK j : j # 0 /\ Has(b, j) /\ family[j] = f
    BY <2>1
  <2> QED
    BY <2>2, HasHolds
<1> QED
  BY <1>1, <1>2, Fade

\* A login opens a session, for the browser that logged in.
LEMMA LoginOpens ==
    ASSUME JInv, NEW r \in Requests, NEW b \in Browsers, Login(r, b) PROVE L!Next
<1>0. TypeOK
  BY DEF JInv, IInv
<1>n. PICK n \in Issues : n = issued + 1
  BY <1>0, BffAssumption DEF Login, TypeOK, Issues, Token
<1>1. /\ n \in Issues
      /\ row' = [row EXCEPT ![n] = "active"]
      /\ family' = [family EXCEPT ![n] = n]
      /\ cookie' = cookie
      /\ request' = [request EXCEPT ![r] = [pc |-> "respond", browser |-> b,
                        jar |-> [access |-> n, refresh |-> n], dirty |-> TRUE]]
      /\ request[r].pc = "idle"
  BY <1>0, <1>n DEF Login, RespondWith, TypeOK
<1>2. /\ Has(b, n)'
      /\ \A c \in Browsers : \A i : Has(c, i)' => Has(c, i) \/ (c = b /\ i = n)
      /\ \A c \in Browsers : \A i : i # 0 /\ Has(c, i)' => i \in Issues
  <2>1. /\ request'[r].browser = b /\ request'[r].jar.refresh = n
        /\ \A q \in Requests : q # r => request'[q] = request[q]
        /\ cookie' = cookie
    BY <1>0, <1>1 DEF TypeOK
  <2>2. Has(b, n)'
    BY <2>1 DEF Has
  <2>3. ASSUME NEW c \in Browsers, NEW i, Has(c, i)' PROVE Has(c, i) \/ (c = b /\ i = n)
    BY <2>1, <2>3 DEF Has
  <2> QED
    BY <1>0, <1>1, <2>2, <2>3, HasToken
<1>3. /\ family[n] = 0 /\ row[n] = "absent" /\ \A i \in Issues : family[i] # n
      /\ \A c \in Browsers : ~Has(c, n)
  BY <1>n, NextToken
<1>4. n # 0
  BY <1>1, BffAssumption DEF Issues
<1> SUFFICES ASSUME NEW f \in Issues
             PROVE  \/ L!Opens(SessionOf(f), SessionOf(f)')
                    \/ L!Fades(SessionOf(f), SessionOf(f)')
  BY Evolve
<1>5. ASSUME NEW c \in Browsers
      PROVE  Holds(c, f)' <=> \E i \in Issues : Has(c, i)' /\ family'[i] = f
  <2>1. \A i \in Issues : i # 0
    BY BffAssumption DEF Issues
  <2> QED
    BY <1>2, <2>1, HasHolds
<1>6. CASE f = n
  <2>1. SessionOf(f) = L!Unopened
    BY <1>3, <1>4, <1>6 DEF SessionOf, L!Unopened
  <2>2. n \in Live(f)' /\ family'[f] = f
    BY <1>0, <1>1, <1>6 DEF Live, TypeOK
  <2>3. \A i \in Issues : family'[i] = f <=> i = n
    BY <1>0, <1>1, <1>3, <1>6 DEF TypeOK
  <2>4. \A c \in Browsers : Holds(c, f)' <=> c = b
    BY <1>1, <1>2, <1>3, <1>5, <2>3
  <2>5. {c \in Browsers : Holds(c, f)'} = {b}
    BY <2>4
  <2>6. SessionOf(f)' = [state |-> "live", holders |-> {b}]
    BY <2>2, <2>5 DEF SessionOf
  <2> QED
    BY <2>1, <2>6 DEF L!Opens
<1>7. CASE f # n
  <2>1. \A i \in Issues : family'[i] = f <=> i # n /\ family[i] = f
    BY <1>0, <1>1, <1>3, <1>7 DEF TypeOK
  <2>2. Live(f)' # {} => Live(f) # {}
    BY <1>0, <1>1, <2>1 DEF Live, TypeOK
  <2>3. \A c \in Browsers : Holds(c, f)' => \E i \in Issues : Has(c, i) /\ family[i] = f
    BY <1>2, <1>5, <2>1
  <2>4. \A c \in Browsers : Holds(c, f)' => Holds(c, f)
    BY <2>3, HasHolds, BffAssumption DEF Issues
  <2> QED
    BY <1>7, <2>1, <2>2, <2>4, Fade
<1> QED
  BY <1>6, <1>7

\* The token a rotation makes joins a session that was live, and nobody has it yet.
LEMMA RotateFades ==
    ASSUME JInv, NEW k \in Calls, Rotate(k)
    PROVE  L!Next
<1>0. TypeOK
  BY DEF JInv, IInv
<1>1. PICK t, n \in Issues :
          /\ row[t] = "active" /\ n = issued + 1
          /\ row' = [row EXCEPT ![n] = "pending"]
          /\ family' = [family EXCEPT ![n] = family[t]]
          /\ UNCHANGED <<cookie, request>>
  BY <1>0, RotateFacts
<1>3. /\ family[n] = 0 /\ row[n] = "absent" /\ \A i \in Issues : family[i] # n
      /\ \A c \in Browsers : ~Has(c, n)
  BY <1>1, NextToken
<1>4. n # 0 /\ family[t] \in Issues /\ family[t] # n
  BY <1>1, OldTokens, BffAssumption DEF Issues, JInv
<1>2. ASSUME NEW c \in Browsers, NEW i, i # 0, Has(c, i)'
      PROVE  i \in Issues /\ i # n /\ Has(c, i)
  <2>1. Has(c, i)
    BY <1>1, <1>2 DEF Has
  <2> QED
    BY <1>0, <1>2, <1>3, <2>1, HasToken
<1> SUFFICES ASSUME NEW f \in Issues PROVE L!Fades(SessionOf(f), SessionOf(f)')
  BY Evolve
<1>5. /\ \A i \in Issues : family'[i] = f => family[i] = f \/ (i = n /\ family[t] = f)
      /\ family'[f] = f <=> family[f] = f
  BY <1>0, <1>1, <1>3, <1>4 DEF TypeOK
<1>6. Live(f)' # {} => Live(f) # {}
  <2>1. ASSUME NEW i \in Live(f)' PROVE Live(f) # {}
    <3>1. CASE i = n
      <4>1. family[t] = f
        BY <1>0, <1>1, <3>1 DEF Live, TypeOK
      <4> QED
        BY <1>1, <4>1 DEF Live
    <3>2. CASE i # n
      BY <1>0, <1>1, <3>2 DEF Live, TypeOK
    <3> QED
      BY <3>1, <3>2
  <2> QED
    BY <2>1
<1>7. ASSUME NEW c \in Browsers, Holds(c, f)' PROVE Holds(c, f)
  <2>1. PICK i : i # 0 /\ Has(c, i)' /\ family'[i] = f
    BY <1>7, HasHolds
  <2>2. i \in Issues /\ i # n /\ Has(c, i)
    BY <1>2, <2>1
  <2>3. family[i] = f
    BY <1>0, <1>1, <2>1, <2>2 DEF TypeOK
  <2> QED
    BY <2>1, <2>2, <2>3, HasHolds
<1> QED
  BY <1>5, <1>6, <1>7, Fade

\* Saving a session gives its refresh token to the browser of the refresh, and
\* nothing else to anybody.
LEMMA SaveHas ==
    ASSUME IInv, NEW k \in Calls, call[k].pc \in Refreshing, NEW s \in Session,
           SaveSession(k, s), UNCHANGED cookie
    PROVE  /\ Has(BrowserOf(k), Jar(k).refresh)
           /\ \A c \in Browsers : \A i : Has(c, i)' =>
                  Has(c, i) \/ (c = BrowserOf(k) /\ i = s.refresh)
<1>1. Has(BrowserOf(k), Jar(k).refresh)
  BY RefreshFor DEF Has, BrowserOf, Jar
<1>2. /\ request'[RequestOf[k]].jar = s
      /\ request'[RequestOf[k]].browser = BrowserOf(k)
      /\ \A r \in Requests : r # RequestOf[k] => request'[r] = request[r]
  BY SaveEffect
<1>3. ASSUME NEW c \in Browsers, NEW i, Has(c, i)', ~Has(c, i)
      PROVE  c = BrowserOf(k) /\ i = s.refresh
  <2>1. cookie'[c].refresh # i
    BY <1>3 DEF Has
  <2>2. PICK r \in Requests : request'[r].browser = c /\ request'[r].jar.refresh = i
    BY <1>3, <2>1 DEF Has
  <2>3. r = RequestOf[k]
    BY <1>2, <1>3, <2>2 DEF Has
  <2> QED
    BY <1>2, <2>2, <2>3
<1> QED
  BY <1>1, <1>3

\* Every step of the code is one that the sessions may take.
LEMMA RefineStep ==
    ASSUME JInv, [Next]_vars
    PROVE  L!Next \/ UNCHANGED [f \in Issues |-> SessionOf(f)]
<1> USE BffAssumption
<1>0. TypeOK /\ IInv
  BY DEF JInv, IInv
<1>1. ASSUME NEW r \in Requests, NEW b \in Browsers, BeginCalls(r, b) PROVE L!Next
  <2>1. \A c \in Browsers : \A i : i # 0 /\ Has(c, i)' => Has(c, i)
    BY <1>0, <1>1 DEF BeginCalls, Has, TypeOK
  <2> QED
    BY <1>1, <2>1, FadeAll DEF BeginCalls, api, table
<1>2. ASSUME NEW r \in Requests, NEW b \in Browsers, Login(r, b) PROVE L!Next
  BY <1>2, LoginOpens
<1>3. ASSUME NEW r \in Requests, NEW b \in Browsers, Logout(r, b) \/ LogoutIgnored(r, b)
      PROVE  L!Next
  <2>1. \A c \in Browsers : \A i : i # 0 /\ Has(c, i)' => Has(c, i)
    BY <1>0, <1>3 DEF Logout, LogoutIgnored, RespondWith, NoSession, Has, TypeOK
  <2>2. family' = family /\ \A i \in Issues : row'[i] \in {row[i], "recent"}
    BY <1>0, <1>3 DEF Logout, LogoutIgnored, table, TypeOK
  <2> QED
    BY <2>1, <2>2, FadeAll
<1>4. ASSUME NEW r \in Requests, Respond(r) \/ ResponseLost(r) PROVE L!Next
  <2>1. request' = [request EXCEPT ![r] = NoRequest]
    BY <1>4 DEF Respond, ResponseLost, Finish
  <2>2. \A b \in Browsers : \/ cookie'[b] = cookie[b]
                            \/ cookie'[b] = request[r].jar /\ request[r].browser = b
    BY <1>0, <1>4 DEF Respond, ResponseLost, TypeOK
  <2>3. \A c \in Browsers : \A i : i # 0 /\ Has(c, i)' => Has(c, i)
    BY <1>0, <2>1, <2>2 DEF NoRequest, Has, TypeOK
  <2> QED
    BY <1>4, <2>3, FadeAll DEF Respond, ResponseLost, Finish, api, table
<1>5. ASSUME UNCHANGED <<cookie, request, family>>,
             \A i \in Issues : row'[i] \in {"active", "pending"} => row[i] \in {"active", "pending"}
      PROVE  L!Next
  <2>1. \A c \in Browsers : \A i : i # 0 /\ Has(c, i)' => Has(c, i)
    BY <1>5 DEF Has
  <2> QED
    BY <1>5, <2>1, FadeAll
<1>6. ASSUME NEW k \in Calls, FetchOk(k) \/ FetchDenied(k) \/ RefreshThrows(k) PROVE L!Next
  BY <1>5, <1>6 DEF FetchOk, FetchDenied, RefreshThrows, api, table
<1>7. ASSUME NEW k \in Calls, RefreshOk(k) PROVE L!Next
  <2> DEFINE t == call[k].token
  <2>1. /\ call[k].pc \in Refreshing /\ t \in Issues
        /\ UNCHANGED <<cookie, row, family>>
        /\ \E s \in Session : SaveSession(k, s) /\ s.refresh = t
    BY <1>0, <1>7, OkSaves DEF Refreshing
  <2>2. PICK s \in Session : SaveSession(k, s) /\ s.refresh = t
    BY <2>1
  <2>3. /\ Has(BrowserOf(k), Jar(k).refresh)
        /\ \A c \in Browsers : \A i : Has(c, i)' => Has(c, i) \/ (c = BrowserOf(k) /\ i = t)
    BY <1>0, <2>1, <2>2, SaveHas
  <2>4. Jar(k).refresh # 0 /\ family[Jar(k).refresh] = family[t]
    BY <1>0, <2>1 DEF IInv, SentInv, RotatingOk, Refreshing, Issues
  <2> QED
    BY <2>1, <2>3, <2>4, FadeAll
<1>8. ASSUME NEW k \in Calls, RefreshRefused(k) \/ RefreshFails(k) PROVE L!Next
  <2>1. call[k].pc \in Refreshing /\ SaveSession(k, NoSession) /\ UNCHANGED <<cookie, family>>
    BY <1>0, <1>8, NoSaves
  <2>2. NoSession \in Session /\ NoSession.refresh = 0
    BY DEF Session, NoSession
  <2>3. \A c \in Browsers : \A i : i # 0 /\ Has(c, i)' => Has(c, i)
    BY <1>0, <2>1, <2>2, SaveHas
  <2> QED
    BY <1>0, <1>8, <2>1, <2>3, NoRises, FadeAll
<1>9. ASSUME NEW k \in Calls, Rotate(k) PROVE L!Next
  BY <1>9, RotateFades
<1>10. ASSUME NEW i \in Issues, Revoke(i) \/ Insert(i) \/ GraceEnds(i) PROVE L!Next
  <2>1. UNCHANGED <<cookie, request, family>>
    BY <1>10 DEF Revoke, Insert, GraceEnds
  <2>2. \A j \in Issues : row'[j] \in {"active", "pending"} => row[j] \in {"active", "pending"}
    BY <1>0, <1>10 DEF Revoke, Insert, GraceEnds, TypeOK
  <2> QED
    BY <1>5, <2>1, <2>2
<1>11. CASE AccessExpires
  BY <1>5, <1>11 DEF AccessExpires, table
<1>12. CASE UNCHANGED vars
  BY <1>5, <1>12 DEF vars, api, table
<1> QED
  BY <1>1, <1>2, <1>3, <1>4, <1>6, <1>7, <1>8, <1>9, <1>10, <1>11, <1>12
     DEF Next, CallStep

\* Every step keeps the families named by their first tokens.
LEMMA ChainStep == ASSUME JInv, [Next]_vars PROVE ChainInv'
<1> USE BffAssumption
<1>0. TypeOK /\ ChainInv /\ IInv
  BY DEF JInv, IInv
<1>1. ASSUME NEW r \in Requests, NEW b \in Browsers, Login(r, b) PROVE ChainInv'
  <2>1. PICK n \in Issues : n = issued + 1
    BY <1>0, <1>1 DEF Login, TypeOK, Issues, Token
  <2>2. /\ row' = [row EXCEPT ![n] = "active"]
        /\ family' = [family EXCEPT ![n] = n]
    BY <1>1, <2>1 DEF Login
  <2>3. row[n] = "absent" /\ \A i \in Issues : family[i] # n
    BY <2>1, NextToken
  <2>4. \A i \in Issues : row[i] # "absent" => family[i] \in Issues
    BY OldTokens DEF JInv
  <2> QED
    BY <1>0, <2>2, <2>3, <2>4 DEF TypeOK, ChainInv
<1>2. ASSUME UNCHANGED family,
             \A i \in Issues : row'[i] = "absent" <=> row[i] = "absent"
      PROVE  ChainInv'
  <2>1. \A i \in Issues : row[i] # "absent" => family[i] \in Issues
    BY OldTokens DEF JInv
  <2> QED
    BY <1>0, <1>2, <2>1 DEF ChainInv
<1>3. ASSUME NEW r \in Requests, NEW b \in Browsers, Logout(r, b) PROVE ChainInv'
  BY <1>0, <1>2, <1>3 DEF Logout, TypeOK
<1>4. ASSUME NEW k \in Calls, Rotate(k) PROVE ChainInv'
  <2>1. PICK t, n \in Issues :
            /\ row[t] = "active" /\ n = issued + 1
            /\ row' = [row EXCEPT ![n] = "pending"]
            /\ family' = [family EXCEPT ![n] = family[t]]
    BY <1>0, <1>4, RotateFacts
  <2>2. row[n] = "absent" /\ \A i \in Issues : family[i] # n
    BY <2>1, NextToken
  <2>3. \A i \in Issues : row[i] # "absent" => family[i] \in Issues
    BY OldTokens DEF JInv
  <2>4. \A i \in Issues : IF row[i] = "absent" THEN family[i] = 0
            ELSE row[family[i]] # "absent" /\ family[family[i]] = family[i]
    BY DEF JInv, ChainInv
  <2> SUFFICES ASSUME NEW i \in Issues
               PROVE  IF row'[i] = "absent" THEN family'[i] = 0
                      ELSE row'[family'[i]] # "absent" /\ family'[family'[i]] = family'[i]
    BY DEF ChainInv
  <2>5. CASE i = n
    BY <1>0, <2>1, <2>2, <2>3, <2>4, <2>5 DEF TypeOK
  <2>6. CASE i # n
    BY <1>0, <2>1, <2>2, <2>3, <2>4, <2>6 DEF TypeOK
  <2> QED
    BY <2>5, <2>6
<1>5. ASSUME NEW k \in Calls, RefreshOk(k) PROVE ChainInv'
  BY <1>0, <1>2, <1>5, OkSaves
<1>6. ASSUME NEW k \in Calls, RefreshRefused(k) \/ RefreshFails(k) PROVE ChainInv'
  BY <1>0, <1>2, <1>6, NoSaves, NoRises
<1>7. ASSUME NEW i \in Issues, GraceEnds(i) \/ Insert(i) PROVE ChainInv'
  BY <1>0, <1>2, <1>7 DEF GraceEnds, Insert, TypeOK
<1>9. ASSUME NEW i \in Issues, Revoke(i) PROVE ChainInv'
  <2>1. replaces[i] \in Issues /\ row[replaces[i]] # "absent"
    BY <1>0, <1>9 DEF Revoke, IInv, ReplacesInv
  <2>2. /\ row' = [row EXCEPT ![replaces[i]] = IF @ = "past" THEN "past" ELSE "recent"]
        /\ UNCHANGED family
    BY <1>9 DEF Revoke
  <2> QED
    BY <1>0, <1>2, <2>1, <2>2 DEF TypeOK
<1>8. CASE UNCHANGED <<row, family>>
  BY <1>2, <1>8
<1> QED
  BY <1>1, <1>3, <1>4, <1>5, <1>6, <1>7, <1>8, <1>9
     DEF Next, CallStep, BeginCalls, LogoutIgnored, RespondWith, Respond, ResponseLost, Finish,
         FetchOk, FetchDenied, RefreshThrows, AccessExpires, vars, api, table, past

-----------------------------------------------------------------------------
(* The theorems *)

\* The inductive invariant holds for any number of browsers, requests and
\* calls, whatever the faults.
THEOREM Invariance == Spec => []IInv
<1>1. Init => IInv
  <2> USE BffAssumption
  <2>1. Init => TypeOK
    BY RecordTypes DEF Init, TypeOK, Token, Issues
  <2>2. Init => WorkInv /\ SentInv /\ IssuedInv /\ OneRefreshAtATime
    BY DEF Init, WorkInv, SentInv, IssuedInv, OneRefreshAtATime, Refreshing, NoRequest, IdleCall
  <2>3. Init => OwnInv /\ SignedInv /\ ReplacesInv
    BY DEF Init, SignedInv, ReplacesInv, OwnInv, OwnJar, Own, NoRequest, NoSession, Issues
  <2> QED
    BY <2>1, <2>2, <2>3 DEF IInv
<1>2. IInv /\ [Next]_vars => IInv'
  BY TypeStep, ControlStep, OwnStep, SignedStep, ReplacesStep DEF IInv
<1> QED
  BY <1>1, <1>2, PTL DEF Spec

\* Cookies, requests, calls and the table of the API keep their types, and a
\* session has both of its tokens or none.
THEOREM TypeCorrect == Spec => []TypeOK
<1>1. IInv => TypeOK
  BY DEF IInv
<1> QED
  BY <1>1, Invariance, PTL

\* refreshOnce never lets two refreshes run, and no call waits for a promise
\* that has settled (refresh.ts:42-49).
THEOREM SingleFlight == Spec => []OneRefreshAtATime
<1>1. IInv => OneRefreshAtATime
  BY DEF IInv
<1> QED
  BY <1>1, Invariance, PTL

\* The promise the requests of all browsers share never carries a session from
\* one browser to another (refresh.ts:5-40).
THEOREM NoSessionMixedUp == Spec => []SessionsAreOwn
<1>1. IInv => SessionsAreOwn
  <2> SUFFICES ASSUME IInv PROVE SessionsAreOwn
    OBVIOUS
  <2>1. \A b \in Browsers : {cookie[b].access, cookie[b].refresh} \subseteq
            {i \in Issues : user[i] = b} \cup {0}
    BY CookieFields, BffAssumption DEF IInv, OwnInv, Own, Token, Issues
  <2>2. \A r \in Requests : {request[r].jar.access, request[r].jar.refresh} \subseteq
            {i \in Issues : user[i] = request[r].browser} \cup {0}
    BY RequestFields, BffAssumption DEF IInv, OwnInv, OwnJar, Own, NoSession, Token, Issues
  <2> QED
    BY <2>1, <2>2 DEF SessionsAreOwn
<1> QED
  BY <1>1, Invariance, PTL

\* A logout that reached the API while no rotation of the user was about to insert a
\* token is final: no answer, wherever it was, brings back a cookie that could be
\* refreshed (logout/route.ts, auth.service.ts:274).  A rotation that read the old
\* token before the logout makes the exception (auth.service.ts:162-228).
THEOREM LogoutIsFinal == Spec => []SignedOutStaysOut
<1>1. IInv => SignedOutStaysOut
  <2> SUFFICES ASSUME IInv, NEW b \in signedOut, cookie[b] # NoSession
               PROVE  row[cookie[b].refresh] # "active"
    BY DEF SignedOutStaysOut
  <2>1. b \in Browsers /\ cookie[b] \in [access: Issues, refresh: Issues]
    BY DEF IInv, TypeOK, Session
  <2>2. cookie[b].refresh \in Issues /\ user[cookie[b].refresh] = b
    BY <2>1 DEF IInv, OwnInv, Own
  <2> QED
    BY <2>2 DEF IInv, SignedInv
<1> QED
  BY <1>1, Invariance, PTL

\* A browser that makes one request at a time and loses no answer stays calm,
\* whatever the others do and wherever their refreshes overlap with its own.
THEOREM Calmness == Spec => []HInv
<1>1. Init => FamilyInv /\ CalmInv
  <2> SUFFICES ASSUME Init PROVE FamilyInv /\ CalmInv
    OBVIOUS
  <2>1. FamilyInv
    BY DEF Init, FamilyInv
  <2>2. CalmInv
    BY BffAssumption DEF Init, CalmInv, Calm, GoesOn, NoRequest, IdleCall
  <2> QED
    BY <2>1, <2>2
<1>2. IInv /\ FamilyInv /\ CalmInv /\ [Next]_vars => FamilyInv' /\ CalmInv'
  BY FamilyStep, CalmStep DEF HInv
<1>3. IInv /\ FamilyInv /\ CalmInv => HInv
  BY DEF HInv
<1> QED
  BY <1>1, <1>2, <1>3, Invariance, PTL DEF Spec

\* Such a browser is left with a refresh token that rotates, however many calls
\* its requests made at once: the guarantee the single flight is there for
\* (refresh.ts:5-49).
THEOREM RestingGoesOn == Spec => []RestingCookieIsActive
<1>1. HInv => RestingCookieIsActive
  BY DEF HInv, CalmInv, Calm, GoesOn, Firm, AtRest, RestingCookieIsActive
<1> QED
  BY <1>1, Calmness, PTL

\* The cookies, the requests that work on copies of them and the promise they
\* share implement sessions that are opened once, end once and never change
\* hands, whatever fails and however late an answer comes.  A session whose
\* rotation has yet to insert its token has not ended (auth.service.ts:219-228).
THEOREM Implementation == Spec => ImplementsSessions
<1>1. Init => FamilyInv /\ ChainInv /\ L!Init
  <2> SUFFICES ASSUME Init PROVE FamilyInv /\ ChainInv /\ L!Init
    OBVIOUS
  <2>1. FamilyInv /\ ChainInv
    BY DEF Init, FamilyInv, ChainInv
  <2>2. \A f \in Issues : SessionOf(f) = L!Unopened
    BY BffAssumption DEF Init, SessionOf, L!Unopened, Issues
  <2> QED
    BY <2>1, <2>2 DEF L!Init
<1>2. IInv /\ FamilyInv /\ ChainInv /\ [Next]_vars => FamilyInv' /\ ChainInv'
  BY FamilyStep, ChainStep DEF JInv
<1>3. IInv /\ FamilyInv /\ ChainInv /\ [Next]_vars => [L!Next]_([f \in Issues |-> SessionOf(f)])
  BY RefineStep DEF JInv
<1> QED
  BY <1>1, <1>2, <1>3, Invariance, PTL DEF Spec, ImplementsSessions, L!Spec

\* One browser at most has tokens of a session (refresh.ts:5-49).
THEOREM NeverShared == Spec => []L!HeldByOne
BY Implementation, L!OneHolder DEF ImplementsSessions
=============================================================================
