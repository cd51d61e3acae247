------------------------------ MODULE BffSession ------------------------------
(***************************************************************************)
(* The frontend server between the browsers and the API: the session       *)
(* cookie, the login and logout routes, and withRefresh, which repeats an  *)
(* upstream call once after refreshing the session.                        *)
(*                                                                         *)
(* A request works on a copy of its browser's cookie, and its response     *)
(* brings the changes back.  refreshPromise is one variable of the server  *)
(* process, shared by the requests of all browsers.  Of the API there is   *)
(* what the frontend can tell apart: a refresh reads the presented token   *)
(* and then makes two writes, and a logout can fall between any of these.  *)
(***************************************************************************)
EXTENDS Naturals, FiniteSets

CONSTANTS
    Browsers,   \* browsers, each with a user of its own
    NoBrowser,  \* the browser of a request that is not at work
    Requests,   \* concurrent requests to the frontend server
    Calls,      \* upstream calls made through withRefresh
    NoCall,     \* refreshPromise = null
    RequestOf,  \* [Calls -> the request whose handler makes the call]
    MaxIssued,  \* bound on how often the API hands out tokens
    MaxLogins,  \* bound on how many of these times are logins
    Faults      \* the failures that may happen, a subset of FaultKinds

\* "api": the API answers a refresh with 429 or 5xx, finds the token expired, or
\* fails in one of the writes of a rotation;
\* "network": the connection to the API breaks during a refresh; "lost": a
\* response misses its browser.
FaultKinds == {"api", "network", "lost"}

ASSUME BffAssumption ==
    /\ NoBrowser \notin Browsers
    /\ NoCall \notin Calls
    /\ RequestOf \in [Calls -> Requests]
    /\ MaxIssued \in Nat
    /\ MaxLogins \in Nat
    /\ Faults \subseteq FaultKinds

VARIABLES
    cookie,         \* [Browsers -> session in the cookie]
    request,        \* [Requests -> a request in progress]
    call,           \* [Calls -> an upstream call in progress]
    refreshPromise, \* the call whose refresh is pending
    issued,         \* how many times the API has handed out tokens
    stale,          \* access tokens up to this one have expired
    row,            \* [Issues -> the row of the refresh token]
    family,         \* [Issues -> the first refresh token of its chain]
    user,           \* [Issues -> whose tokens they are]
    replaces,       \* [Issues -> the token the rotation has yet to revoke for it]
    disturbed,      \* history: the browsers that overlapped requests, or of
                    \*          which an answer was lost
    signedOut       \* history: the browsers whose last login was ended by a
                    \*          logout that reached the API while no rotation
                    \*          of the user was to insert a token

table == <<row, family, user, replaces>>
api == <<issued, stale, table>>
past == <<disturbed, signedOut>>
vars == <<cookie, request, call, refreshPromise, api, past>>

\* Tokens are numbered in the order they are made; 0 is no token.  The access and
\* the refresh token of one answer have the same number.
Issues == 1..MaxIssued
Token == 0..MaxIssued
NoSession == [access |-> 0, refresh |-> 0]
Session == {NoSession} \cup [access: Issues, refresh: Issues]

\* jar: the copy of the cookie; dirty: the response will set or delete it.
Request == [pc: {"idle", "calls", "respond"},
            browser: Browsers \cup {NoBrowser}, jar: Session, dirty: BOOLEAN]

\* token is what the API was given: the access token in "fetch", the refresh token
\* in "sent", where the call is in tryRefresh.  In "rotating" the API has read it as
\* active, and token is the one that is to replace it.
Refreshing == {"sent", "rotating"}
Call == [pc: {"idle", "fetch", "wait", "done"} \cup Refreshing,
         token: Token]

NoRequest == [pc |-> "idle", browser |-> NoBrowser, jar |-> NoSession, dirty |-> FALSE]
IdleCall == [pc |-> "idle", token |-> 0]

TypeOK ==
    /\ cookie \in [Browsers -> Session]
    /\ request \in [Requests -> Request]
    /\ call \in [Calls -> Call]
    /\ refreshPromise \in Calls \cup {NoCall}
    /\ issued \in Token
    /\ stale \in Token
    /\ row \in [Issues -> {"absent", "pending", "active", "recent", "past", "failed"}]
    /\ family \in [Issues -> Token]
    /\ user \in [Issues -> Browsers \cup {NoBrowser}]
    /\ replaces \in [Issues -> Token]
    /\ disturbed \subseteq Browsers
    /\ signedOut \subseteq Browsers

Init ==
    /\ cookie = [b \in Browsers |-> NoSession]
    /\ request = [r \in Requests |-> NoRequest]
    /\ call = [k \in Calls |-> IdleCall]
    /\ refreshPromise = NoCall
    /\ issued = 0
    /\ stale = 0
    /\ row = [i \in Issues |-> "absent"]
    /\ family = [i \in Issues |-> 0]
    /\ user = [i \in Issues |-> NoBrowser]
    /\ replaces = [i \in Issues |-> 0]
    /\ disturbed = {}
    /\ signedOut = {}

CallsOf(r) == {k \in Calls : RequestOf[k] = r}
Jar(k) == request[RequestOf[k]].jar
BrowserOf(k) == request[RequestOf[k]].browser
AtRest(b) == \A r \in Requests : request[r].browser # b

\* The API accepts an access token until it expires, which they all do at the
\* same age; RowOf is what it finds for a refresh token.  A token a rotation has
\* made is pending until it is inserted, and failed when that fails.
Accepted(t) == t > stale
RowOf(t) == IF t = 0 THEN "absent" ELSE row[t]
Active(f) == {i \in Issues : row[i] = "active" /\ family[i] = f}
Pending(b) == {i \in Issues : row[i] = "pending" /\ user[i] = b}
Logins == {i \in Issues : family[i] = i}

CallAt(pc) == [pc |-> pc, token |-> 0]

-----------------------------------------------------------------------------
(* A request starts with the cookie its browser has, and its response      *)
(* replaces that cookie when the handler touched the session.              *)

Overlapped(b) == IF AtRest(b) THEN disturbed ELSE disturbed \cup {b}

BeginCalls(r, b) ==
    /\ request[r].pc = "idle"
    /\ request' = [request EXCEPT ![r] =
          [pc |-> "calls", browser |-> b, jar |-> cookie[b], dirty |-> FALSE]]
    /\ call' = [k \in Calls |-> IF RequestOf[k] = r
          THEN [pc |-> "fetch", token |-> cookie[b].access]
          ELSE call[k]]
    /\ disturbed' = Overlapped(b)
    /\ UNCHANGED <<cookie, refreshPromise, api, signedOut>>

MayRespond(r) ==
    \/ request[r].pc = "respond"
    \/ request[r].pc = "calls" /\ \A k \in CallsOf(r) : call[k].pc = "done"

Finish(r) ==
    /\ request' = [request EXCEPT ![r] = NoRequest]
    /\ call' = [k \in Calls |-> IF RequestOf[k] = r THEN IdleCall ELSE call[k]]
    /\ UNCHANGED <<refreshPromise, api, signedOut>>

Respond(r) ==
    /\ MayRespond(r)
    /\ cookie' = [b \in Browsers |->
          IF b = request[r].browser /\ request[r].dirty
          THEN request[r].jar ELSE cookie[b]]
    /\ Finish(r)
    /\ UNCHANGED disturbed

ResponseLost(r) ==
    /\ "lost" \in Faults
    /\ MayRespond(r) /\ request[r].dirty
    /\ disturbed' = disturbed \cup {request[r].browser}
    /\ Finish(r)
    /\ UNCHANGED cookie

-----------------------------------------------------------------------------
(* The login and logout routes: one call of the API, whose outcome is in   *)
(* the response.  A refused login changes nothing and has no step.         *)

\* The request of browser b whose response will set its cookie to s.
RespondWith(r, b, s) ==
    /\ request[r].pc = "idle"
    /\ request' = [request EXCEPT ![r] =
          [pc |-> "respond", browser |-> b, jar |-> s, dirty |-> TRUE]]
    /\ disturbed' = Overlapped(b)
    /\ UNCHANGED <<cookie, call, refreshPromise, stale>>

Login(r, b) ==
    /\ issued < MaxIssued
    /\ Cardinality(Logins) < MaxLogins
    /\ LET i == issued + 1 IN
         /\ issued' = i
         /\ row' = [row EXCEPT ![i] = "active"]
         /\ family' = [family EXCEPT ![i] = i]
         /\ user' = [user EXCEPT ![i] = b]
         /\ RespondWith(r, b, [access |-> i, refresh |-> i])
    /\ signedOut' = signedOut \ {b}
    /\ UNCHANGED replaces

SignedOutBy(b) == IF Pending(b) = {} THEN signedOut \cup {b} ELSE signedOut

\* Faulty variant: only the refresh token of the cookie is revoked.
Logout_OneToken(r, b) ==
    /\ Accepted(cookie[b].access)
    /\ row' = [i \in Issues |->
          IF i = cookie[b].refresh /\ row[i] = "active" THEN "recent" ELSE row[i]]
    /\ signedOut' = SignedOutBy(b)
    /\ RespondWith(r, b, NoSession)
    /\ UNCHANGED <<issued, family, user, replaces>>

\* Every refresh token of the user that has a row is revoked.
Logout(r, b) ==
    /\ Accepted(cookie[b].access)
    /\ row' = [i \in Issues |->
          IF user[i] = b /\ row[i] = "active" THEN "recent" ELSE row[i]]
    /\ signedOut' = SignedOutBy(b)
    /\ RespondWith(r, b, NoSession)
    /\ UNCHANGED <<issued, family, user, replaces>>

\* The API refuses the access token or cannot be reached: the cookie goes all
\* the same.
LogoutIgnored(r, b) ==
    /\ RespondWith(r, b, NoSession)
    /\ UNCHANGED <<issued, table, signedOut>>

-----------------------------------------------------------------------------
(* withRefresh *)

FetchOk(k) ==
    /\ call[k].pc = "fetch"
    /\ Accepted(call[k].token)
    /\ call' = [call EXCEPT ![k] = CallAt("done")]
    /\ UNCHANGED <<cookie, request, refreshPromise, api, past>>

\* Faulty variant: every 401 starts a refresh of its own.
FetchDenied_NoSingleFlight(k) ==
    /\ call[k].pc = "fetch"
    /\ ~Accepted(call[k].token)
    /\ refreshPromise' = k
    /\ call' = [call EXCEPT ![k] = [pc |-> "sent", token |-> Jar(k).refresh]]
    /\ UNCHANGED <<cookie, request, api, past>>

\* refreshOnce: the first 401 starts a refresh with the session its request has
\* by then, the next ones wait for it.
FetchDenied(k) ==
    /\ call[k].pc = "fetch"
    /\ ~Accepted(call[k].token)
    /\ \/ /\ refreshPromise = NoCall
          /\ refreshPromise' = k
          /\ call' = [call EXCEPT ![k] = [pc |-> "sent", token |-> Jar(k).refresh]]
       \/ /\ refreshPromise # NoCall
          /\ call' = [call EXCEPT ![k] = CallAt("wait")]
          /\ UNCHANGED refreshPromise
    /\ UNCHANGED <<cookie, request, api, past>>

-----------------------------------------------------------------------------
(* The API's refresh.  An active token is read, and replaced by two writes. *)

\* The row was read as active: a token of the same family is to take its place.
Rotate(k) ==
    LET t == call[k].token
        i == issued + 1
    IN /\ call[k].pc = "sent"
       /\ RowOf(t) = "active"
       /\ issued < MaxIssued
       /\ issued' = i
       /\ row' = [row EXCEPT ![i] = "pending"]
       /\ family' = [family EXCEPT ![i] = family[t]]
       /\ user' = [user EXCEPT ![i] = user[t]]
       /\ replaces' = [replaces EXCEPT ![i] = t]
       /\ call' = [call EXCEPT ![k] = [pc |-> "rotating", token |-> i]]
       /\ UNCHANGED <<cookie, request, refreshPromise, stale, past>>

\* The two writes go on in either order, whether or not anybody still waits for
\* the answer: the presented token is saved as revoked at the start of the call,
\* which is before anybody else revoked it,
Revoke(i) ==
    /\ replaces[i] # 0
    /\ row' = [row EXCEPT ![replaces[i]] = IF @ = "past" THEN "past" ELSE "recent"]
    /\ replaces' = [replaces EXCEPT ![i] = 0]
    /\ UNCHANGED <<cookie, request, call, refreshPromise, issued, stale, family, user, past>>

\* and the new one is inserted.
Insert(i) ==
    /\ row[i] = "pending"
    /\ row' = [row EXCEPT ![i] = "active"]
    /\ UNCHANGED <<cookie, request, call, refreshPromise, issued, stale, family, user,
                   replaces, past>>

\* Both writes are done.
Rotated(i) == row[i] # "pending" /\ replaces[i] = 0

\* A write fails, if any is left: the other one may yet be done.
WriteFails(i) ==
    \/ /\ row[i] = "pending"
       /\ row' = [row EXCEPT ![i] = "failed"]
       /\ UNCHANGED replaces
    \/ /\ replaces[i] # 0
       /\ replaces' = [replaces EXCEPT ![i] = 0]
       /\ UNCHANGED row

\* Within the grace period: a new access token, with the token presented.
Grace(t) ==
    /\ RowOf(t) = "recent" /\ Active(family[t]) # {}
    /\ issued < MaxIssued
    /\ issued' = issued + 1
    /\ user' = [user EXCEPT ![issued + 1] = user[t]]
    /\ UNCHANGED <<row, family, replaces>>

\* No token, a revoked session, or reuse, which revokes the family.
Refuse(t) ==
    /\ \/ RowOf(t) = "absent" /\ UNCHANGED row
       \/ RowOf(t) = "recent" /\ Active(family[t]) = {} /\ UNCHANGED row
       \/ /\ RowOf(t) = "past"
          /\ row' = [i \in Issues |->
                IF i \in Active(family[t]) THEN "recent" ELSE row[i]]
    /\ UNCHANGED <<issued, family, user, replaces>>

-----------------------------------------------------------------------------
(* tryRefresh with the answer, and refreshOnce with its outcome.            *)

\* The promise settles: it is cleared, and every call that awaits it comes to its
\* end, with whatever its second and last attempt is answered, with "Session
\* expired", or by throwing.  All the same is done with its request.
Settle(k) ==
    /\ refreshPromise' = NoCall
    /\ call' = [j \in Calls |->
          IF j = k \/ call[j].pc = "wait" THEN CallAt("done") ELSE call[j]]

\* Faulty variant: every request that waits gets the new session.
SaveSession_ForAll(k, s) ==
    request' = [r \in Requests |->
        IF r = RequestOf[k] \/ \E j \in CallsOf(r) : call[j].pc = "wait"
        THEN [pc |-> "calls", browser |-> request[r].browser, jar |-> s, dirty |-> TRUE]
        ELSE request[r]]

\* setSession or destroySession, in the request that started the refresh.
SaveSession(k, s) ==
    request' = [request EXCEPT ![RequestOf[k]] =
        [pc |-> "calls", browser |-> BrowserOf(k), jar |-> s, dirty |-> TRUE]]

\* Faulty variant: an answer without a refresh token is saved all the same.
RefreshOk_Unchecked(k) ==
    /\ call[k].pc = "rotating" /\ Rotated(call[k].token)
    /\ SaveSession(k, [access |-> call[k].token, refresh |-> 0])
    /\ UNCHANGED <<issued, table>>
    /\ Settle(k)
    /\ UNCHANGED <<cookie, stale, past>>

RefreshOk(k) ==
    /\ \/ /\ call[k].pc = "rotating" /\ Rotated(call[k].token)
          /\ SaveSession(k, [access |-> call[k].token, refresh |-> call[k].token])
          /\ UNCHANGED <<issued, table>>
       \/ /\ call[k].pc = "sent" /\ Grace(call[k].token)
          /\ SaveSession(k, [access |-> issued', refresh |-> call[k].token])
    /\ Settle(k)
    /\ UNCHANGED <<cookie, stale, past>>

RefreshRefused(k) ==
    /\ call[k].pc = "sent"
    /\ Refuse(call[k].token)
    /\ SaveSession(k, NoSession)
    /\ Settle(k)
    /\ UNCHANGED <<cookie, stale, past>>

\* 429, 5xx, or a 401 because the refresh token has expired: to tryRefresh
\* answers like any other refusal.
RefreshFails(k) ==
    /\ "api" \in Faults
    /\ \/ call[k].pc = "sent" /\ UNCHANGED table
       \/ call[k].pc = "rotating" /\ WriteFails(call[k].token) /\ UNCHANGED <<family, user>>
    /\ SaveSession(k, NoSession)
    /\ Settle(k)
    /\ UNCHANGED <<cookie, issued, stale, past>>

\* Where a connection that breaks leaves the browsers: undisturbed as long as the
\* API has not read the token.
Missed(k) == IF call[k].pc = "sent" THEN disturbed ELSE disturbed \cup {BrowserOf(k)}

\* Faulty variant: the promise is not cleared.
RefreshThrows_NotCleared(k) ==
    /\ "network" \in Faults
    /\ call[k].pc \in Refreshing
    /\ call' = [j \in Calls |->
          IF j = k \/ call[j].pc = "wait" THEN CallAt("done") ELSE call[j]]
    /\ disturbed' = Missed(k)
    /\ UNCHANGED <<cookie, request, refreshPromise, api, signedOut>>

\* fetch rejects, wherever the API is with its two writes: so do all the calls
\* that wait, and the session stays as it is.
RefreshThrows(k) ==
    /\ "network" \in Faults
    /\ call[k].pc \in Refreshing
    /\ Settle(k)
    /\ disturbed' = Missed(k)
    /\ UNCHANGED <<cookie, request, api, signedOut>>

-----------------------------------------------------------------------------
(* Time *)

AccessExpires ==
    /\ stale < issued
    /\ stale' = stale + 1
    /\ UNCHANGED <<cookie, request, call, refreshPromise, issued, table, past>>

GraceEnds(i) ==
    /\ row[i] = "recent"
    /\ row' = [row EXCEPT ![i] = "past"]
    /\ UNCHANGED <<cookie, request, call, refreshPromise, issued, stale, family, user,
                   replaces, past>>

-----------------------------------------------------------------------------
CallStep(k) ==
    \/ FetchOk(k) \/ FetchDenied(k)
    \/ Rotate(k)
    \/ RefreshOk(k) \/ RefreshRefused(k) \/ RefreshFails(k) \/ RefreshThrows(k)

Next ==
    \/ \E r \in Requests, b \in Browsers :
          BeginCalls(r, b) \/ Login(r, b) \/ Logout(r, b) \/ LogoutIgnored(r, b)
    \/ \E r \in Requests : Respond(r) \/ ResponseLost(r)
    \/ \E k \in Calls : CallStep(k)
    \/ \E i \in Issues : Revoke(i) \/ Insert(i) \/ GraceEnds(i)
    \/ AccessExpires

Spec == Init /\ [][Next]_vars

-----------------------------------------------------------------------------
(* The session a family of refresh tokens stands for.  It is live as long   *)
(* as one of its tokens is active or is about to be inserted.  A browser    *)
(* holds it when its cookie does, or the copy of the cookie in a request of *)
(* its does.                                                                *)

InFamily(i, f) == i # 0 /\ family[i] = f

Holds(b, f) ==
    \/ InFamily(cookie[b].refresh, f)
    \/ \E r \in Requests :
          request[r].browser = b /\ InFamily(request[r].jar.refresh, f)

Live(f) == {i \in Issues : row[i] \in {"active", "pending"} /\ family[i] = f}

SessionOf(f) ==
    IF family[f] # f THEN [state |-> "none", holders |-> {}]
    ELSE [state |-> IF Live(f) # {} THEN "live" ELSE "ended",
          holders |-> {b \in Browsers : Holds(b, f)}]

L == INSTANCE SessionLifecycle
       WITH Sessions <- Issues, session <- [f \in Issues |-> SessionOf(f)]

-----------------------------------------------------------------------------
(* Properties *)

\* Sessions are opened once, end once and never change hands, wherever a cookie
\* or an answer comes from and however late.
ImplementsSessions == L!Spec

\* However many requests of however many browsers find their access token
\* expired, one refresh at a time is under way, and it is the one the others
\* wait for: nobody waits for a promise that has settled.
OneRefreshAtATime ==
    /\ \A k \in Calls : call[k].pc \in Refreshing <=> refreshPromise = k
    /\ \A k \in Calls : call[k].pc = "wait" => refreshPromise # NoCall

\* Although one promise answers for everybody, no cookie, copy of a cookie or
\* answer on its way ever holds a token of another browser's user.
SessionsAreOwn ==
    /\ \A b \in Browsers : {cookie[b].access, cookie[b].refresh} \subseteq
          {i \in Issues : user[i] = b} \cup {0}
    /\ \A r \in Requests : {request[r].jar.access, request[r].jar.refresh} \subseteq
          {i \in Issues : user[i] = request[r].browser} \cup {0}

\* A browser that makes one request at a time and gets all its answers is left
\* with a session it can go on with, however many calls its requests made at
\* once: the refresh token in its cookie is the active one of its family.
RestingCookieIsActive == \A b \in Browsers \ disturbed :
    AtRest(b) /\ cookie[b] # NoSession => row[cookie[b].refresh] = "active"

\* A logout is final until the next login, provided that the API has no rotation of
\* the user under way that read the old token before and inserts the new one after
\* it.  An answer that was on its way, from the API or to the browser, may bring the
\* cookie back, but not with a token that can be refreshed.
SignedOutStaysOut == \A b \in signedOut :
    cookie[b] # NoSession => row[cookie[b].refresh] # "active"
=============================================================================
