----------------------------- MODULE RefreshTokens -----------------------------
(***************************************************************************)
(* The sessions of one confirmed user: the rows of table refresh_tokens,   *)
(* the calls that open, rotate and end them, and the browsers whose        *)
(* session cookie holds a refresh token.                                   *)
(*                                                                         *)
(* A family is named by its first token.  The service takes no lock and    *)
(* opens no transaction: every query is a step of its own, and the two     *)
(* writes of a rotation run side by side.                                  *)
(***************************************************************************)
EXTENDS Naturals, FiniteSets

CONSTANTS
    Tokens,     \* refresh tokens, as many as the user is ever given
    NoToken,    \* no token
    Clients,    \* browsers, each with a session cookie of its own
    NoClient,   \* the client of a call that is not at work
    Calls,      \* concurrent calls
    Happens     \* what may happen besides calls that end well, see Events

\* "expire": tokens expire; "reset": the password is reset; "lost": a response
\* is lost; "api": a call dies at an await.
Events == {"expire", "reset", "lost", "api"}

ASSUME SessionsAssumption ==
    /\ NoToken \notin Tokens
    /\ NoClient \notin Clients
    /\ Happens \subseteq Events

VARIABLES
    revoked_at, \* [Tokens -> column revoked_at, "absent" without a row]
    family,     \* [Tokens -> column family: the first token of its chain]
    expired,    \* [Tokens -> expires_at has passed, and a call has seen it]
    reset,      \* the progress of the one resetPassword call
    call,       \* [Calls -> a call in flight]
    held,       \* [Clients -> the refresh token in the session cookie]
    ended,      \* history: [Tokens -> has the family been revoked as a whole,
                \*           and was a rotation about to add to it ("busy")]
    disturbed   \* history: has a browser started a call while another one of
                \*           its own was in flight, or a call come to nothing

tokens == <<revoked_at, family, expired>>
vars == <<tokens, reset, call, held, ended, disturbed>>

\* "null" is an active token; a revoked one is within the grace period
\* ("recent") or past it.
Columns == {"absent", "null", "recent", "past"}

\* token is the one a call presents, next the one it will answer with.  A call
\* without a client is one whose client no longer waits: it goes on, and its
\* answer reaches nobody.
Call == [pc: {"idle", "open", "rotate", "insert", "save", "lookup", "revoke",
              "answer", "logout", "forget"},
         client: Clients \cup {NoClient},
         token: Tokens \cup {NoToken},
         next: Tokens \cup {NoToken}]

NewCall(pc, c, t) ==
    [pc |-> pc, client |-> c, token |-> t, next |-> NoToken]

NoCall == NewCall("idle", NoClient, NoToken)

\* The call moved on in a rotation, to its good answer, or to a bad one.
CallAt(k, pc, next) ==
    [pc |-> pc, client |-> call[k].client, token |-> call[k].token, next |-> next]
AnswerWith(k, t) ==
    [pc |-> "answer", client |-> call[k].client, token |-> NoToken, next |-> t]
Rejected(k) == NewCall("forget", call[k].client, NoToken)

\* The same call when its client no longer waits for it.
Orphaned(k, pc) ==
    [pc |-> pc, client |-> NoClient, token |-> call[k].token,
     next |-> call[k].next]

TypeOK ==
    /\ revoked_at \in [Tokens -> Columns]
    /\ family \in [Tokens -> Tokens \cup {NoToken}]
    /\ \A t \in Tokens : family[t] = NoToken <=> revoked_at[t] = "absent"
    /\ expired \in [Tokens -> BOOLEAN]
    /\ reset \in {"none", "saved", "done", "died"}
    /\ call \in [Calls -> Call]
    /\ held \in [Clients -> Tokens \cup {NoToken}]
    /\ ended \in [Tokens -> {"no", "quiet", "busy"}]
    /\ disturbed \in BOOLEAN

Init ==
    /\ revoked_at = [t \in Tokens |-> "absent"]
    /\ family = [t \in Tokens |-> NoToken]
    /\ expired = [t \in Tokens |-> FALSE]
    /\ reset = "none"
    /\ call = [k \in Calls |-> NoCall]
    /\ held = [c \in Clients |-> NoToken]
    /\ ended = [t \in Tokens |-> "no"]
    /\ disturbed = FALSE

Families == {family[t] : t \in Tokens} \ {NoToken}
Active(f) == {t \in Tokens : family[t] = f /\ revoked_at[t] = "null"}

\* A rotation of f has read an active token and may still insert another one.
Rotating(f) == \E k \in Calls :
    call[k].pc \in {"rotate", "insert"} /\ family[call[k].token] = f

\* UPDATE refresh_tokens SET revoked_at = now WHERE ... AND revoked_at IS NULL
Revoked(F) == [t \in Tokens |->
    IF family[t] \in F /\ revoked_at[t] = "null" THEN "recent" ELSE revoked_at[t]]
Ended(F) == [f \in Tokens |->
    IF f \in F THEN (IF Rotating(f) THEN "busy" ELSE "quiet") ELSE ended[f]]

End(F) == revoked_at' = Revoked(F) /\ ended' = Ended(F)

\* Browser c starts a call, whatever other calls of its are in flight.
Start(k, c) ==
    /\ call[k] = NoCall
    /\ disturbed' = (disturbed \/ \E j \in Calls : call[j].client = c)

-----------------------------------------------------------------------------
(* login: the password is verified, then a token opens a new family.        *)

LoginVerify(k, c) ==
    /\ Start(k, c)
    /\ held[c] = NoToken
    /\ call' = [call EXCEPT ![k] = NewCall("open", c, NoToken)]
    /\ UNCHANGED <<tokens, reset, held, ended>>

LoginInsert(k, t) ==
    /\ call[k].pc = "open"
    /\ revoked_at[t] = "absent"
    /\ revoked_at' = [revoked_at EXCEPT ![t] = "null"]
    /\ family' = [family EXCEPT ![t] = t]
    /\ call' = [call EXCEPT ![k] = AnswerWith(k, t)]
    /\ UNCHANGED <<expired, reset, held, ended, disturbed>>

-----------------------------------------------------------------------------
(* refresh.  What it does depends on the row as read at the start.          *)

\* Time passes expires_at, which makes a difference once a call looks at it.
SeesExpired(t) ==
    /\ "expire" \in Happens
    /\ expired' = [expired EXCEPT ![t] = TRUE]

SeesValid(t) == ~expired[t] /\ UNCHANGED expired

\* Faulty variant: a revoked token is not told from an active one.
Refresh_AnyToken(k, c) ==
    /\ Start(k, c)
    /\ held[c] # NoToken
    /\ \/ SeesExpired(held[c]) /\ call' = [call EXCEPT ![k] = NewCall("forget", c, NoToken)]
       \/ /\ SeesValid(held[c])
          /\ call' = [call EXCEPT ![k] = NewCall("rotate", c, held[c])]
    /\ UNCHANGED <<revoked_at, family, reset, held, ended>>

\* TOKEN_EXPIRED, a rotation, the grace period, or reuse.
Refresh(k, c) ==
    /\ Start(k, c)
    /\ held[c] # NoToken
    /\ \/ SeesExpired(held[c]) /\ call' = [call EXCEPT ![k] = NewCall("forget", c, NoToken)]
       \/ /\ SeesValid(held[c])
          /\ \E pc \in {"rotate", "lookup", "revoke"} :
                /\ \/ revoked_at[held[c]] = "null" /\ pc = "rotate"
                   \/ revoked_at[held[c]] = "recent" /\ pc = "lookup"
                   \/ revoked_at[held[c]] = "past" /\ pc = "revoke"
                /\ call' = [call EXCEPT ![k] = NewCall(pc, c, held[c])]
    /\ UNCHANGED <<revoked_at, family, reset, held, ended>>

\* Faulty variant: the presented token is not marked revoked.
SaveRevoked_Unset(k) ==
    /\ call[k].pc \in {"rotate", "save"}
    /\ call' = [call EXCEPT ![k] = IF call[k].pc = "rotate"
          THEN CallAt(k, "insert", NoToken) ELSE AnswerWith(k, call[k].next)]
    /\ UNCHANGED <<tokens, reset, held, ended, disturbed>>

\* The presented token is saved as revoked at the start of the call, which may
\* be longer ago than the grace period; a later revocation is overwritten.
SaveRevoked(k) ==
    /\ call[k].pc \in {"rotate", "save"}
    /\ \E age \in {"recent", "past"} :
         /\ revoked_at[call[k].token] = "past" => age = "past"
         /\ revoked_at' = [revoked_at EXCEPT ![call[k].token] = age]
    /\ call' = [call EXCEPT ![k] = IF call[k].pc = "rotate"
          THEN CallAt(k, "insert", NoToken) ELSE AnswerWith(k, call[k].next)]
    /\ UNCHANGED <<family, expired, reset, held, ended, disturbed>>

\* Faulty variant: the successor is saved without its family.
InsertSuccessor_NoFamily(k, t) ==
    /\ call[k].pc \in {"rotate", "insert"}
    /\ revoked_at[t] = "absent"
    /\ revoked_at' = [revoked_at EXCEPT ![t] = "null"]
    /\ call' = [call EXCEPT ![k] = IF call[k].pc = "rotate"
          THEN CallAt(k, "save", t) ELSE AnswerWith(k, t)]
    /\ UNCHANGED <<family, expired, reset, held, ended, disturbed>>

\* Promise.all: the successor may be inserted before or after that.
InsertSuccessor(k, t) ==
    /\ call[k].pc \in {"rotate", "insert"}
    /\ revoked_at[t] = "absent"
    /\ revoked_at' = [revoked_at EXCEPT ![t] = "null"]
    /\ family' = [family EXCEPT ![t] = family[call[k].token]]
    /\ call' = [call EXCEPT ![k] = IF call[k].pc = "rotate"
          THEN CallAt(k, "save", t) ELSE AnswerWith(k, t)]
    /\ UNCHANGED <<expired, reset, held, ended, disturbed>>

\* Within the grace period the client gets back the token it presented, as
\* long as its family has an active one; INVALID_TOKEN otherwise.
LookupFamily(k) ==
    /\ call[k].pc = "lookup"
    /\ call' = [call EXCEPT ![k] =
          IF Active(family[call[k].token]) # {}
          THEN AnswerWith(k, call[k].token)
          ELSE Rejected(k)]
    /\ UNCHANGED <<tokens, reset, held, ended, disturbed>>

\* TOKEN_REUSE_DETECTED
RevokeFamily(k) ==
    /\ call[k].pc = "revoke"
    /\ End({family[call[k].token]})
    /\ call' = [call EXCEPT ![k] = Rejected(k)]
    /\ UNCHANGED <<family, expired, reset, held, disturbed>>

-----------------------------------------------------------------------------
(* logout, and the end of a call at the client: the cookie takes the token  *)
(* of a good answer and is destroyed by any other answer.                   *)

BeginLogout(k, c) ==
    /\ Start(k, c)
    /\ held[c] # NoToken
    /\ call' = [call EXCEPT ![k] = NewCall("logout", c, NoToken)]
    /\ UNCHANGED <<tokens, reset, held, ended>>

LogoutRevoke(k) ==
    /\ call[k].pc = "logout"
    /\ End(Families)
    /\ call' = [call EXCEPT ![k] = Rejected(k)]
    /\ UNCHANGED <<family, expired, reset, held, disturbed>>

\* The access token has expired, or the API cannot be reached.
LogoutRefused(k) ==
    /\ call[k].pc = "logout"
    /\ call' = [call EXCEPT ![k] = Rejected(k)]
    /\ UNCHANGED <<tokens, reset, held, ended, disturbed>>

\* Faulty variant: the cookie keeps the token it has.
Answer_KeepsOld(k) ==
    /\ call[k].pc = "answer"
    /\ held' = [c \in Clients |->
          IF c = call[k].client /\ held[c] = NoToken THEN call[k].next ELSE held[c]]
    /\ call' = [call EXCEPT ![k] = NoCall]
    /\ UNCHANGED <<tokens, reset, ended, disturbed>>

Answer(k) ==
    /\ call[k].pc = "answer"
    /\ held' = [c \in Clients |->
          IF c = call[k].client THEN call[k].next ELSE held[c]]
    /\ call' = [call EXCEPT ![k] = NoCall]
    /\ UNCHANGED <<tokens, reset, ended, disturbed>>

Forget(k) ==
    /\ call[k].pc = "forget"
    /\ held' = [c \in Clients |->
          IF c = call[k].client THEN NoToken ELSE held[c]]
    /\ call' = [call EXCEPT ![k] = NoCall]
    /\ UNCHANGED <<tokens, reset, ended, disturbed>>

-----------------------------------------------------------------------------
(* resetPassword: the user is saved, then every token is revoked.  What the *)
(* save writes is in VerificationTokens.                                    *)

ResetSave ==
    /\ "reset" \in Happens
    /\ reset = "none"
    /\ reset' = "saved"
    /\ UNCHANGED <<tokens, call, held, ended, disturbed>>

ResetRevoke ==
    /\ reset = "saved"
    /\ reset' = "done"
    /\ End(Families)
    /\ UNCHANGED <<family, expired, call, held, disturbed>>

-----------------------------------------------------------------------------
(* Time and failures *)

\* Only for tokens that some browser holds: nobody presents the others, so
\* their age makes no difference.
Held(t) == \E c \in Clients : held[c] = t

GraceEnds(t) ==
    /\ Held(t) /\ revoked_at[t] = "recent"
    /\ revoked_at' = [revoked_at EXCEPT ![t] = "past"]
    /\ UNCHANGED <<family, expired, reset, call, held, ended, disturbed>>

\* The answer reaches nobody.  A browser that gives up waiting earlier is one
\* that overlaps its calls.
ResponseLost(k) ==
    /\ "lost" \in Happens
    /\ disturbed' = TRUE
    /\ call[k].pc \in {"answer", "forget"}
    /\ call' = [call EXCEPT ![k] = NoCall]
    /\ UNCHANGED <<tokens, reset, held, ended>>

\* The call dies where it is.  A refresh answered with an error destroys the
\* cookie, a connection that breaks does not.
CallDies(k) ==
    /\ "api" \in Happens
    /\ disturbed' = TRUE
    /\ call[k] # NoCall
    /\ \/ UNCHANGED held
       \/ /\ call[k].pc # "open"
          /\ held' = [c \in Clients |->
                IF c = call[k].client THEN NoToken ELSE held[c]]
    /\ call' = [call EXCEPT ![k] = NoCall]
    /\ UNCHANGED <<tokens, reset, ended>>

\* One write of a rotation fails: the client is told at once, while the other
\* write is still under way.
WriteFails(k) ==
    /\ "api" \in Happens
    /\ disturbed' = TRUE
    /\ call[k].pc = "rotate"
    /\ held' = [c \in Clients |->
          IF c = call[k].client THEN NoToken ELSE held[c]]
    /\ \E pc \in {"insert", "save"} :
          call' = [call EXCEPT ![k] = Orphaned(k, pc)]
    /\ UNCHANGED <<tokens, reset, ended>>

ResetDies ==
    /\ "api" \in Happens
    /\ reset = "saved"
    /\ reset' = "died"
    /\ UNCHANGED <<tokens, call, held, ended, disturbed>>

-----------------------------------------------------------------------------
Next ==
    \/ \E k \in Calls, c \in Clients :
          LoginVerify(k, c) \/ Refresh(k, c) \/ BeginLogout(k, c)
    \/ \E k \in Calls, t \in Tokens : LoginInsert(k, t) \/ InsertSuccessor(k, t)
    \/ \E k \in Calls :
          \/ SaveRevoked(k) \/ LookupFamily(k) \/ RevokeFamily(k)
          \/ LogoutRevoke(k) \/ LogoutRefused(k) \/ Answer(k) \/ Forget(k)
          \/ ResponseLost(k) \/ CallDies(k) \/ WriteFails(k)
    \/ \E t \in Tokens : GraceEnds(t)
    \/ ResetSave \/ ResetRevoke \/ ResetDies

Spec == Init /\ [][Next]_vars

-----------------------------------------------------------------------------
(* The session a family stands for.  It lives as long as it has an active   *)
(* token, or a rotation that is going to insert one; a browser holds it     *)
(* when its cookie does, or a call of its does.                             *)

InFamily(t, f) == t # NoToken /\ family[t] = f

Holds(c, f) ==
    \/ InFamily(held[c], f)
    \/ \E k \in Calls :
          /\ call[k].client = c
          /\ InFamily(call[k].token, f) \/ InFamily(call[k].next, f)

SessionOf(f) ==
    IF family[f] # f THEN [state |-> "none", holders |-> {}]
    ELSE [state |-> IF Active(f) # {} \/ Rotating(f) THEN "live" ELSE "ended",
          holders |-> {c \in Clients : Holds(c, f)}]

L == INSTANCE SessionLifecycle
       WITH Sessions <- Tokens, Browsers <- Clients,
            session <- [f \in Tokens |-> SessionOf(f)]

-----------------------------------------------------------------------------
(* Properties *)

\* The rows, whatever the calls in flight do to them, implement sessions that
\* are opened once, end once and never change hands.
ImplementsSessions == L!Spec

\* A session that was revoked as a whole (logout, password reset, detected
\* reuse) while no rotation of it was under way never gets an active token
\* again, whatever calls on it were, are or will be in flight.
EndedSessionsStayEnded == \A f \in Tokens :
    ended[f] = "quiet" => Active(f) = {}

\* Until a browser overlaps its own calls or a call comes to nothing, a family
\* has at most one active token, not counting one that a rotation is about to
\* revoke.
OneActivePerFamily == ~disturbed => \A f \in Tokens :
    Cardinality({t \in Active(f) :
        ~ \E k \in Calls : call[k].pc = "save" /\ call[k].token = t}) <= 1

\* Until then a browser at rest holds the active token of its family, as long
\* as the family is not revoked as a whole: its next refresh rotates.
IdleClientHoldsActive == ~disturbed => \A c \in Clients :
    (/\ held[c] # NoToken
     /\ \A k \in Calls : call[k].client # c
     /\ ended[family[held[c]]] = "no") =>
        Active(family[held[c]]) = {held[c]}

\* Until then reuse is reported only of a token whose family was already revoked
\* as a whole: no browser loses its session to a false alarm.
AlarmsAreTrue == ~disturbed => \A k \in Calls :
    call[k].pc = "revoke" => ended[family[call[k].token]] # "no"

\* What the documents claim and the code does not keep.

\* Within the grace period the answer is "the latest non-revoked token in the
\* same family" (phase-02-auth.md:294): a lookup answers with an active token.
GraceAnswersWithActive == [][\A k \in Calls :
    call[k].pc = "lookup" /\ call'[k].pc = "answer" =>
        revoked_at'[call'[k].next] = "null"]_vars
=============================================================================
