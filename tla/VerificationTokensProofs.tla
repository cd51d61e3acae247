----------------------- MODULE VerificationTokensProofs -----------------------
(***************************************************************************)
(* What holds of the mailed links for any number of tokens and calls: the  *)
(* types; while no call fails, that a link is dead once it was used and    *)
(* that the link mailed last works until then; and, until two calls        *)
(* overlap, that one link is alive and a confirmation is never taken back. *)
(***************************************************************************)
EXTENDS VerificationTokens, FiniteSetTheorems, TLAPS

\* Every step keeps the variables within their types.
LEMMA TypeStep == ASSUME TypeOK, [Next]_vars PROVE TypeOK'
<1> USE TokensAssumption DEF TypeOK, Call, Types
<1>1. ASSUME NEW c \in Calls, NEW k \in Types, Issue(c, k) PROVE TypeOK'
  BY <1>1 DEF Issue, NewCall, NoCall, CallAt, Start, row, user, past
<1>2. ASSUME NEW c \in Calls, Invalidate(c) PROVE TypeOK'
  BY <1>2 DEF Invalidate, Active, NewCall, NoCall, CallAt, Start, row, user, past
<1>3. ASSUME NEW c \in Calls, NEW t \in Tokens, Create(c, t) PROVE TypeOK'
  BY <1>3 DEF Create, NewCall, NoCall, CallAt, Start, row, user, past
<1>4. ASSUME NEW c \in Calls, NEW t \in Tokens, Consume(c, t) PROVE TypeOK'
  BY <1>4 DEF Consume, NewCall, NoCall, CallAt, Start, row, user, past
<1>5. ASSUME NEW c \in Calls, SaveToken(c) PROVE TypeOK'
  BY <1>5 DEF SaveToken, NewCall, NoCall, CallAt, Start, row, user, past
<1>6. ASSUME NEW c \in Calls, SaveUser(c) PROVE TypeOK'
  <2>1. /\ call[c] \in Call
        /\ call[c].type \in Types
        /\ call[c].token \in Tokens
        /\ call[c].confirmed \in BOOLEAN
    BY <1>6 DEF SaveUser
  <2>2. CallAt(c, "token") \in Call /\ NoCall \in Call
    BY <2>1 DEF CallAt, NoCall
  <2>3. call' \in [Calls -> Call]
    BY <1>6, <2>2 DEF SaveUser
  <2>4. uses' \in [Tokens -> 0..2]
    BY <1>6 DEF SaveUser
  <2>5. is_confirmed' \in BOOLEAN /\ password' \in Tokens \cup {NoToken}
    BY <1>6, <2>1 DEF SaveUser
  <2>6. \A d \in Calls :
          /\ call'[d].pc \in {"write", "token", "user"} <=> call'[d].token # NoToken
          /\ call'[d].token # NoToken => /\ used_at[call'[d].token] # "absent"
                                        /\ type[call'[d].token] = call'[d].type
    BY <1>6 DEF SaveUser, CallAt, NoCall
  <2> QED
    BY <1>6, <2>3, <2>4, <2>5, <2>6 DEF SaveUser, row, past
<1>7. ASSUME NEW t \in Tokens, Expire(t) PROVE TypeOK'
  BY <1>7 DEF Expire, NewCall, NoCall, CallAt, Start, row, user, past
<1>8. ASSUME NEW c \in Calls, WriteFails(c) PROVE TypeOK'
  BY <1>8 DEF WriteFails, NewCall, NoCall, CallAt, Start, row, user, past
<1>9. ASSUME NEW c \in Calls, CallDies(c) PROVE TypeOK'
  BY <1>9 DEF CallDies, NewCall, NoCall, CallAt, Start, row, user, past
<1>10. ASSUME UNCHANGED vars PROVE TypeOK'
  BY <1>10 DEF vars, row, user, past
<1> HIDE DEF TypeOK
<1> QED
  BY <1>1, <1>2, <1>3, <1>4, <1>5, <1>6, <1>7, <1>8, <1>9, <1>10
  DEF Next

\* The variables are of their types before the first call.
LEMMA TypeInit == Init => TypeOK
<1> SUFFICES ASSUME Init PROVE TypeOK
  OBVIOUS
<1>1. NoCall \in Call
  BY DEF NoCall, Call, Types
<1>2. call \in [Calls -> Call] /\ \A c \in Calls : call[c].pc = "idle" /\ call[c].token = NoToken
  BY <1>1 DEF Init, NoCall
<1>3. /\ used_at \in [Tokens -> {"absent", "null", "set"}]
      /\ type \in [Tokens -> Types]
      /\ expired \in [Tokens -> BOOLEAN]
      /\ is_confirmed \in BOOLEAN
      /\ password \in Tokens \cup {NoToken}
  BY DEF Init, Types
<1>4. latest \in [Types -> Tokens \cup {NoToken}] /\ uses \in [Tokens -> 0..2]
  BY DEF Init
<1> QED
  BY <1>2, <1>3, <1>4 DEF Init, TypeOK

\* Every reachable state is of its type: in particular a call that consumes a
\* link holds a token that exists and is of the type the call was made for.
THEOREM TypeCorrect == Spec => []TypeOK
<1>1. Init => TypeOK
  BY TypeInit
<1>2. TypeOK /\ [Next]_vars => TypeOK'
  BY TypeStep
<1> QED
  BY <1>1, <1>2, PTL DEF Spec

-----------------------------------------------------------------------------
(* While no call fails *)

\* What a consuming call has behind it while only one of its writes is left.
HalfWritten == \A c \in Calls :
    /\ call[c].pc = "user" => used_at[call[c].token] = "set"
    /\ call[c].pc = "token" => uses[call[c].token] > 0

\* A token that changed the user is dead, or a call is about to kill it.
Spent == \A t \in Tokens : uses[t] > 0 =>
    \/ used_at[t] = "set"
    \/ \E c \in Calls : call[c].token = t

\* The latest token is alive, was used, is being used, or is being replaced.
Latest == \A k \in Types : latest[k] # NoToken =>
    /\ type[latest[k]] = k /\ used_at[latest[k]] # "absent"
    /\ \/ used_at[latest[k]] = "null"
       \/ uses[latest[k]] > 0
       \/ \E c \in Calls : call[c].token = latest[k]
       \/ \E c \in Calls : call[c].pc = "create" /\ call[c].type = k

LinksInv == TypeOK /\ HalfWritten /\ Spent /\ Latest

\* Every step keeps the halves of a consumption in their order.
LEMMA HalfWrittenStep ==
  ASSUME LinksInv, [Next]_vars, ~failed' PROVE HalfWritten'
<1> USE TokensAssumption DEF LinksInv, TypeOK, HalfWritten, Spent, Latest, Call, Types
<1>1. ASSUME NEW c \in Calls, NEW k \in Types, Issue(c, k) PROVE HalfWritten'
  BY <1>1 DEF Issue, NewCall, NoCall, CallAt, Start, row, user, past
<1>2. ASSUME NEW c \in Calls, Invalidate(c) PROVE HalfWritten'
  BY <1>2 DEF Invalidate, Active, NewCall, NoCall, CallAt, Start, row, user, past
<1>3. ASSUME NEW c \in Calls, NEW t \in Tokens, Create(c, t) PROVE HalfWritten'
  BY <1>3 DEF Create, NewCall, NoCall, CallAt, Start, row, user, past
<1>4. ASSUME NEW c \in Calls, NEW t \in Tokens, Consume(c, t) PROVE HalfWritten'
  BY <1>4 DEF Consume, NewCall, NoCall, CallAt, Start, row, user, past
<1>5. ASSUME NEW c \in Calls, SaveToken(c) PROVE HalfWritten'
  BY <1>5 DEF SaveToken, NewCall, NoCall, CallAt, Start, row, user, past
<1>6. ASSUME NEW c \in Calls, SaveUser(c) PROVE HalfWritten'
  BY <1>6 DEF SaveUser, NewCall, NoCall, CallAt, Start, row, user, past
<1>7. ASSUME NEW t \in Tokens, Expire(t) PROVE HalfWritten'
  BY <1>7 DEF Expire, NewCall, NoCall, CallAt, Start, row, user, past
<1>8. ASSUME UNCHANGED vars PROVE HalfWritten'
  BY <1>8 DEF vars, row, user, past
<1> HIDE DEF LinksInv, HalfWritten
<1> QED
  BY <1>1, <1>2, <1>3, <1>4, <1>5, <1>6, <1>7, <1>8
  DEF Next, WriteFails, CallDies

\* Every step keeps spent tokens dead or about to be.
LEMMA SpentStep ==
  ASSUME LinksInv, [Next]_vars, ~failed' PROVE Spent'
<1> USE TokensAssumption DEF LinksInv, TypeOK, HalfWritten, Spent, Latest, Call, Types
<1>1. ASSUME NEW c \in Calls, NEW k \in Types, Issue(c, k) PROVE Spent'
  BY <1>1 DEF Issue, NewCall, NoCall, CallAt, Start, row, user, past
<1>2. ASSUME NEW c \in Calls, Invalidate(c) PROVE Spent'
  BY <1>2 DEF Invalidate, Active, NewCall, NoCall, CallAt, Start, row, user, past
<1>3. ASSUME NEW c \in Calls, NEW t \in Tokens, Create(c, t) PROVE Spent'
  BY <1>3 DEF Create, NewCall, NoCall, CallAt, Start, row, user, past
<1>4. ASSUME NEW c \in Calls, NEW t \in Tokens, Consume(c, t) PROVE Spent'
  BY <1>4 DEF Consume, NewCall, NoCall, CallAt, Start, row, user, past
<1>5. ASSUME NEW c \in Calls, SaveToken(c) PROVE Spent'
  BY <1>5 DEF SaveToken, NewCall, NoCall, CallAt, Start, row, user, past
<1>6. ASSUME NEW c \in Calls, SaveUser(c) PROVE Spent'
  BY <1>6 DEF SaveUser, NewCall, NoCall, CallAt, Start, row, user, past
<1>7. ASSUME NEW t \in Tokens, Expire(t) PROVE Spent'
  BY <1>7 DEF Expire, NewCall, NoCall, CallAt, Start, row, user, past
<1>8. ASSUME UNCHANGED vars PROVE Spent'
  BY <1>8 DEF vars, row, user, past
<1> HIDE DEF LinksInv, Spent
<1> QED
  BY <1>1, <1>2, <1>3, <1>4, <1>5, <1>6, <1>7, <1>8
  DEF Next, WriteFails, CallDies

\* Every step keeps the latest token alive, spent or about to be replaced.
LEMMA LatestStep ==
  ASSUME LinksInv, [Next]_vars, ~failed' PROVE Latest'
<1> USE TokensAssumption DEF LinksInv, TypeOK, HalfWritten, Spent, Latest, Call, Types
<1>1. ASSUME NEW c \in Calls, NEW k \in Types, Issue(c, k) PROVE Latest'
  BY <1>1 DEF Issue, NewCall, NoCall, CallAt, Start, row, user, past
<1>2. ASSUME NEW c \in Calls, Invalidate(c) PROVE Latest'
  BY <1>2 DEF Invalidate, Active, NewCall, NoCall, CallAt, Start, row, user, past
<1>3. ASSUME NEW c \in Calls, NEW t \in Tokens, Create(c, t) PROVE Latest'
  BY <1>3 DEF Create, NewCall, NoCall, CallAt, Start, row, user, past
<1>4. ASSUME NEW c \in Calls, NEW t \in Tokens, Consume(c, t) PROVE Latest'
  BY <1>4 DEF Consume, NewCall, NoCall, CallAt, Start, row, user, past
<1>5. ASSUME NEW c \in Calls, SaveToken(c) PROVE Latest'
  BY <1>5 DEF SaveToken, NewCall, NoCall, CallAt, Start, row, user, past
<1>6. ASSUME NEW c \in Calls, SaveUser(c) PROVE Latest'
  BY <1>6 DEF SaveUser, NewCall, NoCall, CallAt, Start, row, user, past
<1>7. ASSUME NEW t \in Tokens, Expire(t) PROVE Latest'
  BY <1>7 DEF Expire, NewCall, NoCall, CallAt, Start, row, user, past
<1>8. ASSUME UNCHANGED vars PROVE Latest'
  BY <1>8 DEF vars, row, user, past
<1> HIDE DEF LinksInv, Latest
<1> QED
  BY <1>1, <1>2, <1>3, <1>4, <1>5, <1>6, <1>7, <1>8
  DEF Next, WriteFails, CallDies

\* LinksInv holds before the first call.
LEMMA LinksInit == Init => LinksInv
BY TypeInit, TokensAssumption DEF Init, LinksInv, HalfWritten, Spent, Latest, NoCall

-----------------------------------------------------------------------------
(* Until two calls overlap *)

\* At most one call is in flight, and it has the links of its type to itself.
Alone == \A c, d \in Calls : call[c] # NoCall /\ call[d] # NoCall => c = d

\* One link of each type is alive, none while a new one is being created.
OneAlive == \A k \in Types :
    /\ \A s, t \in Active(k) : s = t
    /\ \A c \in Calls : call[c].pc = "create" /\ call[c].type = k => Active(k) = {}

\* A reset knows whether the user is confirmed.
Current == \A c \in Calls :
    call[c].pc \in {"write", "user"} /\ call[c].type = "password_reset" =>
        call[c].confirmed = is_confirmed

AloneInv == TypeOK /\ Alone /\ OneAlive /\ Current

\* What a call in flight is not.
LEMMA BusyIsNotIdle ==
    ASSUME TypeOK, NEW c \in Calls, call[c].pc # "idle" PROVE call[c] # NoCall
BY DEF NoCall

\* Every step that overlaps nothing leaves one call at work.
LEMMA AloneStep ==
    ASSUME AloneInv, [Next]_vars, ~overlapped' PROVE Alone'
<1> USE DEF AloneInv, TypeOK, Alone
<1>1. ASSUME NEW c \in Calls, Start(c), NEW r, call' = [call EXCEPT ![c] = r] PROVE Alone'
  BY <1>1 DEF Start, AtRest
<1>2. ASSUME NEW c \in Calls, call[c] # NoCall, NEW r, call' = [call EXCEPT ![c] = r]
      PROVE  Alone'
  BY <1>2
<1>3. CASE UNCHANGED call
  BY <1>3
<1> HIDE DEF Alone
<1>4. ASSUME NEW c \in Calls, NEW k \in Types, Issue(c, k) PROVE Alone'
  BY <1>1, <1>4 DEF Issue
<1>5. ASSUME NEW c \in Calls, NEW t \in Tokens, Consume(c, t) PROVE Alone'
  BY <1>1, <1>5 DEF Consume
<1>6. ASSUME NEW c \in Calls, NEW t \in Tokens, Create(c, t) PROVE Alone'
  BY <1>2, <1>6, BusyIsNotIdle DEF Create
<1>7. ASSUME NEW c \in Calls, Invalidate(c) \/ SaveToken(c) \/ SaveUser(c) PROVE Alone'
  BY <1>2, <1>7, BusyIsNotIdle DEF Invalidate, SaveToken, SaveUser
<1>8. ASSUME NEW c \in Calls, WriteFails(c) PROVE Alone'
  <2>1. PICK pc \in {"token", "user"} : call' = [call EXCEPT ![c] = CallAt(c, pc)]
    BY <1>8 DEF WriteFails
  <2> QED
    BY <1>2, <1>8, <2>1, BusyIsNotIdle DEF WriteFails
<1>9. ASSUME NEW c \in Calls, CallDies(c) PROVE Alone'
  BY <1>2, <1>9 DEF CallDies
<1> QED
  BY <1>3, <1>4, <1>5, <1>6, <1>7, <1>8, <1>9 DEF Next, Expire, vars

\* Every step of a call that is alone leaves at most one link alive.
LEMMA OneAliveStep ==
    ASSUME AloneInv, [Next]_vars, ~overlapped' PROVE OneAlive'
<1> USE DEF AloneInv, TypeOK, OneAlive, Active, Call, Types
<1>1. ASSUME NEW c \in Calls, NEW k \in Types, Issue(c, k) PROVE OneAlive'
  BY <1>1 DEF Issue, NewCall, row
<1>2. ASSUME NEW c \in Calls, Invalidate(c) PROVE OneAlive'
  <2>1. \A d \in Calls : call[d].pc = "create" => d = c
    BY <1>2, BusyIsNotIdle DEF Invalidate, Alone
  <2> QED
    BY <1>2, <2>1 DEF Invalidate, CallAt
<1>3. ASSUME NEW c \in Calls, NEW t \in Tokens, Create(c, t) PROVE OneAlive'
  <2>1. \A d \in Calls : call[d].pc = "create" => d = c
    BY <1>3, BusyIsNotIdle DEF Create, Alone
  <2> QED
    BY <1>3, <2>1 DEF Create, NoCall
<1>4. ASSUME NEW c \in Calls, NEW t \in Tokens, Consume(c, t) PROVE OneAlive'
  BY <1>4 DEF Consume, NewCall, row
<1>5. ASSUME NEW c \in Calls, SaveToken(c) PROVE OneAlive'
  BY <1>5 DEF SaveToken, CallAt, NoCall
<1>6. ASSUME NEW c \in Calls, SaveUser(c) PROVE OneAlive'
  BY <1>6 DEF SaveUser, CallAt, NoCall, row
<1>7. ASSUME NEW c \in Calls, WriteFails(c) PROVE OneAlive'
  BY <1>7 DEF WriteFails, CallAt, row
<1>8. ASSUME NEW c \in Calls, CallDies(c) PROVE OneAlive'
  BY <1>8 DEF CallDies, NoCall, row
<1>9. CASE UNCHANGED <<used_at, type, call>>
  BY <1>9
<1> HIDE DEF AloneInv, OneAlive
<1> QED
  BY <1>1, <1>2, <1>3, <1>4, <1>5, <1>6, <1>7, <1>8, <1>9 DEF Next, Expire, vars, row

\* Every step of a call that is alone leaves it with what the user's row says.
LEMMA CurrentStep ==
    ASSUME AloneInv, [Next]_vars, ~overlapped' PROVE Current'
<1> USE DEF AloneInv, TypeOK, Current, Call, Types
<1>1. ASSUME NEW c \in Calls, NEW k \in Types, Issue(c, k) PROVE Current'
  BY <1>1 DEF Issue, NewCall, user
<1>2. ASSUME NEW c \in Calls, Invalidate(c) PROVE Current'
  BY <1>2 DEF Invalidate, CallAt, user
<1>3. ASSUME NEW c \in Calls, NEW t \in Tokens, Create(c, t) PROVE Current'
  BY <1>3 DEF Create, NoCall, user
<1>4. ASSUME NEW c \in Calls, NEW t \in Tokens, Consume(c, t) PROVE Current'
  BY <1>4 DEF Consume, NewCall, user
<1>5. ASSUME NEW c \in Calls, SaveToken(c) PROVE Current'
  BY <1>5 DEF SaveToken, CallAt, NoCall, user
<1>6. ASSUME NEW c \in Calls, SaveUser(c) PROVE Current'
  <2>1. \A d \in Calls : d # c => call'[d].pc = "idle"
    BY <1>6, BusyIsNotIdle DEF SaveUser, Alone, NoCall
  <2> QED
    BY <1>6, <2>1 DEF SaveUser, CallAt, NoCall
<1>7. ASSUME NEW c \in Calls, WriteFails(c) PROVE Current'
  BY <1>7 DEF WriteFails, CallAt, user
<1>8. ASSUME NEW c \in Calls, CallDies(c) PROVE Current'
  BY <1>8 DEF CallDies, NoCall, user
<1>9. CASE UNCHANGED <<is_confirmed, call>>
  BY <1>9
<1> HIDE DEF AloneInv, Current
<1> QED
  BY <1>1, <1>2, <1>3, <1>4, <1>5, <1>6, <1>7, <1>8, <1>9 DEF Next, Expire, vars, user

-----------------------------------------------------------------------------
(* The theorems *)

IInv == TypeOK /\ (~failed => LinksInv) /\ (~overlapped => AloneInv)

\* What has happened stays so.
LEMMA PastStays == ASSUME [Next]_vars, TypeOK
                   PROVE  (failed => failed') /\ (overlapped => overlapped')
<1> USE DEF TypeOK
<1>1. ASSUME NEW c \in Calls, NEW k \in Types, Issue(c, k)
      PROVE  (failed => failed') /\ (overlapped => overlapped')
  BY <1>1 DEF Issue, Start
<1>2. ASSUME NEW c \in Calls, NEW t \in Tokens, Consume(c, t)
      PROVE  (failed => failed') /\ (overlapped => overlapped')
  BY <1>2 DEF Consume, Start
<1> QED
  BY <1>1, <1>2
  DEF Next, Invalidate, Create, SaveToken, SaveUser, Expire, WriteFails, CallDies, vars, past

\* The inductive invariant: what holds while no call fails, and what holds
\* until two calls overlap.
THEOREM Invariance == Spec => []IInv
<1>1. Init => IInv
  <2>1. Init => AloneInv
    BY TypeInit DEF Init, AloneInv, Alone, OneAlive, Active, Current, NoCall
  <2> QED
    BY <2>1, TypeInit, LinksInit DEF IInv
<1>2. IInv /\ [Next]_vars => IInv'
  BY PastStays, TypeStep, HalfWrittenStep, SpentStep, LatestStep, AloneStep, OneAliveStep,
     CurrentStep DEF IInv, LinksInv, AloneInv
<1> QED
  BY <1>1, <1>2, PTL DEF Spec

\* A link that changed the user is dead once no call with it is left, however
\* many calls had it at once, as long as none of them fails.
THEOREM SpentIsDead == Spec => []SpentLinksAreDead
<1>1. IInv => SpentLinksAreDead
  BY DEF IInv, LinksInv, Spent, SpentLinksAreDead
<1> QED
  BY <1>1, Invariance, PTL

\* The link mailed last works until it is used, however many calls that issue
\* and consume links overlap, as long as none of them fails.
THEOREM LatestWorks == Spec => []LatestLinkWorks
<1>1. IInv => LatestLinkWorks
  BY TokensAssumption DEF IInv, LinksInv, TypeOK, Latest, LatestLinkWorks, Types
<1> QED
  BY <1>1, Invariance, PTL

\* Until two calls overlap a user has at most one live link of each type, even
\* when calls die between invalidating the old ones and creating the new one.
THEOREM OneLink == Spec => []OneActiveLink
<1>1. IInv => OneActiveLink
  <2> SUFFICES ASSUME AloneInv, NEW k \in Types PROVE Cardinality(Active(k)) <= 1
    BY DEF IInv, OneActiveLink
  <2>1. CASE Active(k) = {}
    BY <2>1, FS_EmptySet
  <2>2. ASSUME NEW t, Active(k) = {t} PROVE Cardinality(Active(k)) <= 1
    <3>1. Cardinality({t}) = 1
      BY FS_Singleton
    <3> QED
      BY <2>2, <3>1
  <2>3. Active(k) = {} \/ \E t : Active(k) = {t}
    BY DEF AloneInv, OneAlive
  <2> QED
    BY <2>1, <2>2, <2>3
<1> QED
  BY <1>1, Invariance, PTL

\* Until two calls overlap no reset takes a confirmation back, although its save
\* writes the column is_confirmed (auth.service.ts:259-269).
THEOREM ConfirmedStays == Spec => ConfirmedIsFinal
<1>1. IInv /\ [Next]_vars => (~overlapped' /\ is_confirmed => is_confirmed')
  <2> SUFFICES ASSUME IInv, [Next]_vars, ~overlapped', is_confirmed PROVE is_confirmed'
    OBVIOUS
  <2>1. AloneInv
    BY PastStays DEF IInv
  <2>2. ASSUME NEW c \in Calls, SaveUser(c) PROVE is_confirmed'
    BY <2>1, <2>2 DEF SaveUser, AloneInv, Current
  <2> QED
    BY <2>2 DEF Next, Issue, Invalidate, Create, Consume, SaveToken, Expire, WriteFails,
       CallDies, vars, user
<1> QED
  BY <1>1, Invariance, PTL DEF Spec, ConfirmedIsFinal
=============================================================================
