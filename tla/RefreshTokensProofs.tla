------------------------- MODULE RefreshTokensProofs -------------------------
EXTENDS RefreshTokens, FiniteSetTheorems, TLAPS

USE DEF tokens

-----------------------------------------------------------------------------
(* The inductive invariant.  A family ended quietly stays without active    *)
(* tokens because nobody is left who may insert one: a rotation needs an    *)
(* active token to start from, and a login opens a family of its own.       *)

\* What a call works on is in the table, and no rotation is under way in a
\* family that was ended quietly.
CallsInv == \A k \in Calls :
    /\ call[k].pc \in {"rotate", "insert", "save", "lookup", "revoke"} =>
          call[k].token \in Tokens /\ revoked_at[call[k].token] # "absent"
    /\ call[k].next \in Tokens => revoked_at[call[k].next] # "absent"
    /\ call[k].pc \in {"rotate", "insert"} => ended[family[call[k].token]] # "quiet"

\* So is what a cookie holds.
HeldInv == \A c \in Clients : held[c] \in Tokens => revoked_at[held[c]] # "absent"

\* A family is named by a token of the table, an ended one in particular.
FamiliesInv ==
    /\ \A t \in Tokens : family[t] \in Tokens => revoked_at[family[t]] # "absent"
    /\ \A f \in Tokens : ended[f] # "no" => revoked_at[f] # "absent"

\* EndedSessionsStayEnded, token by token.
QuietInv == \A t \in Tokens :
    revoked_at[t] = "null" => ended[family[t]] # "quiet"

SessionsInv == CallsInv /\ HeldInv /\ FamiliesInv /\ QuietInv

IInv == TypeOK /\ SessionsInv

\* No family that was ended quietly has an active token.
LEMMA QuietFamilies == ASSUME IInv PROVE EndedSessionsStayEnded
BY DEF IInv, SessionsInv, QuietInv, EndedSessionsStayEnded, Active

-----------------------------------------------------------------------------
(* Types *)

\* What the helpers that move a call on build is a call.
LEMMA CallTypes ==
    ASSUME TypeOK, NEW k \in Calls, NEW t \in Tokens \cup {NoToken}
    PROVE  /\ NoCall \in Call
           /\ Rejected(k) \in Call
           /\ AnswerWith(k, t) \in Call
           /\ \A pc \in {"insert", "save"} :
                 CallAt(k, pc, t) \in Call /\ Orphaned(k, pc) \in Call
           /\ Orphaned(k, call[k].pc) \in Call
<1>1. NoCall \in Call
  BY DEF Call, NoCall, NewCall
<1>2. call[k] \in Call
  BY DEF TypeOK
<1>3. Rejected(k) \in Call /\ AnswerWith(k, t) \in Call
  BY <1>2 DEF Call, NewCall, Rejected, AnswerWith
<1>4. \A pc \in {"insert", "save"} :
          CallAt(k, pc, t) \in Call /\ Orphaned(k, pc) \in Call
  BY <1>2 DEF Call, CallAt, Orphaned
<1>5. Orphaned(k, call[k].pc) \in Call
  BY <1>2 DEF Call, Orphaned
<1> QED
  BY <1>1, <1>3, <1>4, <1>5

\* What a call carries.
LEMMA CallFields ==
    ASSUME TypeOK, NEW k \in Calls
    PROVE  /\ call[k].token \in Tokens \cup {NoToken}
           /\ call[k].next \in Tokens \cup {NoToken}
           /\ call[k].client \in Clients \cup {NoClient}
BY DEF TypeOK, Call

\* Revoking families keeps the types, removes no row, and leaves no active
\* token in a family that it ends quietly.
LEMMA EndTypes ==
    ASSUME IInv, NEW F \in SUBSET Tokens, End(F)
    PROVE  /\ revoked_at' \in [Tokens -> Columns]
           /\ ended' \in [Tokens -> {"no", "quiet", "busy"}]
           /\ \A t \in Tokens : revoked_at'[t] = "absent" <=> revoked_at[t] = "absent"
           /\ \A t \in Tokens : revoked_at'[t] = "null" =>
                 revoked_at[t] = "null" /\ family[t] \notin F
           /\ \A f \in Tokens : f \notin F => ended'[f] = ended[f]
           /\ \A f \in Tokens : f \in F /\ ended'[f] = "quiet" => ~Rotating(f)
BY DEF IInv, TypeOK, Columns, End, Revoked, Ended

\* The families of the table are named by tokens of the table.
LEMMA FamiliesAreTokens ==
    ASSUME IInv
    PROVE  /\ Families \in SUBSET Tokens
           /\ \A f \in Families : revoked_at[f] # "absent"
           /\ \A t \in Tokens : revoked_at[t] # "absent" => family[t] \in Families
BY SessionsAssumption DEF IInv, TypeOK, SessionsInv, FamiliesInv, Families

\* Every step keeps the variables within their types.
LEMMA TypeStep == ASSUME IInv, [Next]_vars PROVE TypeOK'
<1> USE SessionsAssumption DEF TypeOK
<1>0. TypeOK
  BY DEF IInv
<1>1. ASSUME NEW k \in Calls, NEW c \in Clients, LoginVerify(k, c) PROVE TypeOK'
  BY <1>0, <1>1 DEF LoginVerify, Start, NewCall, Call
<1>2. ASSUME NEW k \in Calls, NEW c \in Clients, Refresh(k, c) PROVE TypeOK'
  <2>1. expired' \in [Tokens -> BOOLEAN] /\ disturbed' \in BOOLEAN
    BY <1>0, <1>2 DEF Refresh, SeesExpired, SeesValid, Start
  <2>2. call' \in [Calls -> Call]
    BY <1>0, <1>2 DEF Refresh, NewCall, Call
  <2> QED
    BY <1>0, <1>2, <2>1, <2>2 DEF Refresh
<1>3. ASSUME NEW k \in Calls, NEW c \in Clients, BeginLogout(k, c) PROVE TypeOK'
  BY <1>0, <1>3 DEF BeginLogout, Start, NewCall, Call
<1>4. ASSUME NEW k \in Calls, NEW t \in Tokens, LoginInsert(k, t) PROVE TypeOK'
  BY <1>0, <1>4, CallTypes, CallFields DEF LoginInsert, Columns
<1>5. ASSUME NEW k \in Calls, NEW t \in Tokens, InsertSuccessor(k, t) PROVE TypeOK'
  <2>1. family[call[k].token] \in Tokens
    BY <1>0, <1>5 DEF InsertSuccessor, IInv, SessionsInv, CallsInv
  <2> QED
    BY <1>0, <1>5, <2>1, CallTypes DEF InsertSuccessor, Columns
<1>6. ASSUME NEW k \in Calls, SaveRevoked(k) PROVE TypeOK'
  <2>1. call[k].token \in Tokens /\ revoked_at[call[k].token] # "absent"
    BY <1>0, <1>6 DEF SaveRevoked, IInv, SessionsInv, CallsInv
  <2> QED
    BY <1>0, <1>6, <2>1, CallTypes, CallFields DEF SaveRevoked, Columns
<1>7. ASSUME NEW k \in Calls, LookupFamily(k) PROVE TypeOK'
  BY <1>0, <1>7, CallTypes, CallFields DEF LookupFamily
<1>8. ASSUME NEW k \in Calls, RevokeFamily(k) PROVE TypeOK'
  <2>1. {family[call[k].token]} \in SUBSET Tokens
    BY <1>0, <1>8 DEF RevokeFamily, IInv, SessionsInv, CallsInv
  <2> QED
    BY <1>0, <1>8, <2>1, EndTypes, CallTypes DEF RevokeFamily
<1>9. ASSUME NEW k \in Calls, LogoutRevoke(k) PROVE TypeOK'
  BY <1>0, <1>9, EndTypes, FamiliesAreTokens, CallTypes DEF LogoutRevoke
<1>10. ASSUME NEW k \in Calls, LogoutRefused(k) PROVE TypeOK'
  BY <1>0, <1>10, CallTypes DEF LogoutRefused
<1>11. ASSUME NEW k \in Calls, Answer(k) PROVE TypeOK'
  BY <1>0, <1>11, CallTypes, CallFields DEF Answer
<1>12. ASSUME NEW k \in Calls, Forget(k) PROVE TypeOK'
  BY <1>0, <1>12, CallTypes DEF Forget
<1>13. ASSUME NEW k \in Calls, ResponseLost(k) PROVE TypeOK'
  BY <1>0, <1>13, CallTypes DEF ResponseLost
<1>14. ASSUME NEW k \in Calls, CallDies(k) PROVE TypeOK'
  BY <1>0, <1>14, CallTypes DEF CallDies
<1>15. ASSUME NEW k \in Calls, WriteFails(k) PROVE TypeOK'
  BY <1>0, <1>15, CallTypes DEF WriteFails
<1>16. ASSUME NEW t \in Tokens, GraceEnds(t) PROVE TypeOK'
  BY <1>0, <1>16 DEF GraceEnds, Columns
<1>17. ASSUME ResetSave PROVE TypeOK'
  BY <1>0, <1>17 DEF ResetSave
<1>18. ASSUME ResetRevoke PROVE TypeOK'
  BY <1>0, <1>18, EndTypes, FamiliesAreTokens DEF ResetRevoke
<1>19. ASSUME ResetDies PROVE TypeOK'
  BY <1>0, <1>19 DEF ResetDies
<1>20. CASE UNCHANGED vars
  BY <1>0, <1>20 DEF vars
<1> QED
  BY <1>1, <1>2, <1>3, <1>4, <1>5, <1>6, <1>7, <1>8, <1>9, <1>10, <1>11, <1>12, <1>13, <1>14, <1>15, <1>16, <1>17, <1>18, <1>19, <1>20 DEF Next

-----------------------------------------------------------------------------
(* Preservation *)

\* Revoking a set of families keeps it, as long as calls at most move on to
\* their rejection.
LEMMA EndKeeps ==
    ASSUME IInv, NEW F \in SUBSET Tokens, End(F),
           \A f \in F : revoked_at[f] # "absent",
           UNCHANGED <<family, held>>,
           \A j \in Calls : call'[j] = call[j] \/ call'[j] = Rejected(j)
    PROVE  SessionsInv'
<1>0. TypeOK /\ SessionsInv
  BY DEF IInv
<1>1. CallsInv'
  <2>1. ASSUME NEW j \in Calls, call'[j] = Rejected(j)
        PROVE  call'[j].pc = "forget" /\ call'[j].next = NoToken
    BY <2>1 DEF Rejected, NewCall
  <2>2. ASSUME NEW j \in Calls, call[j].pc \in {"rotate", "insert"}
        PROVE  ended'[family[call[j].token]] # "quiet"
    <3>1. family[call[j].token] \in Tokens
      BY <1>0, <2>2, SessionsAssumption DEF TypeOK, SessionsInv, CallsInv
    <3>2. Rotating(family[call[j].token])
      BY <2>2 DEF Rotating
    <3>3. ended[family[call[j].token]] # "quiet"
      BY <1>0, <2>2 DEF SessionsInv, CallsInv
    <3> QED
      BY <3>1, <3>2, <3>3, EndTypes
  <2>3. \A t \in Tokens : revoked_at'[t] = "absent" <=> revoked_at[t] = "absent"
    BY EndTypes
  <2> QED
    BY <1>0, <2>1, <2>2, <2>3, SessionsAssumption DEF SessionsInv, CallsInv
<1>2. HeldInv' /\ FamiliesInv'
  BY <1>0, EndTypes DEF SessionsInv, HeldInv, FamiliesInv
<1>3. QuietInv'
  BY <1>0, EndTypes, SessionsAssumption DEF TypeOK, SessionsInv, QuietInv
<1> QED
  BY <1>1, <1>2, <1>3 DEF SessionsInv

\* Every step keeps the rest of the invariant.
LEMMA InvStep == ASSUME IInv, [Next]_vars, TypeOK' PROVE IInv'
<1> USE SessionsAssumption DEF SessionsInv, CallsInv, HeldInv, FamiliesInv, QuietInv
<1>0. TypeOK /\ CallsInv /\ HeldInv /\ FamiliesInv /\ QuietInv /\ IInv
  BY DEF IInv
<1>1. ASSUME NEW k \in Calls, NEW c \in Clients, LoginVerify(k, c) PROVE SessionsInv'
  BY <1>0, <1>1 DEF LoginVerify, NewCall, TypeOK
<1>2. ASSUME NEW k \in Calls, NEW c \in Clients, Refresh(k, c) PROVE SessionsInv'
  BY <1>0, <1>2 DEF Refresh, SeesExpired, SeesValid, TypeOK, NewCall
<1>3. ASSUME NEW k \in Calls, NEW c \in Clients, BeginLogout(k, c) PROVE SessionsInv'
  BY <1>0, <1>3 DEF BeginLogout, TypeOK, NewCall
<1>4. ASSUME NEW k \in Calls, NEW t \in Tokens, LoginInsert(k, t) PROVE SessionsInv'
  BY <1>0, <1>4 DEF LoginInsert, TypeOK, AnswerWith
<1>5. ASSUME NEW k \in Calls, NEW t \in Tokens, InsertSuccessor(k, t) PROVE SessionsInv'
  BY <1>0, <1>5 DEF InsertSuccessor, TypeOK, CallAt, AnswerWith
<1>6. ASSUME NEW k \in Calls, SaveRevoked(k) PROVE SessionsInv'
  BY <1>0, <1>6 DEF SaveRevoked, TypeOK, CallAt, AnswerWith
<1>7. ASSUME NEW k \in Calls, LookupFamily(k) PROVE SessionsInv'
  BY <1>0, <1>7 DEF LookupFamily, TypeOK, AnswerWith, Rejected, NewCall
<1>8. ASSUME NEW k \in Calls, RevokeFamily(k) PROVE SessionsInv'
  <2>1. {family[call[k].token]} \in SUBSET Families
    BY <1>0, <1>8, FamiliesAreTokens DEF RevokeFamily
  <2>2. \A j \in Calls : call'[j] = call[j] \/ call'[j] = Rejected(j)
    BY <1>0, <1>8 DEF RevokeFamily, TypeOK
  <2> QED
    BY <1>0, <1>8, <2>1, <2>2, FamiliesAreTokens, EndKeeps DEF RevokeFamily
<1>9. ASSUME NEW k \in Calls, LogoutRevoke(k) PROVE SessionsInv'
  <2>1. \A j \in Calls : call'[j] = call[j] \/ call'[j] = Rejected(j)
    BY <1>0, <1>9 DEF LogoutRevoke, TypeOK
  <2> QED
    BY <1>0, <1>9, <2>1, FamiliesAreTokens, EndKeeps DEF LogoutRevoke
<1>10. ASSUME NEW k \in Calls, LogoutRefused(k) PROVE SessionsInv'
  BY <1>0, <1>10 DEF LogoutRefused, TypeOK, Rejected, NewCall
<1>11. ASSUME NEW k \in Calls, Answer(k) PROVE SessionsInv'
  BY <1>0, <1>11 DEF Answer, TypeOK, NoCall, NewCall
<1>12. ASSUME NEW k \in Calls, Forget(k) PROVE SessionsInv'
  BY <1>0, <1>12 DEF Forget, TypeOK, NoCall, NewCall
<1>13. ASSUME NEW k \in Calls, ResponseLost(k) PROVE SessionsInv'
  BY <1>0, <1>13 DEF ResponseLost, TypeOK, NoCall, NewCall
<1>14. ASSUME NEW k \in Calls, CallDies(k) PROVE SessionsInv'
  BY <1>0, <1>14 DEF CallDies, TypeOK, NoCall, NewCall
<1>15. ASSUME NEW k \in Calls, WriteFails(k) PROVE SessionsInv'
  BY <1>0, <1>15 DEF WriteFails, TypeOK, Orphaned
<1>16. ASSUME NEW t \in Tokens, GraceEnds(t) PROVE SessionsInv'
  BY <1>0, <1>16 DEF GraceEnds, TypeOK
<1>17. ASSUME ResetSave PROVE SessionsInv'
  BY <1>0, <1>17 DEF ResetSave, TypeOK
<1>18. ASSUME ResetRevoke PROVE SessionsInv'
  BY <1>0, <1>18, FamiliesAreTokens, EndKeeps DEF ResetRevoke
<1>19. ASSUME ResetDies PROVE SessionsInv'
  BY <1>0, <1>19 DEF ResetDies, TypeOK
<1>20. ASSUME UNCHANGED vars PROVE SessionsInv'
  <2>1. CallsInv' /\ HeldInv'
    BY <1>0, <1>20 DEF vars
  <2>2. FamiliesInv' /\ QuietInv'
    BY <1>0, <1>20 DEF vars
  <2> QED
    BY <2>1, <2>2
<1>21. SessionsInv'
  <2> HIDE DEF SessionsInv
  <2> QED
    BY <1>1, <1>2, <1>3, <1>4, <1>5, <1>6, <1>7, <1>8, <1>9, <1>10, <1>11, <1>12, <1>13, <1>14, <1>15, <1>16, <1>17, <1>18, <1>19, <1>20 DEF Next
<1> QED
  BY <1>21 DEF IInv

\* The invariant holds initially.
LEMMA InvInit == Init => IInv
<1> SUFFICES ASSUME Init PROVE IInv
  OBVIOUS
<1>1. TypeOK
  BY SessionsAssumption DEF Init, TypeOK, Columns, Call, NoCall, NewCall
<1>2. SessionsInv
  BY SessionsAssumption
  DEF Init, SessionsInv, CallsInv, HeldInv, FamiliesInv, QuietInv, NoCall, NewCall
<1> QED
  BY <1>1, <1>2 DEF IInv

-----------------------------------------------------------------------------
(* Until a browser overlaps its calls or a call comes to nothing             *)

\* A browser has one call in flight at most, and every call has its browser.
OneCallInv ==
    /\ \A k \in Calls : call[k].client = NoClient <=> call[k].pc = "idle"
    /\ \A j, k \in Calls : j # k /\ call[j].client = call[k].client => call[j].pc = "idle"

\* What a call works on is what its browser holds, or its successor.
PresentedInv == \A k \in Calls :
    /\ call[k].pc = "open" => held[call[k].client] = NoToken
    /\ call[k].pc \in {"rotate", "insert", "save", "lookup", "revoke"} =>
          held[call[k].client] = call[k].token
    /\ call[k].pc = "save" =>
          /\ call[k].next \in Tokens /\ call[k].next # call[k].token
          /\ family[call[k].next] = family[call[k].token]
    /\ call[k].pc = "answer" =>
          /\ call[k].next \in Tokens
          /\ held[call[k].client] # NoToken =>
                family[call[k].next] = family[held[call[k].client]]

\* No two browsers share a family.
ApartInv ==
    /\ \A c, d \in Clients : c # d /\ held[c] # NoToken /\ held[d] # NoToken =>
          family[held[c]] # family[held[d]]
    /\ \A k \in Calls, d \in Clients :
          call[k].pc = "answer" /\ call[k].client # d /\ held[d] # NoToken =>
              family[call[k].next] # family[held[d]]
    /\ \A j, k \in Calls : j # k /\ call[j].pc = "answer" /\ call[k].pc = "answer" =>
          family[call[j].next] # family[call[k].next]

\* The active tokens of the family of t are among S, and s is one of them until
\* the family is ended.
Heads(S, t) == \A s \in Tokens : revoked_at[s] = "null" /\ family[s] = family[t] => s \in S
Lives(s, t) == ended[family[t]] = "no" => revoked_at[s] = "null"

\* A family is active in the token its browser holds or is about to hold.
LineInv ==
    /\ \A c \in Clients :
          held[c] # NoToken /\ (\A k \in Calls : call[k].client # c) =>
              Heads({held[c]}, held[c]) /\ Lives(held[c], held[c])
    /\ \A k \in Calls :
          /\ call[k].pc = "rotate" =>
                Heads({call[k].token}, call[k].token) /\ Lives(call[k].token, call[k].token)
          /\ call[k].pc = "insert" => Heads({}, call[k].token)
          /\ call[k].pc = "save" =>
                /\ Heads({call[k].token, call[k].next}, call[k].token)
                /\ Lives(call[k].next, call[k].token)
          /\ call[k].pc = "answer" =>
                Heads({call[k].next}, call[k].next) /\ Lives(call[k].next, call[k].next)
          /\ call[k].pc \in {"lookup", "revoke"} =>
                Heads({}, call[k].token) /\ ended[family[call[k].token]] # "no"

\* Two active tokens of a family are the two of a rotation half done.
PairInv == \A s, t \in Tokens :
    s # t /\ revoked_at[s] = "null" /\ revoked_at[t] = "null" /\ family[s] = family[t] =>
        \E k \in Calls :
            /\ call[k].pc = "save"
            /\ \/ call[k].token = s /\ call[k].next = t
               \/ call[k].token = t /\ call[k].next = s

OrderlyInv == OneCallInv /\ PresentedInv /\ ApartInv /\ LineInv /\ PairInv

\* A browser that starts a call had none, and the call is one that refreshes the
\* token the browser holds or that carries no token at all.
LEMMA StartedCall ==
    ASSUME TypeOK, ~disturbed', NEW k \in Calls, NEW c \in Clients,
           LoginVerify(k, c) \/ Refresh(k, c) \/ BeginLogout(k, c)
    PROVE  /\ \A j \in Calls : call[j].client # c
           /\ \A j \in Calls : j # k => call'[j] = call[j]
           /\ call[k] = NoCall /\ call'[k].client = c
           /\ UNCHANGED <<revoked_at, family, held, ended>>
           /\ \/ call'[k].pc \in {"open", "logout", "forget"}
              \/ held[c] \in Tokens /\ call'[k].token = held[c] /\ call'[k].pc = "rotate"
              \/ /\ held[c] \in Tokens /\ call'[k].token = held[c]
                 /\ call'[k].pc \in {"lookup", "revoke"} /\ revoked_at[held[c]] # "null"
<1>1. call[k] = NoCall /\ \A j \in Calls : call[j].client # c
  BY DEF LoginVerify, Refresh, BeginLogout, Start
<1>2. UNCHANGED <<revoked_at, family, held, ended>>
  BY DEF LoginVerify, Refresh, BeginLogout, tokens
<1>3. PICK pc \in {"open", "logout", "forget", "rotate", "lookup", "revoke"}, t \in Tokens \cup {NoToken} :
         /\ call' = [call EXCEPT ![k] = NewCall(pc, c, t)]
         /\ \/ pc \in {"open", "logout", "forget"}
            \/ t = held[c] /\ t \in Tokens /\ pc = "rotate"
            \/ t = held[c] /\ t \in Tokens /\ pc \in {"lookup", "revoke"} /\ revoked_at[t] # "null"
  BY DEF LoginVerify, Refresh, BeginLogout, TypeOK
<1>4. /\ \A j \in Calls : j # k => call'[j] = call[j]
      /\ call'[k].client = c /\ call'[k].pc = pc /\ call'[k].token = t
  BY <1>3 DEF NewCall, TypeOK
<1> QED
  BY <1>1, <1>2, <1>3, <1>4

\* Every step that disturbs nothing leaves a browser with one call.
LEMMA OneCallStep ==
    ASSUME IInv, OrderlyInv, [Next]_vars, ~disturbed' PROVE OneCallInv'
<1> USE SessionsAssumption DEF OneCallInv, TypeOK, Call, OrderlyInv
<1>0. TypeOK /\ CallsInv /\ HeldInv /\ FamiliesInv /\ OrderlyInv /\ IInv
  BY DEF IInv, SessionsInv
<1>1. ASSUME NEW k \in Calls, NEW c \in Clients,
             LoginVerify(k, c) \/ Refresh(k, c) \/ BeginLogout(k, c)
      PROVE  OneCallInv'
  <2>1. call'[k].pc # "idle"
    BY <1>0, <1>1, StartedCall
  <2> QED
    BY <1>0, <1>1, <2>1, StartedCall
<1>4. ASSUME NEW k \in Calls, NEW t \in Tokens, LoginInsert(k, t) PROVE OneCallInv'
  BY <1>0, <1>4 DEF LoginInsert, AnswerWith
<1>5. ASSUME NEW k \in Calls, NEW t \in Tokens, InsertSuccessor(k, t) PROVE OneCallInv'
  BY <1>0, <1>5 DEF InsertSuccessor, CallAt, AnswerWith
<1>6. ASSUME NEW k \in Calls, SaveRevoked(k) PROVE OneCallInv'
  BY <1>0, <1>6 DEF SaveRevoked, CallAt, AnswerWith
<1>7. ASSUME NEW k \in Calls, LookupFamily(k) PROVE OneCallInv'
  BY <1>0, <1>7 DEF LookupFamily, AnswerWith, Rejected, NewCall
<1>8. ASSUME NEW k \in Calls, RevokeFamily(k) PROVE OneCallInv'
  BY <1>0, <1>8 DEF RevokeFamily, Rejected, NewCall
<1>9. ASSUME NEW k \in Calls, LogoutRevoke(k) PROVE OneCallInv'
  BY <1>0, <1>9 DEF LogoutRevoke, Rejected, NewCall
<1>10. ASSUME NEW k \in Calls, LogoutRefused(k) PROVE OneCallInv'
  BY <1>0, <1>10 DEF LogoutRefused, Rejected, NewCall
<1>11. ASSUME NEW k \in Calls, Answer(k) PROVE OneCallInv'
  BY <1>0, <1>11 DEF Answer, NoCall, NewCall
<1>12. ASSUME NEW k \in Calls, Forget(k) PROVE OneCallInv'
  BY <1>0, <1>12 DEF Forget, NoCall, NewCall
<1>13. ASSUME NEW t \in Tokens, GraceEnds(t) PROVE OneCallInv'
  BY <1>0, <1>13 DEF GraceEnds
<1>14. ASSUME ResetSave PROVE OneCallInv'
  BY <1>0, <1>14 DEF ResetSave
<1>15. ASSUME ResetRevoke PROVE OneCallInv'
  BY <1>0, <1>15 DEF ResetRevoke
<1>16. ASSUME ResetDies PROVE OneCallInv'
  BY <1>0, <1>16 DEF ResetDies
<1>17. ASSUME UNCHANGED vars PROVE OneCallInv'
  BY <1>0, <1>17 DEF vars
<1> HIDE DEF OneCallInv
<1> QED
  BY <1>1, <1>4, <1>5, <1>6, <1>7, <1>8, <1>9, <1>10, <1>11, <1>12, <1>13, <1>14, <1>15, <1>16, <1>17
     DEF Next, ResponseLost, CallDies, WriteFails

\* Every such step keeps the calls at what their browsers hold.
LEMMA PresentedStep ==
    ASSUME IInv, OrderlyInv, [Next]_vars, ~disturbed' PROVE PresentedInv'
<1> USE SessionsAssumption DEF PresentedInv, OneCallInv, TypeOK, Call, OrderlyInv, CallsInv
<1>0. TypeOK /\ CallsInv /\ HeldInv /\ FamiliesInv /\ OrderlyInv /\ IInv
  BY DEF IInv, SessionsInv
<1>1. ASSUME NEW k \in Calls, NEW c \in Clients, LoginVerify(k, c) PROVE PresentedInv'
  BY <1>0, <1>1 DEF LoginVerify, Start, NewCall
<1>2. ASSUME NEW k \in Calls, NEW c \in Clients, Refresh(k, c) PROVE PresentedInv'
  BY <1>0, <1>2 DEF Refresh, SeesExpired, SeesValid, Start, NewCall
<1>3. ASSUME NEW k \in Calls, NEW c \in Clients, BeginLogout(k, c) PROVE PresentedInv'
  BY <1>0, <1>3 DEF BeginLogout, Start, NewCall
<1>4. ASSUME NEW k \in Calls, NEW t \in Tokens, LoginInsert(k, t) PROVE PresentedInv'
  BY <1>0, <1>4 DEF LoginInsert, AnswerWith
<1>5. ASSUME NEW k \in Calls, NEW t \in Tokens, InsertSuccessor(k, t) PROVE PresentedInv'
  BY <1>0, <1>5 DEF InsertSuccessor, CallAt, AnswerWith
<1>6. ASSUME NEW k \in Calls, SaveRevoked(k) PROVE PresentedInv'
  BY <1>0, <1>6 DEF SaveRevoked, CallAt, AnswerWith
<1>7. ASSUME NEW k \in Calls, LookupFamily(k) PROVE PresentedInv'
  BY <1>0, <1>7 DEF LookupFamily, AnswerWith, Rejected, NewCall
<1>8. ASSUME NEW k \in Calls, RevokeFamily(k) PROVE PresentedInv'
  BY <1>0, <1>8 DEF RevokeFamily, Rejected, NewCall
<1>9. ASSUME NEW k \in Calls, LogoutRevoke(k) PROVE PresentedInv'
  BY <1>0, <1>9 DEF LogoutRevoke, Rejected, NewCall
<1>10. ASSUME NEW k \in Calls, LogoutRefused(k) PROVE PresentedInv'
  BY <1>0, <1>10 DEF LogoutRefused, Rejected, NewCall
<1>11. ASSUME NEW k \in Calls, Answer(k) PROVE PresentedInv'
  BY <1>0, <1>11 DEF Answer, NoCall, NewCall
<1>12. ASSUME NEW k \in Calls, Forget(k) PROVE PresentedInv'
  BY <1>0, <1>12 DEF Forget, NoCall, NewCall
<1>13. ASSUME NEW t \in Tokens, GraceEnds(t) PROVE PresentedInv'
  BY <1>0, <1>13 DEF GraceEnds
<1>14. ASSUME ResetSave PROVE PresentedInv'
  BY <1>0, <1>14 DEF ResetSave
<1>15. ASSUME ResetRevoke PROVE PresentedInv'
  BY <1>0, <1>15 DEF ResetRevoke
<1>16. ASSUME ResetDies PROVE PresentedInv'
  BY <1>0, <1>16 DEF ResetDies
<1>17. ASSUME UNCHANGED vars PROVE PresentedInv'
  BY <1>0, <1>17 DEF vars
<1> HIDE DEF PresentedInv
<1> QED
  BY <1>1, <1>2, <1>3, <1>4, <1>5, <1>6, <1>7, <1>8, <1>9, <1>10, <1>11, <1>12, <1>13, <1>14, <1>15, <1>16, <1>17
     DEF Next, ResponseLost, CallDies, WriteFails

\* Every such step keeps the families of the browsers apart.
LEMMA ApartStep ==
    ASSUME IInv, OrderlyInv, [Next]_vars, ~disturbed' PROVE ApartInv'
<1> USE SessionsAssumption DEF ApartInv, PresentedInv, OneCallInv, TypeOK, Call, OrderlyInv, CallsInv, HeldInv, FamiliesInv
<1>0. TypeOK /\ CallsInv /\ HeldInv /\ FamiliesInv /\ OrderlyInv /\ IInv
  BY DEF IInv, SessionsInv
<1>1. ASSUME NEW k \in Calls, NEW c \in Clients, LoginVerify(k, c) PROVE ApartInv'
  BY <1>0, <1>1 DEF LoginVerify, Start, NewCall
<1>2. ASSUME NEW k \in Calls, NEW c \in Clients, Refresh(k, c) PROVE ApartInv'
  BY <1>0, <1>2 DEF Refresh, SeesExpired, SeesValid, Start, NewCall
<1>3. ASSUME NEW k \in Calls, NEW c \in Clients, BeginLogout(k, c) PROVE ApartInv'
  BY <1>0, <1>3 DEF BeginLogout, Start, NewCall
<1>4. ASSUME NEW k \in Calls, NEW t \in Tokens, LoginInsert(k, t) PROVE ApartInv'
  BY <1>0, <1>4 DEF LoginInsert, AnswerWith
<1>5. ASSUME NEW k \in Calls, NEW t \in Tokens, InsertSuccessor(k, t) PROVE ApartInv'
  BY <1>0, <1>5 DEF InsertSuccessor, CallAt, AnswerWith
<1>6. ASSUME NEW k \in Calls, SaveRevoked(k) PROVE ApartInv'
  BY <1>0, <1>6 DEF SaveRevoked, CallAt, AnswerWith
<1>7. ASSUME NEW k \in Calls, LookupFamily(k) PROVE ApartInv'
  BY <1>0, <1>7 DEF LookupFamily, AnswerWith, Rejected, NewCall
<1>8. ASSUME NEW k \in Calls, RevokeFamily(k) PROVE ApartInv'
  BY <1>0, <1>8 DEF RevokeFamily, Rejected, NewCall
<1>9. ASSUME NEW k \in Calls, LogoutRevoke(k) PROVE ApartInv'
  BY <1>0, <1>9 DEF LogoutRevoke, Rejected, NewCall
<1>10. ASSUME NEW k \in Calls, LogoutRefused(k) PROVE ApartInv'
  BY <1>0, <1>10 DEF LogoutRefused, Rejected, NewCall
<1>11. ASSUME NEW k \in Calls, Answer(k) PROVE ApartInv'
  BY <1>0, <1>11 DEF Answer, NoCall, NewCall
<1>12. ASSUME NEW k \in Calls, Forget(k) PROVE ApartInv'
  BY <1>0, <1>12 DEF Forget, NoCall, NewCall
<1>13. ASSUME NEW t \in Tokens, GraceEnds(t) PROVE ApartInv'
  BY <1>0, <1>13 DEF GraceEnds
<1>14. ASSUME ResetSave PROVE ApartInv'
  BY <1>0, <1>14 DEF ResetSave
<1>15. ASSUME ResetRevoke PROVE ApartInv'
  BY <1>0, <1>15 DEF ResetRevoke
<1>16. ASSUME ResetDies PROVE ApartInv'
  BY <1>0, <1>16 DEF ResetDies
<1>17. ASSUME UNCHANGED vars PROVE ApartInv'
  BY <1>0, <1>17 DEF vars
<1> HIDE DEF ApartInv
<1> QED
  BY <1>1, <1>2, <1>3, <1>4, <1>5, <1>6, <1>7, <1>8, <1>9, <1>10, <1>11, <1>12, <1>13, <1>14, <1>15, <1>16, <1>17
     DEF Next, ResponseLost, CallDies, WriteFails

\* Starting a call leaves the families as they are.
LEMMA LineStarted ==
    ASSUME IInv, OrderlyInv, ~disturbed', NEW k \in Calls, NEW c \in Clients,
           LoginVerify(k, c) \/ Refresh(k, c) \/ BeginLogout(k, c)
    PROVE  LineInv'
<1>0. TypeOK /\ OneCallInv /\ LineInv /\ HeldInv
  BY DEF IInv, SessionsInv, OrderlyInv
<1>1. /\ \A j \in Calls : call[j].client # c
      /\ \A j \in Calls : j # k => call'[j] = call[j]
      /\ call[k] = NoCall /\ call'[k].client = c
      /\ UNCHANGED <<revoked_at, family, held, ended>>
      /\ \/ call'[k].pc \in {"open", "logout", "forget"}
         \/ held[c] \in Tokens /\ call'[k].token = held[c] /\ call'[k].pc = "rotate"
         \/ /\ held[c] \in Tokens /\ call'[k].token = held[c]
            /\ call'[k].pc \in {"lookup", "revoke"} /\ revoked_at[held[c]] # "null"
  BY <1>0, StartedCall
<1>2. ASSUME NEW d \in Clients, held'[d] # NoToken, \A j \in Calls : call'[j].client # d
      PROVE  (Heads({held[d]}, held[d]) /\ Lives(held[d], held[d]))'
  <2>1. \A j \in Calls : call[j].client # d
    BY SessionsAssumption, <1>1, <1>2 DEF NoCall, NewCall
  <2> QED
    BY <1>0, <1>1, <1>2, <2>1 DEF LineInv, Heads, Lives
<1>3. held[c] # NoToken => Heads({held[c]}, held[c]) /\ Lives(held[c], held[c])
  BY <1>0, <1>1 DEF LineInv
<1>4. ASSUME NEW j \in Calls
      PROVE  /\ call'[j].pc = "rotate" =>
                   (Heads({call[j].token}, call[j].token) /\ Lives(call[j].token, call[j].token))'
             /\ call'[j].pc = "insert" => Heads({}, call[j].token)'
             /\ call'[j].pc = "save" =>
                   /\ Heads({call[j].token, call[j].next}, call[j].token)'
                   /\ Lives(call[j].next, call[j].token)'
             /\ call'[j].pc = "answer" =>
                   (Heads({call[j].next}, call[j].next) /\ Lives(call[j].next, call[j].next))'
             /\ call'[j].pc \in {"lookup", "revoke"} =>
                   (Heads({}, call[j].token) /\ ended[family[call[j].token]] # "no")'
  <2>1. CASE j # k
    BY <1>0, <1>1, <2>1 DEF LineInv, Heads, Lives
  <2>2. CASE j = k
    BY SessionsAssumption, <1>1, <1>3, <2>2 DEF Heads, Lives
  <2> QED
    BY <2>1, <2>2
<1> QED
  BY <1>2, <1>4 DEF LineInv

\* So does ending some of them.
LEMMA LineEnded ==
    ASSUME IInv, OrderlyInv, NEW F \in SUBSET Tokens, End(F), UNCHANGED <<family, held>>,
           \A j \in Calls : \/ call'[j] = call[j]
                            \/ call'[j].pc = "forget" /\ call'[j].client = call[j].client
    PROVE  LineInv'
<1>0. TypeOK /\ CallsInv /\ HeldInv /\ FamiliesInv /\ LineInv /\ PresentedInv
  BY DEF IInv, SessionsInv, OrderlyInv
<1>1. \A t \in Tokens : revoked_at'[t] = "null" => revoked_at[t] = "null"
  BY EndTypes
<1>2. \A f \in Tokens : ended'[f] = "no" =>
          ended[f] = "no" /\ \A t \in Tokens : family[t] = f => revoked_at'[t] = revoked_at[t]
  BY <1>0 DEF TypeOK, End, Ended, Revoked
<1> QED
  BY SessionsAssumption, <1>0, <1>1, <1>2
     DEF LineInv, Heads, Lives, TypeOK, Call, CallsInv, HeldInv, FamiliesInv, PresentedInv

\* Every such step leaves a family active in the token its browser holds.
LEMMA LineStep ==
    ASSUME IInv, OrderlyInv, [Next]_vars, ~disturbed' PROVE LineInv'
<1> USE SessionsAssumption DEF TypeOK, Call, OrderlyInv, CallsInv, HeldInv, FamiliesInv, PresentedInv, OneCallInv, ApartInv, LineInv, Heads, Lives
<1>0. TypeOK /\ CallsInv /\ HeldInv /\ FamiliesInv /\ OrderlyInv /\ IInv
  BY DEF IInv, SessionsInv
<1>1. ASSUME NEW k \in Calls, NEW c \in Clients,
             LoginVerify(k, c) \/ Refresh(k, c) \/ BeginLogout(k, c)
      PROVE  LineInv'
  BY <1>1, LineStarted
<1>4. ASSUME NEW k \in Calls, NEW t \in Tokens, LoginInsert(k, t) PROVE LineInv'
  BY <1>0, <1>4 DEF LoginInsert, AnswerWith
<1>5. ASSUME NEW k \in Calls, NEW t \in Tokens, InsertSuccessor(k, t) PROVE LineInv'
  <2>1. PICK pc \in {"save", "answer"} :
           /\ call' = [call EXCEPT ![k] = [pc |-> pc, client |-> call[k].client,
                 token |-> IF pc = "save" THEN call[k].token ELSE NoToken, next |-> t]]
           /\ pc = "save" <=> call[k].pc = "rotate"
    BY <1>5 DEF InsertSuccessor, CallAt, AnswerWith
  <2>2. /\ call[k].pc \in {"rotate", "insert"} /\ revoked_at[t] = "absent"
        /\ revoked_at' = [revoked_at EXCEPT ![t] = "null"]
        /\ family' = [family EXCEPT ![t] = family[call[k].token]]
        /\ UNCHANGED <<held, ended>>
    BY <1>5 DEF InsertSuccessor
  <2>3. \A x \in Tokens : revoked_at[x] # "absent" => family'[x] = family[x] /\ revoked_at'[x] = revoked_at[x]
    BY <1>0, <2>2
  <2>4. ASSUME NEW c \in Clients, held[c] # NoToken, \A j \in Calls : call'[j].client # c
        PROVE  (Heads({held[c]}, held[c]) /\ Lives(held[c], held[c]))'
    BY <1>0, <2>1, <2>2, <2>3, <2>4
  <2>5. ASSUME NEW j \in Calls
        PROVE  /\ call'[j].pc = "rotate" =>
                     (Heads({call[j].token}, call[j].token) /\ Lives(call[j].token, call[j].token))'
               /\ call'[j].pc = "insert" => Heads({}, call[j].token)'
               /\ call'[j].pc = "save" =>
                     /\ Heads({call[j].token, call[j].next}, call[j].token)'
                     /\ Lives(call[j].next, call[j].token)'
               /\ call'[j].pc = "answer" =>
                     (Heads({call[j].next}, call[j].next) /\ Lives(call[j].next, call[j].next))'
               /\ call'[j].pc \in {"lookup", "revoke"} =>
                     (Heads({}, call[j].token) /\ ended[family[call[j].token]] # "no")'
    <3>1. CASE j # k
      BY <1>0, <2>1, <2>2, <2>3, <3>1
    <3>2. CASE j = k
      BY <1>0, <2>1, <2>2, <2>3, <3>2
    <3> QED
      BY <3>1, <3>2
  <2> QED
    BY <2>2, <2>4, <2>5
<1>6. ASSUME NEW k \in Calls, SaveRevoked(k) PROVE LineInv'
  BY <1>0, <1>6 DEF SaveRevoked, CallAt, AnswerWith
<1>7. ASSUME NEW k \in Calls, LookupFamily(k) PROVE LineInv'
  BY <1>0, <1>7 DEF LookupFamily, AnswerWith, Rejected, NewCall
<1>8. ASSUME NEW k \in Calls, RevokeFamily(k) PROVE LineInv'
  <2>1. {family[call[k].token]} \in SUBSET Tokens
    BY <1>0, <1>8 DEF RevokeFamily
  <2> QED
    BY <1>0, <1>8, <2>1, LineEnded DEF RevokeFamily, Rejected, NewCall
<1>9. ASSUME NEW k \in Calls, LogoutRevoke(k) PROVE LineInv'
  BY <1>0, <1>9, FamiliesAreTokens, LineEnded DEF LogoutRevoke, Rejected, NewCall
<1>10. ASSUME NEW k \in Calls, LogoutRefused(k) PROVE LineInv'
  BY <1>0, <1>10 DEF LogoutRefused, Rejected, NewCall
<1>11. ASSUME NEW k \in Calls, Answer(k) PROVE LineInv'
  BY <1>0, <1>11 DEF Answer, NoCall, NewCall
<1>12. ASSUME NEW k \in Calls, Forget(k) PROVE LineInv'
  BY <1>0, <1>12 DEF Forget, NoCall, NewCall
<1>13. ASSUME NEW t \in Tokens, GraceEnds(t) PROVE LineInv'
  BY <1>0, <1>13 DEF GraceEnds
<1>14. ASSUME ResetSave PROVE LineInv'
  BY <1>0, <1>14 DEF ResetSave
<1>15. ASSUME ResetRevoke PROVE LineInv'
  BY <1>0, <1>15, FamiliesAreTokens, LineEnded DEF ResetRevoke
<1>16. ASSUME ResetDies PROVE LineInv'
  BY <1>0, <1>16 DEF ResetDies
<1>17. ASSUME UNCHANGED vars PROVE LineInv'
  BY <1>0, <1>17 DEF vars
<1> HIDE DEF LineInv
<1> QED
  BY <1>1, <1>4, <1>5, <1>6, <1>7, <1>8, <1>9, <1>10, <1>11, <1>12, <1>13, <1>14, <1>15, <1>16, <1>17
     DEF Next, ResponseLost, CallDies, WriteFails

\* A step that activates no token and leaves the rotations alone makes no pair.
LEMMA PairKept ==
    ASSUME PairInv, UNCHANGED family,
           \A t \in Tokens : revoked_at'[t] = "null" => revoked_at[t] = "null",
           \A j \in Calls : call[j].pc = "save" => call'[j] = call[j]
    PROVE  PairInv'
BY DEF PairInv

\* Every such step leaves a family with one active token, or two in a rotation.
LEMMA PairStep ==
    ASSUME IInv, OrderlyInv, [Next]_vars, ~disturbed' PROVE PairInv'
<1>0. TypeOK /\ CallsInv /\ LineInv /\ PairInv
  BY DEF IInv, SessionsInv, OrderlyInv
<1>1. ASSUME NEW k \in Calls, NEW c \in Clients,
             LoginVerify(k, c) \/ Refresh(k, c) \/ BeginLogout(k, c)
      PROVE  PairInv'
  <2>1. \A j \in Calls : call[j].pc = "save" => call'[j] = call[j]
    BY <1>0, <1>1, StartedCall DEF NoCall, NewCall
  <2>2. UNCHANGED <<revoked_at, family>>
    BY <1>0, <1>1, StartedCall
  <2> QED
    BY <1>0, <2>1, <2>2, PairKept
<1>2. ASSUME NEW k \in Calls, NEW t \in Tokens, LoginInsert(k, t) PROVE PairInv'
  BY SessionsAssumption, <1>0, <1>2
     DEF LoginInsert, AnswerWith, PairInv, TypeOK, Call, OrderlyInv, FamiliesInv, IInv, SessionsInv
<1>3. ASSUME NEW k \in Calls, NEW t \in Tokens, InsertSuccessor(k, t) PROVE PairInv'
  BY SessionsAssumption, <1>0, <1>3
     DEF InsertSuccessor, CallAt, AnswerWith, PairInv, LineInv, Heads, CallsInv, TypeOK, Call, OrderlyInv, IInv, PresentedInv
<1>4. ASSUME NEW k \in Calls, SaveRevoked(k) PROVE PairInv'
  BY SessionsAssumption, <1>0, <1>4
     DEF SaveRevoked, CallAt, AnswerWith, PairInv, LineInv, Heads, CallsInv, TypeOK, Call
<1>5. ASSUME NEW k \in Calls, LookupFamily(k) PROVE PairInv'
  BY <1>0, <1>5, PairKept DEF LookupFamily, TypeOK, tokens
<1>6. ASSUME NEW k \in Calls, RevokeFamily(k) PROVE PairInv'
  <2>1. {family[call[k].token]} \in SUBSET Tokens
    BY <1>0, <1>6, SessionsAssumption DEF RevokeFamily, CallsInv, TypeOK
  <2> QED
    BY <1>0, <1>6, <2>1, EndTypes, PairKept DEF RevokeFamily, TypeOK
<1>7. ASSUME NEW k \in Calls, LogoutRevoke(k) PROVE PairInv'
  BY <1>0, <1>7, FamiliesAreTokens, EndTypes, PairKept DEF LogoutRevoke, TypeOK
<1>8. ASSUME NEW k \in Calls, LogoutRefused(k) PROVE PairInv'
  BY <1>0, <1>8, PairKept DEF LogoutRefused, TypeOK, tokens
<1>9. ASSUME NEW k \in Calls, Answer(k) \/ Forget(k) PROVE PairInv'
  BY <1>0, <1>9, PairKept DEF Answer, Forget, TypeOK, tokens
<1>10. ASSUME NEW t \in Tokens, GraceEnds(t) PROVE PairInv'
  BY <1>0, <1>10, PairKept DEF GraceEnds, TypeOK
<1>11. CASE ResetSave \/ ResetDies \/ UNCHANGED vars
  BY <1>0, <1>11, PairKept DEF ResetSave, ResetDies, vars, tokens
<1>12. ASSUME ResetRevoke PROVE PairInv'
  BY <1>0, <1>12, FamiliesAreTokens, EndTypes, PairKept DEF ResetRevoke
<1> QED
  BY <1>1, <1>2, <1>3, <1>4, <1>5, <1>6, <1>7, <1>8, <1>9, <1>10, <1>11, <1>12
     DEF Next, ResponseLost, CallDies, WriteFails

-----------------------------------------------------------------------------
(* The refinement: a family of tokens is a session of SessionLifecycle       *)

\* Whoever waits for a login is a browser, what a call carries is in the table,
\* and a family is named by a token of its own.
LifeInv ==
    /\ \A k \in Calls : call[k].pc = "open" => call[k].client \in Clients
    /\ \A k \in Calls : call[k].token \in Tokens => revoked_at[call[k].token] # "absent"
    /\ \A t \in Tokens : family[t] \in Tokens => family[family[t]] = family[t]

Live(f) == Active(f) # {} \/ Rotating(f)

\* A token is in the hands of a browser.
Has(c, t) ==
    \/ held[c] = t
    \/ \E k \in Calls : call[k].client = c /\ t \in {call[k].token, call[k].next}

\* What every session has to do for the whole to take a step.
LEMMA Evolve ==
    ASSUME \A f \in Tokens : \/ L!Opens(SessionOf(f), SessionOf(f)')
                             \/ L!Fades(SessionOf(f), SessionOf(f)')
    PROVE  L!Next
BY DEF L!Next

\* A session that does not come to life and that nobody gets hold of, fades.
LEMMA Fade ==
    ASSUME NEW f \in Tokens, family'[f] = f <=> family[f] = f,
           family[f] = f /\ Live(f)' => Live(f),
           family[f] = f => \A c \in Clients : Holds(c, f)' => Holds(c, f)
    PROVE  L!Fades(SessionOf(f), SessionOf(f)')
BY DEF L!Fades, SessionOf, Live

\* So do they all when no row becomes active, no rotation starts in a family
\* that is not live, and no browser gets a token it does not have.
LEMMA FadeAll ==
    ASSUME TypeOK, family' = family,
           \A t \in Tokens : revoked_at'[t] = "null" => revoked_at[t] = "null",
           \A j \in Calls : call'[j].pc \in {"rotate", "insert"} =>
               Live(family[call'[j].token]),
           \A j \in Calls : call'[j].client \in Clients =>
               \A t \in {call'[j].token, call'[j].next} : t # NoToken => Has(call'[j].client, t),
           \A c \in Clients : held'[c] # NoToken => Has(c, held'[c])
    PROVE  L!Next
<1> SUFFICES ASSUME NEW f \in Tokens PROVE L!Fades(SessionOf(f), SessionOf(f)')
  BY Evolve
<1>1. Live(f)' => Live(f)
  BY DEF Live, Active, Rotating
<1>2. ASSUME NEW c \in Clients, NEW t, Has(c, t), InFamily(t, f) PROVE Holds(c, f)
  BY <1>2 DEF Has, Holds
<1>3. ASSUME NEW c \in Clients, Holds(c, f)' PROVE Holds(c, f)
  <2>1. PICK t : InFamily(t, f) /\ Has(c, t)
    BY <1>3 DEF Holds, InFamily
  <2> QED
    BY <2>1, <1>2
<1> QED
  BY <1>1, <1>3, Fade

\* Revoking families activates no row.
LEMMA EndActivates ==
    ASSUME IInv, NEW F \in SUBSET Tokens, End(F)
    PROVE  \A t \in Tokens : revoked_at'[t] = "null" => revoked_at[t] = "null"
BY EndTypes

\* A login opens a session, for the browser that logged in.
LEMMA LoginOpens ==
    ASSUME IInv, LifeInv, NEW k \in Calls, NEW t \in Tokens, LoginInsert(k, t) PROVE L!Next
<1> USE SessionsAssumption
<1>0. TypeOK /\ CallsInv /\ HeldInv /\ FamiliesInv /\ call[k].client \in Clients
  BY DEF IInv, SessionsInv, LifeInv, LoginInsert
<1> SUFFICES ASSUME NEW f \in Tokens
             PROVE  \/ L!Opens(SessionOf(f), SessionOf(f)')
                    \/ L!Fades(SessionOf(f), SessionOf(f)')
  BY Evolve
<1>1. call' = [call EXCEPT ![k] = AnswerWith(k, t)] /\ held' = held
  BY DEF LoginInsert
<1>2. /\ family[t] = NoToken /\ family'[t] = t
      /\ \A u \in Tokens : u # t => family'[u] = family[u] /\ revoked_at'[u] = revoked_at[u]
      /\ \A u \in Tokens : family[u] # t
  BY <1>0 DEF LoginInsert, TypeOK, FamiliesInv
<1>3. \A j \in Calls : call[j].token # t /\ call[j].next # t
  BY <1>0 DEF LoginInsert, CallsInv, LifeInv
<1>4. \A c \in Clients : held[c] # t
  BY <1>0 DEF LoginInsert, HeldInv
<1>5. \A j \in Calls : j # k => call'[j] = call[j]
  BY <1>0, <1>1 DEF TypeOK
<1>6. call'[k].client = call[k].client /\ call'[k].token = NoToken /\ call'[k].next = t
      /\ call'[k].pc = "answer"
  BY <1>0, <1>1 DEF TypeOK, AnswerWith
<1>7. CASE f = t
  <2>1. SessionOf(f) = L!Unopened
    BY <1>2, <1>7 DEF SessionOf, L!Unopened
  <2>2. Active(f)' # {}
    <3>1. t \in Active(f)'
      BY <1>0, <1>2, <1>7 DEF Active, LoginInsert, TypeOK
    <3> QED
      BY <3>1
  <2>3. ASSUME NEW c \in Clients PROVE Holds(c, f)' <=> c = call[k].client
    <3>1. CASE c = call[k].client
      <4>1. call'[k].client = c /\ InFamily(call[k].next, f)'
        BY <1>2, <1>6, <1>7, <3>1 DEF InFamily
      <4> QED
        BY <4>1, <3>1 DEF Holds
    <3>2. CASE c # call[k].client
      <4>1. \A u \in Tokens : u # t => family'[u] # f
        BY <1>2, <1>7
      <4>2. ~InFamily(held[c], f)'
        BY <1>0, <1>1, <1>4, <4>1 DEF InFamily, TypeOK
      <4>3. ASSUME NEW j \in Calls, call'[j].client = c
            PROVE  ~InFamily(call[j].token, f)' /\ ~InFamily(call[j].next, f)'
        <5>1. j # k
          BY <1>6, <3>2, <4>3
        <5> QED
          BY <1>0, <1>3, <1>5, <4>1, <5>1, CallFields DEF InFamily
      <4> QED
        BY <1>1, <3>2, <4>2, <4>3 DEF Holds
    <3> QED
      BY <3>1, <3>2
  <2>4. SessionOf(f)' = [state |-> "live", holders |-> {call[k].client}]
    <3>1. {c \in Clients : Holds(c, f)'} = {call[k].client}
      BY <1>0, <2>3
    <3> QED
      BY <1>2, <1>7, <2>2, <3>1 DEF SessionOf
  <2> QED
    BY <1>0, <2>1, <2>4 DEF L!Opens
<1>8. CASE f # t
  <2>1. family'[f] = f <=> family[f] = f
    BY <1>2, <1>8
  <2>2. ASSUME family[f] = f, Live(f)' PROVE Live(f)
    <3>1. CASE Active(f)' # {}
      BY <1>2, <1>8, <3>1 DEF Active, Live
    <3>2. CASE Rotating(f)'
      <4>1. PICK j \in Calls : call'[j].pc \in {"rotate", "insert"} /\ family'[call'[j].token] = f
        BY <3>2 DEF Rotating
      <4>2. j # k
        BY <1>6, <4>1
      <4>3. call[j].pc \in {"rotate", "insert"} /\ call[j].token \in Tokens /\ call[j].token # t
        BY <1>0, <1>3, <1>5, <4>1, <4>2 DEF CallsInv
      <4> QED
        BY <1>2, <1>5, <4>1, <4>2, <4>3 DEF Live, Rotating
    <3> QED
      BY <2>2, <3>1, <3>2 DEF Live
  <2>3. ASSUME NEW c \in Clients, Holds(c, f)' PROVE Holds(c, f)
    <3>1. ASSUME NEW u \in Tokens \cup {NoToken}, InFamily(u, f)' PROVE u # t /\ InFamily(u, f)
      BY <1>2, <1>8, <3>1 DEF InFamily
    <3>2. ASSUME InFamily(held[c], f)' PROVE InFamily(held[c], f)
      BY <1>0, <1>1, <3>1, <3>2 DEF TypeOK, InFamily
    <3>3. ASSUME NEW j \in Calls, call'[j].client = c,
                 InFamily(call[j].token, f)' \/ InFamily(call[j].next, f)'
          PROVE  call[j].client = c /\ (InFamily(call[j].token, f) \/ InFamily(call[j].next, f))
      <4>1. j # k
        BY <1>2, <1>6, <1>8, <3>3 DEF InFamily
      <4> QED
        BY <1>0, <1>5, <3>1, <3>3, <4>1, CallFields DEF InFamily
    <3> QED
      BY <1>1, <2>3, <3>2, <3>3 DEF Holds, InFamily
  <2> QED
    BY <2>1, <2>2, <2>3, Fade
<1> QED
  BY <1>7, <1>8

\* The successor joins a session that was live, in the hands of the browser that
\* has the token it takes over from.
LEMMA SuccessorFades ==
    ASSUME IInv, LifeInv, NEW k \in Calls, NEW t \in Tokens, InsertSuccessor(k, t) PROVE L!Next
<1> USE SessionsAssumption
<1> DEFINE F == family[call[k].token]
<1>0. TypeOK /\ CallsInv /\ HeldInv /\ FamiliesInv /\ LifeInv
  BY DEF IInv, SessionsInv
<1> SUFFICES ASSUME NEW f \in Tokens PROVE L!Fades(SessionOf(f), SessionOf(f)')
  BY Evolve
<1>1. /\ call[k].token \in Tokens /\ revoked_at[call[k].token] # "absent"
      /\ F \in Tokens /\ revoked_at[F] # "absent" /\ F # t /\ Rotating(F)
      /\ call[k].token # t
  BY <1>0 DEF InsertSuccessor, CallsInv, FamiliesInv, TypeOK, Rotating
<1>2. /\ family[t] = NoToken /\ family'[t] = F
      /\ \A u \in Tokens : u # t => family'[u] = family[u] /\ revoked_at'[u] = revoked_at[u]
  BY <1>0, <1>1 DEF InsertSuccessor, TypeOK
<1>3. /\ \A j \in Calls : call[j].token # t /\ call[j].next # t
      /\ \A c \in Clients : held[c] # t
  BY <1>0 DEF InsertSuccessor, CallsInv, LifeInv, HeldInv
<1>4. held' = held /\ \A j \in Calls : j # k => call'[j] = call[j]
  BY <1>0 DEF InsertSuccessor, TypeOK
<1>5. call'[k].client = call[k].client /\ call'[k].token \in {call[k].token, NoToken}
      /\ call'[k].next = t /\ call'[k].pc \in {"save", "answer"}
  BY <1>0 DEF InsertSuccessor, TypeOK, CallAt, AnswerWith
<1>6. family'[f] = f <=> family[f] = f
  BY <1>1, <1>2
<1>7. ASSUME family[f] = f, Live(f)' PROVE Live(f)
  <2>1. CASE f = F
    BY <1>1, <2>1 DEF Live
  <2>2. CASE f # F /\ Active(f)' # {}
    BY <1>2, <2>2 DEF Active, Live
  <2>3. CASE f # F /\ Rotating(f)'
    <3>1. PICK j \in Calls : call'[j].pc \in {"rotate", "insert"} /\ family'[call'[j].token] = f
      BY <2>3 DEF Rotating
    <3>2. j # k /\ call[j].pc \in {"rotate", "insert"} /\ call[j].token = call'[j].token
      BY <1>4, <1>5, <3>1
    <3>3. call[j].token \in Tokens /\ call[j].token # t
      BY <1>0, <1>3, <3>2 DEF CallsInv
    <3> QED
      BY <1>2, <3>1, <3>2, <3>3 DEF Live, Rotating
  <2> QED
    BY <1>7, <2>1, <2>2, <2>3 DEF Live
<1>8. ASSUME NEW c \in Clients, Holds(c, f)' PROVE Holds(c, f)
  <2>1. ASSUME NEW u \in Tokens \cup {NoToken}, u # t, InFamily(u, f)' PROVE InFamily(u, f)
    BY <1>2, <2>1 DEF InFamily
  <2>2. CASE InFamily(held[c], f)'
    BY <1>0, <1>3, <1>4, <2>1, <2>2 DEF TypeOK, Holds, InFamily
  <2>3. ASSUME NEW j \in Calls, j # k, call'[j].client = c,
               InFamily(call[j].token, f)' \/ InFamily(call[j].next, f)'
        PROVE  Holds(c, f)
    <3>1. InFamily(call[j].token, f) \/ InFamily(call[j].next, f)
      BY <1>0, <1>3, <1>4, <2>1, <2>3, CallFields DEF InFamily
    <3> QED
      BY <1>4, <2>3, <3>1 DEF Holds
  <2>4. ASSUME call'[k].client = c,
               InFamily(call[k].token, f)' \/ InFamily(call[k].next, f)'
        PROVE  Holds(c, f)
    <3>1. f = F
      BY <1>1, <1>2, <1>5, <2>4 DEF InFamily
    <3>2. InFamily(call[k].token, f)
      BY <1>1, <3>1 DEF InFamily
    <3> QED
      BY <1>5, <2>4, <3>2 DEF Holds
  <2> QED
    BY <1>8, <2>2, <2>3, <2>4 DEF Holds, InFamily
<1> QED
  BY <1>6, <1>7, <1>8, Fade

\* Every other step lets sessions fade.
LEMMA RefineStep ==
    ASSUME IInv, LifeInv, [Next]_vars
    PROVE  L!Next \/ UNCHANGED [f \in Tokens |-> SessionOf(f)]
<1> USE SessionsAssumption DEF TypeOK
<1>0. TypeOK /\ CallsInv /\ LifeInv
  BY DEF IInv, SessionsInv
<1>a. \A j \in Calls : /\ call[j].token # NoToken => Has(call[j].client, call[j].token)
                       /\ call[j].next # NoToken => Has(call[j].client, call[j].next)
                       /\ call[j].pc \in {"rotate", "insert"} => Live(family[call[j].token])
  BY DEF Has, Live, Rotating
<1>b. \A c \in Clients : held[c] # NoToken => Has(c, held[c])
  BY DEF Has
<1>1. ASSUME NEW k \in Calls, NEW c \in Clients, LoginVerify(k, c) PROVE L!Next
  BY <1>0, <1>a, <1>b, <1>1, FadeAll DEF LoginVerify, NewCall
<1>2. ASSUME NEW k \in Calls, NEW c \in Clients, Refresh(k, c) PROVE L!Next
  <2>1. PICK pc \in {"forget", "rotate", "lookup", "revoke"}, t \in {NoToken, held[c]} :
            /\ call' = [call EXCEPT ![k] = NewCall(pc, c, t)]
            /\ pc = "rotate" => t = held[c] /\ revoked_at[t] = "null"
    BY <1>0, <1>2 DEF Refresh
  <2>2. pc = "rotate" => Live(family[t])
    BY <1>0, <1>2, <2>1 DEF Live, Active, Refresh
  <2> QED
    BY <1>0, <1>2, <1>a, <1>b, <2>1, <2>2, FadeAll DEF Refresh, NewCall
<1>3. ASSUME NEW k \in Calls, NEW c \in Clients, BeginLogout(k, c) PROVE L!Next
  BY <1>0, <1>a, <1>b, <1>3, FadeAll DEF BeginLogout, NewCall
<1>4. ASSUME NEW k \in Calls, NEW t \in Tokens, LoginInsert(k, t) PROVE L!Next
  BY <1>0, <1>4, LoginOpens
<1>5. ASSUME NEW k \in Calls, NEW t \in Tokens, InsertSuccessor(k, t) PROVE L!Next
  BY <1>0, <1>5, SuccessorFades
<1>6. ASSUME NEW k \in Calls, SaveRevoked(k) PROVE L!Next
  BY <1>0, <1>a, <1>b, <1>6, FadeAll DEF SaveRevoked, CallAt, AnswerWith
<1>7. ASSUME NEW k \in Calls, LookupFamily(k) PROVE L!Next
  BY <1>0, <1>a, <1>b, <1>7, FadeAll DEF LookupFamily, AnswerWith, Rejected, NewCall
<1>8. ASSUME NEW k \in Calls, RevokeFamily(k) PROVE L!Next
  <2>1. {family[call[k].token]} \in SUBSET Tokens
    BY <1>0, <1>8 DEF RevokeFamily, CallsInv
  <2> QED
    BY <1>0, <1>a, <1>b, <1>8, <2>1, EndActivates, FadeAll DEF RevokeFamily, Rejected, NewCall
<1>9. ASSUME NEW k \in Calls, LogoutRevoke(k) PROVE L!Next
  BY <1>0, <1>a, <1>b, <1>9, FamiliesAreTokens, EndActivates, FadeAll
     DEF LogoutRevoke, Rejected, NewCall
<1>10. ASSUME NEW k \in Calls, LogoutRefused(k) PROVE L!Next
  BY <1>0, <1>a, <1>b, <1>10, FadeAll DEF LogoutRefused, Rejected, NewCall
<1>11. ASSUME NEW k \in Calls, Answer(k) PROVE L!Next
  BY <1>0, <1>a, <1>b, <1>11, FadeAll DEF Answer, NoCall, NewCall
<1>12. ASSUME NEW k \in Calls, Forget(k) PROVE L!Next
  BY <1>0, <1>a, <1>b, <1>12, FadeAll DEF Forget, NoCall, NewCall
<1>13. ASSUME NEW k \in Calls, ResponseLost(k) PROVE L!Next
  BY <1>0, <1>a, <1>b, <1>13, FadeAll DEF ResponseLost, NoCall, NewCall
<1>14. ASSUME NEW k \in Calls, CallDies(k) PROVE L!Next
  BY <1>0, <1>a, <1>b, <1>14, FadeAll DEF CallDies, NoCall, NewCall
<1>15. ASSUME NEW k \in Calls, WriteFails(k) PROVE L!Next
  BY <1>0, <1>a, <1>b, <1>15, FadeAll DEF WriteFails, Orphaned
<1>16. ASSUME NEW t \in Tokens, GraceEnds(t) PROVE L!Next
  BY <1>0, <1>a, <1>b, <1>16, FadeAll DEF GraceEnds
<1>17. ASSUME ResetSave \/ ResetDies PROVE L!Next
  BY <1>0, <1>a, <1>b, <1>17, FadeAll DEF ResetSave, ResetDies
<1>18. ASSUME ResetRevoke PROVE L!Next
  BY <1>0, <1>a, <1>b, <1>18, FamiliesAreTokens, EndActivates, FadeAll DEF ResetRevoke
<1>19. ASSUME UNCHANGED vars PROVE UNCHANGED [f \in Tokens |-> SessionOf(f)]
  BY <1>19 DEF vars, SessionOf, Active, Rotating, Holds, InFamily
<1> HIDE DEF TypeOK
<1> QED
  BY <1>1, <1>2, <1>3, <1>4, <1>5, <1>6, <1>7, <1>8, <1>9, <1>10, <1>11, <1>12, <1>13, <1>14, <1>15, <1>16, <1>17, <1>18, <1>19 DEF Next

\* Every step keeps what that needs.
LEMMA LifeStep == ASSUME IInv, LifeInv, [Next]_vars PROVE LifeInv'
<1> USE SessionsAssumption DEF TypeOK, LifeInv
<1>0. TypeOK /\ CallsInv /\ HeldInv /\ FamiliesInv
  BY DEF IInv, SessionsInv
<1>1. ASSUME NEW k \in Calls, NEW c \in Clients, LoginVerify(k, c) PROVE LifeInv'
  BY <1>0, <1>1 DEF LoginVerify, NewCall
<1>2. ASSUME NEW k \in Calls, NEW c \in Clients, Refresh(k, c) PROVE LifeInv'
  BY <1>0, <1>2 DEF Refresh, SeesExpired, SeesValid, NewCall, HeldInv
<1>3. ASSUME NEW k \in Calls, NEW c \in Clients, BeginLogout(k, c) PROVE LifeInv'
  BY <1>0, <1>3 DEF BeginLogout, NewCall
<1>4. ASSUME NEW k \in Calls, NEW t \in Tokens, LoginInsert(k, t) PROVE LifeInv'
  BY <1>0, <1>4 DEF LoginInsert, AnswerWith, FamiliesInv
<1>5. ASSUME NEW k \in Calls, NEW t \in Tokens, InsertSuccessor(k, t) PROVE LifeInv'
  BY <1>0, <1>5 DEF InsertSuccessor, CallAt, AnswerWith, FamiliesInv, CallsInv
<1>6. ASSUME NEW k \in Calls, SaveRevoked(k) PROVE LifeInv'
  BY <1>0, <1>6 DEF SaveRevoked, CallAt, AnswerWith
<1>7. ASSUME NEW k \in Calls, LookupFamily(k) PROVE LifeInv'
  BY <1>0, <1>7 DEF LookupFamily, AnswerWith, Rejected, NewCall
<1>8. ASSUME NEW k \in Calls, RevokeFamily(k) PROVE LifeInv'
  <2>1. {family[call[k].token]} \in SUBSET Tokens
    BY <1>0, <1>8 DEF RevokeFamily, CallsInv
  <2> QED
    BY <1>0, <1>8, <2>1, EndTypes DEF RevokeFamily, Rejected, NewCall
<1>9. ASSUME NEW k \in Calls, LogoutRevoke(k) PROVE LifeInv'
  BY <1>0, <1>9, FamiliesAreTokens, EndTypes DEF LogoutRevoke, Rejected, NewCall
<1>10. ASSUME NEW k \in Calls, LogoutRefused(k) PROVE LifeInv'
  BY <1>0, <1>10 DEF LogoutRefused, Rejected, NewCall
<1>11. ASSUME NEW k \in Calls, Answer(k) \/ Forget(k) PROVE LifeInv'
  BY <1>0, <1>11 DEF Answer, Forget, NoCall, NewCall
<1>12. ASSUME NEW k \in Calls, ResponseLost(k) \/ CallDies(k) PROVE LifeInv'
  BY <1>0, <1>12 DEF ResponseLost, CallDies, NoCall, NewCall
<1>13. ASSUME NEW k \in Calls, WriteFails(k) PROVE LifeInv'
  BY <1>0, <1>13 DEF WriteFails, Orphaned
<1>14. ASSUME NEW t \in Tokens, GraceEnds(t) PROVE LifeInv'
  BY <1>0, <1>14 DEF GraceEnds
<1>15. ASSUME ResetSave \/ ResetDies PROVE LifeInv'
  BY <1>0, <1>15 DEF ResetSave, ResetDies
<1>16. ASSUME ResetRevoke PROVE LifeInv'
  BY <1>0, <1>16, FamiliesAreTokens, EndTypes DEF ResetRevoke
<1>17. ASSUME UNCHANGED vars PROVE LifeInv'
  BY <1>0, <1>17 DEF vars
<1> HIDE DEF TypeOK, LifeInv
<1> QED
  BY <1>1, <1>2, <1>3, <1>4, <1>5, <1>6, <1>7, <1>8, <1>9, <1>10, <1>11, <1>12, <1>13, <1>14, <1>15, <1>16, <1>17 DEF Next

-----------------------------------------------------------------------------
(* The theorems *)

\* The inductive invariant holds in every reachable state.
THEOREM Invariance == Spec => []IInv
<1>1. IInv /\ [Next]_vars => IInv'
  BY TypeStep, InvStep
<1> QED
  BY InvInit, <1>1, PTL DEF Spec

\* Rows, cookies and calls stay within their types, whatever interleaves.
THEOREM TypeCorrect == Spec => []TypeOK
<1>1. IInv => TypeOK
  BY DEF IInv
<1> QED
  BY Invariance, <1>1, PTL

\* logout, resetPassword and the reuse branch of refresh end for good every
\* session of which no rotation is under way at that moment.
THEOREM EndedForGood == Spec => []EndedSessionsStayEnded
<1>1. IInv => EndedSessionsStayEnded
  BY QuietFamilies
<1> QED
  BY Invariance, <1>1, PTL

\* A disturbance is never forgotten.
LEMMA PastStays == ASSUME [Next]_vars, TypeOK PROVE disturbed => disturbed'
<1> USE DEF TypeOK
<1>1. ASSUME NEW k \in Calls, NEW c \in Clients,
             LoginVerify(k, c) \/ Refresh(k, c) \/ BeginLogout(k, c)
      PROVE  disturbed => disturbed'
  <2>1. Start(k, c)
    BY <1>1 DEF LoginVerify, Refresh, BeginLogout
  <2> QED
    BY <2>1 DEF Start
<1> QED
  BY <1>1 DEF Next, LoginInsert, InsertSuccessor, SaveRevoked, LookupFamily, RevokeFamily,
     LogoutRevoke, LogoutRefused, Answer, Forget, ResponseLost, CallDies, WriteFails,
     GraceEnds, ResetSave, ResetRevoke, ResetDies, vars

\* While no browser overlaps its calls and no call comes to nothing, a family
\* is active in exactly the token that its browser holds or is about to hold.
THEOREM Orderly == Spec => [](~disturbed => OrderlyInv)
<1>1. Init => OrderlyInv
  BY SessionsAssumption DEF Init, OrderlyInv, OneCallInv, PresentedInv, ApartInv, LineInv,
     PairInv, NoCall, NewCall
<1>2. IInv /\ (~disturbed => OrderlyInv) /\ [Next]_vars => (~disturbed => OrderlyInv)'
  <2> SUFFICES ASSUME IInv, ~disturbed => OrderlyInv, [Next]_vars, ~disturbed'
               PROVE  OrderlyInv'
    OBVIOUS
  <2>1. OrderlyInv
    BY PastStays DEF IInv
  <2> QED
    BY <2>1, OneCallStep, PresentedStep, ApartStep, LineStep, PairStep DEF OrderlyInv
<1> QED
  BY <1>1, <1>2, Invariance, PTL DEF Spec

\* One token of a family is active, and a second one at most until the write that
\* revokes the first (auth.service.ts:225-228).
THEOREM OneActive == Spec => []OneActivePerFamily
<1>1. IInv /\ (~disturbed => OrderlyInv) => OneActivePerFamily
  <2> SUFFICES ASSUME IInv, OrderlyInv, NEW f \in Tokens
               PROVE  Cardinality({t \in Active(f) :
                   ~ \E k \in Calls : call[k].pc = "save" /\ call[k].token = t}) <= 1
    BY DEF OneActivePerFamily
  <2> DEFINE S == {t \in Active(f) :
                   ~ \E k \in Calls : call[k].pc = "save" /\ call[k].token = t}
  <2>1. \A s, t \in S : s = t
    BY DEF OrderlyInv, PairInv, Active
  <2> HIDE DEF S
  <2>2. ASSUME NEW t, S = {t} PROVE Cardinality(S) <= 1
    <3>1. Cardinality({t}) = 1
      BY FS_Singleton
    <3> QED
      BY <2>2, <3>1
  <2>3. S = {} => Cardinality(S) <= 1
    BY FS_EmptySet
  <2>4. S = {} \/ \E t : S = {t}
    BY <2>1
  <2>5. Cardinality(S) <= 1
    BY <2>2, <2>3, <2>4
  <2> QED
    BY <2>5 DEF S
<1> QED
  BY <1>1, Invariance, Orderly, PTL

\* A browser at rest holds the active token of its family, so that its next
\* refresh rotates (auth.service.ts:206-234).
THEOREM IdleHoldsActive == Spec => []IdleClientHoldsActive
<1>1. IInv /\ (~disturbed => OrderlyInv) => IdleClientHoldsActive
  <2> SUFFICES ASSUME IInv, OrderlyInv, NEW c \in Clients, held[c] # NoToken,
                      \A k \in Calls : call[k].client # c, ended[family[held[c]]] = "no"
               PROVE  Active(family[held[c]]) = {held[c]}
    BY DEF IdleClientHoldsActive
  <2>1. Heads({held[c]}, held[c]) /\ Lives(held[c], held[c]) /\ held[c] \in Tokens
    BY DEF OrderlyInv, LineInv, IInv, TypeOK
  <2> QED
    BY <2>1 DEF Heads, Lives, Active
<1> QED
  BY <1>1, Invariance, Orderly, PTL

\* Reuse is detected only in a family that was revoked as a whole: never, that
\* is, of a session that is in use (auth.service.ts:180-204).
THEOREM NoFalseAlarm == Spec => []AlarmsAreTrue
<1>1. IInv /\ (~disturbed => OrderlyInv) => AlarmsAreTrue
  BY DEF AlarmsAreTrue, OrderlyInv, LineInv
<1> QED
  BY <1>1, Invariance, Orderly, PTL

\* The rows of table refresh_tokens and the calls that work on them, under every
\* interleaving and failure, implement sessions that are opened once, end once
\* and never change hands.
THEOREM Implementation == Spec => ImplementsSessions
<1>1. Init => LifeInv /\ L!Init
  <2> SUFFICES ASSUME Init PROVE LifeInv /\ L!Init
    OBVIOUS
  <2>1. LifeInv
    BY SessionsAssumption DEF Init, LifeInv, NoCall, NewCall
  <2>2. \A f \in Tokens : SessionOf(f) = L!Unopened
    BY SessionsAssumption DEF Init, SessionOf, L!Unopened
  <2> QED
    BY <2>1, <2>2 DEF L!Init
<1>2. IInv /\ LifeInv /\ [Next]_vars => LifeInv'
  BY LifeStep
<1>3. IInv /\ LifeInv /\ [Next]_vars => [L!Next]_([f \in Tokens |-> SessionOf(f)])
  BY RefineStep
<1> QED
  BY <1>1, <1>2, <1>3, Invariance, PTL DEF Spec, ImplementsSessions, L!Spec

\* No two browsers ever have tokens of one session, not even after answers are
\* lost, calls die or a reset comes in between (auth.service.ts:150-234).
THEOREM NeverShared == Spec => []L!HeldByOne
BY Implementation, L!OneHolder DEF ImplementsSessions
=============================================================================
