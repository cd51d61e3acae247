--------------------------- MODULE AuthFormsProofs ---------------------------
(***************************************************************************)
(* Proofs about the forms.  The inductive invariant says what a form, the  *)
(* call it waits for and the account know of each other:                   *)
(*   Linked   a waiting form has a call of its own, about what it asked;   *)
(*   CallsOk  what the point a call has reached tells of the account;      *)
(*   Makers   an account is made by one call and told of by one form;      *)
(*   Screens  what a form shows;                                           *)
(*   Pinned   a token keeps its account from being deleted.                *)
(***************************************************************************)
EXTENDS AuthForms, FiniteSetTheorems, TLAPS

\* The account was there when an answer said so.
Claimed(e) == e \in Emails /\ (Exists(e) \/ e \in undone)

Linked ==
    /\ \A f \in Forms : Waits(f) =>
          /\ form[f].view # "success"
          /\ call[form[f].call].pc # "idle"
          /\ call[form[f].call].kind = form[f].kind
          /\ call[form[f].call].email = asked[f]
          /\ error[f].email # "server" /\ error[f].root = "none"
    /\ \A f, g \in Forms : f # g /\ Waits(f) => form[f].call # form[g].call

AnswerOk(c) ==
    /\ c.status = 200 => c.kind = "login" /\ c.email \in named
    /\ c.status = 201 => /\ c.kind = "signup" /\ c.email \in Emails
                         /\ Exists(c.email)
    /\ c.status = 204 => c.kind = "forgot"
    /\ c.status = 400 /\ c.kind # "signup" => c.email = Unusual
    /\ c.status = 403 => c.kind = "login" /\ Claimed(c.email)
    /\ c.status = 409 => c.kind = "signup" /\ Claimed(c.email)

CallOk(c) ==
    /\ c.pc = "sent" => c.email # NoEmail /\ SchemaTakes(c.kind, c.password)
    /\ c.pc \in {"found", "saved"} => c.kind = "signup" /\ c.email \in Emails
    /\ c.pc = "saved" => Exists(c.email)
    /\ c.pc = "answered" => AnswerOk(c)

CallsOk == \A k \in Calls : CallOk(call[k])

\* c has made an account and no form has told of it yet.
Making(c) == c.pc = "saved" \/ (c.pc = "answered" /\ c.status = 201)

Makers ==
    /\ \A j, k \in Calls : j # k /\ Making(call[j]) /\ Making(call[k])
                           => call[j].email # call[k].email
    /\ \A f \in Forms, k \in Calls : Created(f) /\ Making(call[k])
                           => asked[f] # call[k].email
    /\ \A f, g \in Forms : f # g /\ Created(f) /\ Created(g)
                           => asked[f] # asked[g]

Hints(f) ==
    /\ form[f].kind = "signup" /\ error[f].email = "server" => Claimed(asked[f])
    /\ form[f].kind # "signup" /\ error[f].email = "server" => asked[f] = Unusual
    /\ error[f].root = "confirmation" => Claimed(asked[f])
    /\ error[f].email # "server" \/ error[f].root = "none"
    /\ Created(f) => asked[f] \in Emails /\ Exists(asked[f])

Checked(f) ==
    /\ form[f].view = "fresh" => error[f] = NoError
    /\ form[f].view = "fresh" /\ Waits(f) /\ f \notin blind => Errors(f) = NoError
    /\ form[f].view = "submitted" /\ f \notin blind =>
          /\ field[f].email = NoEmail => error[f].email # "none"
          /\ error[f].email = "schema" => field[f].email = NoEmail
          /\ error[f].password = PasswordError(form[f].kind, field[f].password)

Screens == \A f \in Forms : Hints(f) /\ Checked(f)

\* A token pins its account: a confirmed account has one, and so has that of
\* whoever is signed in.
Pinned ==
    /\ \A e \in named : Exists(e)
    /\ \A e \in Emails : account[e] = "confirmed" => e \in named
    /\ cookie \in Emails => cookie \in named

IInv == TypeOK /\ Linked /\ CallsOk /\ Makers /\ Screens /\ Pinned

-----------------------------------------------------------------------------
(* Facts about the records.                                                 *)

\* The initial records have their types.
LEMMA Records ==
    ASSUME FormsAssumption
    PROVE  /\ Empty \in Field /\ NoError \in Error /\ IdleCall \in Call
           /\ \A kind \in Kinds : Opened(kind) \in Form
  BY DEF FormsAssumption, Empty, Field, NoError, Error, IdleCall, Call, Opened, Form,
         Kinds, Email, Password, Blank, Statuses

\* A form keeps its kind when its view and its call change.
LEMMA FormAtType ==
    ASSUME TypeOK, NEW f \in Forms, NEW view \in {"fresh", "submitted", "success"},
           NEW k \in Calls \cup {NoCall}
    PROVE  /\ FormAt(f, view, k) \in Form
           /\ FormAt(f, view, k).kind = form[f].kind
           /\ FormAt(f, view, k).view = view /\ FormAt(f, view, k).call = k
  <1>1. form[f].kind \in Kinds BY DEF TypeOK, Form
  <1> QED BY <1>1 DEF FormAt, Form

\* A call keeps what was sent when it moves on.
LEMMA CallAtType ==
    ASSUME TypeOK, NEW k \in Calls, NEW status \in Statuses,
           NEW pc \in {"idle", "sent", "found", "saved", "answered"}
    PROVE  /\ CallAt(k, pc, status) \in Call
           /\ CallAt(k, pc, status).pc = pc
           /\ CallAt(k, pc, status).status = status
           /\ CallAt(k, pc, status).kind = call[k].kind
           /\ CallAt(k, pc, status).email = call[k].email
  <1>1. /\ call[k].kind \in Kinds /\ call[k].email \in Email
        /\ call[k].password \in Password
    BY DEF TypeOK, Call
  <1> QED BY <1>1 DEF CallAt, Call

\* What a failure adds to the errors of a form that waits.
LEMMA ErrorForType ==
    ASSUME NEW kind \in Kinds, NEW status \in Statuses, NEW e \in Error,
           e.email # "server", e.root = "none"
    PROVE  LET x == ErrorFor(kind, status, e)
           IN /\ x \in Error
              /\ x.password = e.password
              /\ x.email \in {e.email, "server"}
              /\ x.email # "server" \/ x.root = "none"
              /\ x.email = "server" => status = (IF kind = "signup" THEN 409 ELSE 400)
              /\ x.root = "confirmation" => status = 403
  <1>1. /\ e.password \in {"none", "schema"} /\ e.email \in {"none", "schema", "server"}
        /\ e.root \in {"none", "serverError", "confirmation"}
    BY DEF Error
  <1>2. /\ AtEmail(e) \in Error /\ AtEmail(e).password = e.password
        /\ AtEmail(e).email = "server" /\ AtEmail(e).root = "none"
    BY <1>1 DEF AtEmail, Error
  <1>3. \A r \in {"serverError", "confirmation"} :
           /\ AtRoot(e, r) \in Error /\ AtRoot(e, r).password = e.password
           /\ AtRoot(e, r).email = e.email /\ AtRoot(e, r).root = r
    BY <1>1 DEF AtRoot, Error
  <1> HIDE DEF AtEmail, AtRoot
  <1>4. CASE kind = "signup"
    <2>1. ErrorFor(kind, status, e) = SignupError(status, e) BY <1>4 DEF ErrorFor
    <2> QED BY <1>2, <1>3, <1>4, <2>1 DEF SignupError
  <1>5. CASE kind = "login"
    <2>1. ErrorFor(kind, status, e) = LoginError(status, e) BY <1>5 DEF ErrorFor
    <2> QED BY <1>2, <1>3, <1>5, <2>1 DEF LoginError
  <1>6. CASE kind = "forgot"
    <2>1. ErrorFor(kind, status, e) = ForgotError(status, e) BY <1>6 DEF ErrorFor
    <2> QED BY <1>2, <1>3, <1>6, <2>1 DEF ForgotError
  <1> QED BY <1>4, <1>5, <1>6 DEF Kinds

\* What the schema says of the fields is never a refusal.
LEMMA ErrorsType ==
    ASSUME NEW f \in Forms
    PROVE  /\ Errors(f) \in Error /\ Errors(f).root = "none" /\ Errors(f).email # "server"
           /\ Errors(f).email = EmailError(field[f].email)
           /\ Errors(f).password = PasswordError(form[f].kind, field[f].password)
  BY DEF Errors, Error, EmailError, PasswordError

-----------------------------------------------------------------------------
(* Steps of a call: it moves on, or its answer is dropped.                  *)

ScreenKept == UNCHANGED <<form, field, error, asked, blind>>

Moves(k, c) ==
    /\ c \in Call
    /\ call' = [call EXCEPT ![k] = c]
    /\ \/ c = IdleCall /\ Abandoned(k)
       \/ c.pc # "idle" /\ c.kind = call[k].kind /\ c.email = call[k].email
    /\ ScreenKept

\* No account is deleted, and no token.
Grows ==
    /\ \A e \in Emails : Exists(e) => Exists(e)'
    /\ undone \subseteq undone' /\ named \subseteq named'

\* Tokens and sessions that stay, or a session for an account with a token.
LEMMA PinnedKept ==
    ASSUME Pinned, UNCHANGED users,
           cookie' = cookie \/ (cookie' \in Emails => cookie' \in named)
    PROVE  Pinned'
  BY DEF Pinned, users, Exists

\* A call that moves leaves the others alone.
LEMMA CallIn ==
    ASSUME TypeOK, NEW k \in Calls, NEW c, Moves(k, c)
    PROVE  call'[k] = c /\ \A j \in Calls \ {k} : call'[j] = call[j]
  BY DEF TypeOK, Moves

\* An answer moves the call on, or is dropped.
LEMMA ReplyMoves ==
    ASSUME TypeOK, NEW k \in Calls, NEW status \in Statuses, Reply(k, status),
           ScreenKept
    PROVE  \E c \in {IdleCall, CallAt(k, "answered", status)} : Moves(k, c)
  <1>1. CASE Abandoned(k)
    <2>1. IdleCall \in Call
      BY DEF IdleCall, Call, Kinds, Email, Password, Statuses
    <2>2. Moves(k, IdleCall) BY <1>1, <2>1 DEF Moves, Reply
    <2> QED BY <2>2
  <1>2. CASE ~Abandoned(k)
    <2>1. Moves(k, CallAt(k, "answered", status))
      BY <1>2, CallAtType DEF Moves, Reply
    <2> QED BY <2>1
  <1> QED BY <1>1, <1>2

\* The form that waits for a call still does when the call moves on.
LEMMA LinkedMoves ==
    ASSUME TypeOK, Linked, NEW k \in Calls, NEW c, Moves(k, c)
    PROVE  Linked'
  <1>1. form' = form /\ error' = error /\ asked' = asked
    BY DEF Moves, ScreenKept
  <1>2. \A f \in Forms : Waits(f)' = Waits(f) BY <1>1 DEF Waits
  <1>3. \A f \in Forms : form[f].call \in Calls \cup {NoCall} BY DEF TypeOK, Form
  <1>4. ASSUME NEW f \in Forms, Waits(f)
        PROVE  /\ call'[form[f].call].pc # "idle"
               /\ call'[form[f].call].kind = form[f].kind
               /\ call'[form[f].call].email = asked[f]
    <2>1. form[f].call \in Calls BY <1>3, <1>4 DEF Waits
    <2>2. CASE form[f].call = k
      <3>1. ~Abandoned(k) BY <2>2 DEF Abandoned
      <3>2. c.pc # "idle" /\ c.kind = call[k].kind /\ c.email = call[k].email
        BY <3>1 DEF Moves
      <3> QED BY <2>2, <3>2, <1>4, CallIn DEF Linked
    <2>3. CASE form[f].call # k
      BY <2>1, <2>3, <1>4, CallIn DEF Linked
    <2> QED BY <2>2, <2>3
  <1> QED BY <1>1, <1>2, <1>4 DEF Linked

\* What the other calls know of their accounts stays true as long as accounts
\* only grow.
LEMMA CallsOkMoves ==
    ASSUME TypeOK, CallsOk, NEW k \in Calls, NEW c, Moves(k, c), Grows, CallOk(c)'
    PROVE  CallsOk'
  <1>1. call'[k] = c /\ \A j \in Calls \ {k} : call'[j] = call[j] BY CallIn
  <1>2. \A j \in Calls : CallOk(call[j])'
    <2> SUFFICES ASSUME NEW j \in Calls PROVE CallOk(call[j])'
      OBVIOUS
    <2>1. CASE j = k
      BY <1>1, <2>1 DEF CallOk, AnswerOk, Claimed, Exists
    <2>2. CASE j # k
      BY <1>1, <2>2 DEF CallsOk, CallOk, AnswerOk, Claimed, Grows, Exists
    <2> QED BY <2>1, <2>2
  <1> QED BY <1>2 DEF CallsOk

\* What a form shows stays true as long as accounts only grow.
LEMMA ScreensKept ==
    ASSUME Screens, ScreenKept, Grows
    PROVE  Screens'
  <1>1. form' = form /\ field' = field /\ error' = error /\ asked' = asked /\ blind' = blind
    BY DEF ScreenKept
  <1>2. \A f \in Forms : Hints(f)'
    BY <1>1 DEF Screens, Hints, Claimed, Created, Grows
  <1>3. \A f \in Forms : Checked(f)'
    BY <1>1 DEF Screens, Checked, Waits, Errors
  <1> QED BY <1>2, <1>3 DEF Screens

\* No two calls make the same account, as long as none starts to.
LEMMA MakersMoves ==
    ASSUME TypeOK, Makers, NEW k \in Calls, NEW c, Moves(k, c),
           Making(c) => Making(call[k])
    PROVE  Makers'
  <1>1. call'[k] = c /\ \A j \in Calls \ {k} : call'[j] = call[j] BY CallIn
  <1>2. form' = form /\ asked' = asked BY DEF Moves, ScreenKept
  <1>3. \A f \in Forms : Created(f)' = Created(f) BY <1>2 DEF Created
  <1>4. \A j \in Calls : Making(call'[j]) =>
           Making(call[j]) /\ call'[j].email = call[j].email
    <2>1. Making(c) => c.email = call[k].email
      BY DEF Moves, Making, IdleCall
    <2> QED BY <1>1, <2>1
  <1> QED BY <1>2, <1>3, <1>4 DEF Makers

\* A call that moves keeps its type.
LEMMA TypeMoves ==
    ASSUME TypeOK, NEW k \in Calls, NEW c, Moves(k, c),
           cookie' \in Emails \cup {NoEmail},
           account' \in [Emails -> Account],
           named' \in SUBSET Emails, undone' \in SUBSET Emails
    PROVE  TypeOK'
  <1>1. call' \in [Calls -> Call] BY DEF TypeOK, Moves
  <1> QED BY <1>1 DEF TypeOK, Moves, ScreenKept

\* A step that changes no account.
Settled ==
    /\ account' = account /\ undone' = undone /\ cookie' \in Emails \cup {NoEmail}
    /\ named \subseteq named' /\ named' \in SUBSET Emails
    /\ Pinned'

\* A step that changes call k and no account.
LEMMA MovesKeepIInv ==
    ASSUME IInv, NEW k \in Calls, NEW c, Moves(k, c), CallOk(c)',
           Making(c) => Making(call[k]), Settled
    PROVE  IInv'
  <1> USE DEF Settled
  <1>1. Grows BY DEF Grows, Exists
  <1>2. TypeOK' BY TypeMoves DEF IInv, TypeOK
  <1>3. Linked' BY LinkedMoves DEF IInv
  <1>4. CallsOk' BY <1>1, CallsOkMoves DEF IInv
  <1>5. Makers' BY MakersMoves DEF IInv
  <1>6. Screens' BY <1>1, ScreensKept DEF IInv, Moves
  <1>7. Pinned' OBVIOUS
  <1> QED BY <1>2, <1>3, <1>4, <1>5, <1>6, <1>7 DEF IInv

\* An answer other than 201 to a call that has made no account.
LEMMA ReplyKeepsIInv ==
    ASSUME IInv, NEW k \in Calls, NEW status \in Statuses, Reply(k, status),
           ScreenKept, status # 201, AnswerOk(CallAt(k, "answered", status)), Settled
    PROVE  IInv'
  <1> DEFINE d == CallAt(k, "answered", status)
  <1>1. PICK c \in {IdleCall, d} : Moves(k, c)
    BY ReplyMoves DEF IInv
  <1>2. d.pc = "answered" /\ d.status = status
    BY CallAtType DEF IInv
  <1> HIDE DEF d
  <1>3. CallOk(d)
    BY <1>2 DEF CallOk, d
  <1>4. CallOk(IdleCall)
    BY DEF CallOk, IdleCall
  <1>5. ~Making(d) /\ ~Making(IdleCall)
    BY <1>2 DEF Making, IdleCall
  <1>6. CallOk(c)'
    <2>1. CASE c = IdleCall
      BY <2>1 DEF CallOk, IdleCall
    <2>2. c # IdleCall => c = d BY <1>1
    <2>3. CallOk(c) BY <1>3, <1>4, <2>2
    <2> QED BY <2>3 DEF CallOk, AnswerOk, Claimed, Exists, Settled
  <1> QED BY <1>1, <1>5, <1>6, MovesKeepIInv

\* The schemas leave the ValidationPipe only the unusual email to refuse, on a
\* login or forgot-password form.
LEMMA RefuseKeepsIInv ==
    ASSUME FormsAssumption, IInv, NEW k \in Calls, Refuse(k)
    PROVE  IInv'
  <1>1. 400 \in Statuses BY DEF Statuses
  <1>2. call[k].kind # "signup" => call[k].email = Unusual
    <2>1. /\ call[k].email # NoEmail /\ SchemaTakes(call[k].kind, call[k].password)
          /\ call[k].email \in Email /\ call[k].kind \in Kinds
      BY DEF IInv, CallsOk, CallOk, Refuse, TypeOK, Call
    <2>2. call[k].kind # "signup" => call[k].email \notin Emails
      BY <2>1 DEF Refuse, DtoTakes, SchemaTakes, LoginDtoTakes, LoginSchemaTakes, Kinds
    <2> QED BY <2>1, <2>2 DEF Email
  <1>3. AnswerOk(CallAt(k, "answered", 400))
    BY <1>1, <1>2, CallAtType DEF AnswerOk, IInv
  <1>4. Reply(k, 400) /\ ScreenKept /\ Settled
    BY PinnedKept DEF Refuse, Settled, ScreenKept, users, past, IInv, TypeOK
  <1> QED BY <1>1, <1>3, <1>4, ReplyKeepsIInv

\* The answer of forgot-password says nothing of an account.
LEMMA ForgotKeepsIInv ==
    ASSUME FormsAssumption, IInv, NEW k \in Calls, Forgot(k)
    PROVE  IInv'
  <1>1. 204 \in Statuses BY DEF Statuses
  <1>3. AnswerOk(CallAt(k, "answered", 204))
    BY <1>1, CallAtType DEF AnswerOk, IInv, Forgot, Ask
  <1>4. Reply(k, 204) /\ ScreenKept /\ Settled
    <2>1. call[k].email \in Emails BY DEF Forgot, Ask, DtoTakes
    <2>2. /\ cookie' = cookie /\ account' = account /\ undone' = undone
          /\ named \subseteq named' /\ \A e \in named' : e \in named \/ Exists(e)
          /\ named' \in SUBSET Emails
      BY <2>1 DEF Forgot, past, IInv, TypeOK
    <2>3. Pinned' BY <2>2 DEF IInv, Pinned, Exists
    <2> QED BY <2>2, <2>3 DEF Forgot, Settled, ScreenKept, past, IInv, TypeOK
  <1> QED BY <1>1, <1>3, <1>4, ReplyKeepsIInv

\* Nor does a failure.
LEMMA ThrowsKeepsIInv ==
    ASSUME IInv, NEW k \in Calls, Throws(k)
    PROVE  IInv'
  <1>1. 500 \in Statuses BY DEF Statuses
  <1>3. AnswerOk(CallAt(k, "answered", 500))
    BY <1>1, CallAtType DEF AnswerOk, IInv
  <1>4. Reply(k, 500) /\ ScreenKept /\ Settled
    BY PinnedKept DEF Throws, Settled, ScreenKept, users, past, IInv, TypeOK
  <1> QED BY <1>1, <1>3, <1>4, ReplyKeepsIInv

\* A conflict is answered about an account that is there.
LEMMA FindUserKeepsIInv ==
    ASSUME FormsAssumption, IInv, NEW k \in Calls, FindUser(k)
    PROVE  IInv'
  <1>1. ScreenKept /\ Settled
    BY PinnedKept DEF FindUser, Settled, ScreenKept, users, past, IInv, TypeOK
  <1>2. call[k].pc = "sent" /\ call[k].kind = "signup" /\ call[k].email \in Emails
    BY DEF FindUser, Ask, DtoTakes
  <1>3. CASE Exists(call[k].email)
    <2>1. 409 \in Statuses BY DEF Statuses
    <2>2. AnswerOk(CallAt(k, "answered", 409))
      BY <1>2, <1>3, <2>1, CallAtType DEF AnswerOk, IInv, Claimed
    <2>3. Reply(k, 409) BY <1>3 DEF FindUser
    <2> QED BY <1>1, <2>1, <2>2, <2>3, ReplyKeepsIInv
  <1>4. CASE ~Exists(call[k].email)
    <2>1. 0 \in Statuses BY DEF Statuses
    <2>2. PICK d \in Call : /\ d = CallAt(k, "found", 0)
                            /\ d.pc = "found"
                            /\ d.kind = call[k].kind /\ d.email = call[k].email
      BY <2>1, CallAtType DEF IInv
    <2>3. call' = [call EXCEPT ![k] = d] BY <1>4, <2>2 DEF FindUser
    <2>4. Moves(k, d) BY <1>1, <2>2, <2>3 DEF Moves
    <2>5. CallOk(d)' BY <1>2, <2>2 DEF CallOk
    <2>6. ~Making(d) BY <2>2 DEF Making
    <2> QED BY <1>1, <2>4, <2>5, <2>6, MovesKeepIInv
  <1> QED BY <1>3, <1>4

\* The status of a login is what the account was at that moment.
LEMMA LoginKeepsIInv ==
    ASSUME FormsAssumption, IInv, NEW k \in Calls, Login(k)
    PROVE  IInv'
  <1>1. ScreenKept /\ UNCHANGED <<users, undone>>
    BY DEF Login, ScreenKept, past
  <1>2. call[k].pc = "sent" /\ call[k].kind = "login" /\ call[k].email \in Emails
    BY DEF Login, Ask, DtoTakes
  <1>3. PICK right \in BOOLEAN :
          LET status == LoginStatus(account[call[k].email], right)
          IN /\ Reply(k, status)
             /\ \/ UNCHANGED cookie
                \/ Abandoned(k) /\ status = 200 /\ cookie' = call[k].email
    BY DEF Login
  <1> DEFINE status == LoginStatus(account[call[k].email], right)
  <1>4. /\ status \in {200, 401, 403}
        /\ status = 200 => account[call[k].email] = "confirmed"
        /\ status = 403 => Exists(call[k].email)
    BY <1>2 DEF LoginStatus, IInv, TypeOK, Account, Exists
  <1>5. Reply(k, status) BY <1>3
  <1>n. account[call[k].email] = "confirmed" => call[k].email \in named
    BY <1>2 DEF IInv, Pinned
  <1>6. Settled
    <2>1. cookie' = cookie \/ (cookie' = call[k].email /\ call[k].email \in named)
      BY <1>3, <1>4, <1>n
    <2>2. Pinned' BY <1>1, <2>1, PinnedKept DEF IInv
    <2> QED BY <1>1, <1>2, <2>1, <2>2 DEF Settled, users, IInv, TypeOK
  <1> HIDE DEF status
  <1>7. status \in Statuses /\ status # 201 BY <1>4 DEF Statuses
  <1>8. AnswerOk(CallAt(k, "answered", status))
    BY <1>2, <1>4, <1>7, <1>n, CallAtType DEF AnswerOk, IInv, Claimed
  <1> QED BY <1>1, <1>5, <1>6, <1>7, <1>8, ReplyKeepsIInv

\* The unique email keeps two calls from making the same account.
LEMMA SaveUserKeepsIInv ==
    ASSUME FormsAssumption, IInv, NEW k \in Calls, SaveUser(k)
    PROVE  IInv'
  <1>1. /\ ScreenKept /\ undone' = undone /\ named' = named
        /\ cookie' = cookie /\ cookie' \in Emails \cup {NoEmail}
    BY DEF SaveUser, ScreenKept, past, IInv, TypeOK
  <1>2. call[k].pc = "found" /\ call[k].kind = "signup" /\ call[k].email \in Emails
    BY DEF SaveUser, IInv, CallsOk, CallOk
  <1>3. CASE Exists(call[k].email) /\ Reply(k, 500) /\ account' = account
    <2>1. 500 \in Statuses BY DEF Statuses
    <2>2. AnswerOk(CallAt(k, "answered", 500))
      BY <2>1, CallAtType DEF AnswerOk, IInv
    <2>3. Settled
      BY <1>1, <1>3, PinnedKept DEF Settled, users, IInv, TypeOK
    <2> QED BY <1>1, <1>3, <2>1, <2>2, <2>3, ReplyKeepsIInv
  <1>4. CASE /\ ~Exists(call[k].email)
             /\ account' = [account EXCEPT ![call[k].email] = "unconfirmed"]
             /\ call' = [call EXCEPT ![k] = CallAt(k, "saved", 0)]
    <2>1. 0 \in Statuses BY DEF Statuses
    <2>e. PICK e \in Emails : e = call[k].email BY <1>2
    <2>2. PICK d \in Call : /\ d = CallAt(k, "saved", 0)
                            /\ d.pc = "saved" /\ d.status = 0
                            /\ d.kind = call[k].kind /\ d.email = e
      BY <2>1, <2>e, CallAtType DEF IInv
    <2>3. call' = [call EXCEPT ![k] = d] BY <1>4, <2>2
    <2>4. account[e] = "none" /\ account' = [account EXCEPT ![e] = "unconfirmed"]
      BY <1>4, <2>e DEF Exists
    <2>6. account \in [Emails -> Account] BY DEF IInv, TypeOK
    <2>7. account' \in [Emails -> Account] /\ account'[e] = "unconfirmed"
          /\ \A x \in Emails \ {e} : account'[x] = account[x]
      BY <2>4, <2>6 DEF Account
    <2>8. Grows BY <1>1, <2>4, <2>7 DEF Grows, Exists
    <2>9. Moves(k, d) BY <1>1, <1>2, <2>2, <2>3, <2>e DEF Moves
    <2>10. CallOk(d)'
      BY <1>2, <2>2, <2>7 DEF CallOk, Exists
    <2>11. TypeOK' BY <1>1, <2>7, <2>9, TypeMoves DEF IInv, TypeOK
    <2>12. Linked' BY <2>9, LinkedMoves DEF IInv
    <2>13. CallsOk' BY <2>8, <2>9, <2>10, CallsOkMoves DEF IInv
    <2>14. Screens' BY <1>1, <2>8, ScreensKept DEF IInv
    <2>15. Makers'
      <3>1. call'[k] = d /\ \A j \in Calls \ {k} : call'[j] = call[j]
        BY <2>9, CallIn DEF IInv
      <3>2. form' = form /\ asked' = asked BY <1>1 DEF ScreenKept
      <3>3. \A f \in Forms : Created(f)' = Created(f) BY <3>2 DEF Created
      <3>4. \A j \in Calls : Making(call[j]) => call[j].email # e
        BY <2>4 DEF IInv, CallsOk, CallOk, AnswerOk, Making, Exists
      <3>5. \A f \in Forms : Created(f) => asked[f] # e
        BY <2>4 DEF IInv, Screens, Hints, Exists
      <3> QED BY <2>2, <3>1, <3>2, <3>3, <3>4, <3>5 DEF IInv, Makers
    <2>16. Pinned' BY <1>1, <2>4, <2>7 DEF IInv, Pinned, Exists, TypeOK
    <2> QED BY <2>11, <2>12, <2>13, <2>14, <2>15, <2>16 DEF IInv
  <1> QED BY <1>3, <1>4 DEF SaveUser

\* The call that made the account is the one that answers 201.
LEMMA RegisteredKeepsIInv ==
    ASSUME IInv, NEW k \in Calls, Registered(k)
    PROVE  IInv'
  <1>1. /\ ScreenKept /\ account' = account /\ undone' = undone /\ cookie' = cookie
        /\ named' = named \cup {call[k].email} /\ Reply(k, 201)
    BY DEF Registered, ScreenKept, past
  <1>2. 201 \in Statuses BY DEF Statuses
  <1>3. /\ call[k].pc = "saved" /\ call[k].kind = "signup"
        /\ call[k].email \in Emails /\ Exists(call[k].email)
    BY DEF Registered, IInv, CallsOk, CallOk
  <1>4. PICK c \in {IdleCall, CallAt(k, "answered", 201)} : Moves(k, c)
    BY <1>1, <1>2, ReplyMoves DEF IInv
  <1>5. c = IdleCall \/ /\ c.pc = "answered" /\ c.status = 201
                        /\ c.kind = "signup" /\ c.email = call[k].email
    BY <1>2, <1>3, CallAtType DEF IInv
  <1>6. CallOk(c)'
    BY <1>1, <1>3, <1>5 DEF CallOk, AnswerOk, IdleCall, Exists
  <1>7. Making(call[k]) BY <1>3 DEF Making
  <1>8. Pinned' BY <1>1, <1>3 DEF IInv, Pinned, Exists
  <1>9. Settled BY <1>1, <1>3, <1>8 DEF Settled, IInv, TypeOK
  <1> QED BY <1>4, <1>6, <1>7, <1>9, MovesKeepIInv

\* Nobody else has made the account that is deleted again.
LEMMA UndoUserKeepsIInv ==
    ASSUME FormsAssumption, IInv, NEW k \in Calls, UndoUser(k)
    PROVE  IInv'
  <1>1. /\ ScreenKept /\ cookie' \in Emails \cup {NoEmail} /\ Reply(k, 500)
        /\ cookie' = cookie /\ named' = named
    BY DEF UndoUser, ScreenKept, IInv, TypeOK
  <1>2. 500 \in Statuses BY DEF Statuses
  <1>3. /\ call[k].pc = "saved" /\ call[k].email \in Emails
    BY DEF UndoUser, IInv, CallsOk, CallOk
  <1>e. PICK e \in Emails : e = call[k].email BY <1>3
  <1>4. /\ e \notin named /\ undone' = undone \cup {e}
        /\ account' = [account EXCEPT ![e] = "none"]
    BY <1>e DEF UndoUser
  <1>5. /\ account' \in [Emails -> Account] /\ account'[e] = "none"
        /\ \A x \in Emails \ {e} : account'[x] = account[x]
    BY <1>4 DEF IInv, TypeOK, Account
  <1>6. PICK c \in {IdleCall, CallAt(k, "answered", 500)} : Moves(k, c)
    BY <1>1, <1>2, ReplyMoves DEF IInv
  <1>7. c = IdleCall \/ (c.pc = "answered" /\ c.status = 500)
    BY <1>2, CallAtType DEF IInv
  <1>8. call'[k] = c /\ \A j \in Calls \ {k} : call'[j] = call[j]
    BY <1>6, CallIn DEF IInv
  <1>9. Making(call[k]) /\ ~Making(c)
    BY <1>3, <1>7 DEF Making, IdleCall
  <1>p. Pinned' BY <1>1, <1>4, <1>5 DEF IInv, Pinned, Exists, TypeOK
  <1>10. \A x \in Emails : Claimed(x) => Claimed(x)'
    BY <1>4, <1>5 DEF Claimed, Exists
  <1>11. \A j \in Calls \ {k} : Making(call[j]) => call[j].email # e
    BY <1>9, <1>e DEF IInv, Makers
  <1>12. TypeOK'
    BY <1>1, <1>4, <1>5, <1>6, TypeMoves DEF IInv, TypeOK
  <1>13. Linked' BY <1>6, LinkedMoves DEF IInv
  <1>14. Makers' BY <1>6, <1>9, MakersMoves DEF IInv
  <1>15. CallsOk'
    <2> SUFFICES ASSUME NEW j \in Calls PROVE CallOk(call[j])'
      BY DEF CallsOk
    <2>1. CASE j = k
      BY <1>7, <1>8, <2>1 DEF CallOk, AnswerOk, IdleCall
    <2>2. CASE j # k
      <3>1. CallOk(call[j]) BY DEF IInv, CallsOk
      <3>2. call'[j] = call[j] BY <1>8, <2>2
      <3>3. Making(call[j]) => call[j].email # e BY <1>11, <2>2
      <3> QED BY <1>1, <1>4, <1>5, <3>1, <3>2, <3>3
            DEF CallOk, AnswerOk, Claimed, Exists, Making
    <2> QED BY <2>1, <2>2
  <1>16. Screens'
    <2>1. form' = form /\ field' = field /\ error' = error /\ asked' = asked /\ blind' = blind
      BY <1>1 DEF ScreenKept
    <2>2. \A f \in Forms : Created(f) => asked[f] # e
      BY <1>9, <1>e DEF IInv, Makers
    <2>3. \A f \in Forms : Hints(f)'
      BY <1>4, <1>5, <2>1, <2>2 DEF IInv, Screens, Hints, Claimed, Created, Exists
    <2>4. \A f \in Forms : Checked(f)'
      BY <2>1 DEF IInv, Screens, Checked, Waits, Errors
    <2> QED BY <2>3, <2>4 DEF Screens
  <1> QED BY <1>12, <1>13, <1>14, <1>15, <1>16, <1>p DEF IInv

\* Every step of the API.
LEMMA CallStepKeepsIInv ==
    ASSUME FormsAssumption, IInv, NEW k \in Calls, CallStep(k)
    PROVE  IInv'
  BY RefuseKeepsIInv, FindUserKeepsIInv, SaveUserKeepsIInv, RegisteredKeepsIInv,
     UndoUserKeepsIInv, LoginKeepsIInv, ForgotKeepsIInv, ThrowsKeepsIInv DEF CallStep

-----------------------------------------------------------------------------
(* What happens to an account elsewhere, and the end of a session.          *)

\* A token for an account that is there, a confirmation with a token, and the
\* end of a confirmation change no form, no call and no session.
LEMMA ElsewhereKeepsIInv ==
    ASSUME IInv, NEW e \in Emails, Link(e) \/ Confirm(e) \/ Unconfirm(e)
    PROVE  IInv'
  <1>1. /\ form' = form /\ field' = field /\ error' = error /\ cookie' = cookie
        /\ call' = call /\ asked' = asked /\ blind' = blind /\ undone' = undone
    BY DEF Link, Confirm, Unconfirm, Elsewhere, past
  <1>2. /\ Exists(e) /\ named \subseteq named' /\ named' \subseteq named \cup {e}
        /\ account' = account \/ e \in named
        /\ \E a \in {account[e], "confirmed", "unconfirmed"} :
              account' = [account EXCEPT ![e] = a]
    BY DEF Link, Confirm, Unconfirm, Exists, IInv, Pinned, TypeOK
  <1>3. account' \in [Emails -> Account] /\ Exists(e)'
        /\ \A x \in Emails \ {e} : account'[x] = account[x]
    BY <1>2 DEF IInv, TypeOK, Account, Exists
  <1>4. Grows BY <1>1, <1>2, <1>3 DEF Grows, Exists
  <1>5. TypeOK' BY <1>1, <1>2, <1>3 DEF IInv, TypeOK
  <1>6. Linked' BY <1>1 DEF IInv, Linked, Waits
  <1>7. Makers' BY <1>1 DEF IInv, Makers, Created
  <1>8. CallsOk'
    <2> SUFFICES ASSUME NEW j \in Calls PROVE CallOk(call[j])'
      BY DEF CallsOk
    <2> QED BY <1>1, <1>2, <1>3 DEF IInv, CallsOk, CallOk, AnswerOk, Claimed, Exists
  <1>9. Screens' BY <1>1, <1>4, ScreensKept DEF IInv, ScreenKept
  <1>10. Pinned' BY <1>1, <1>2, <1>3 DEF IInv, Pinned, Exists
  <1> QED BY <1>5, <1>6, <1>7, <1>8, <1>9, <1>10 DEF IInv

\* The end of a session changes nothing but the cookie.
LEMMA SignOutKeepsIInv ==
    ASSUME FormsAssumption, IInv, SignOut
    PROVE  IInv'
  <1>1. /\ form' = form /\ field' = field /\ error' = error /\ cookie' = NoEmail
        /\ call' = call /\ asked' = asked /\ blind' = blind /\ undone' = undone
        /\ UNCHANGED users
    BY DEF SignOut, past
  <1>2. Linked' /\ Makers' BY <1>1 DEF IInv, Linked, Makers, Waits, Created
  <1>3. CallsOk' BY <1>1 DEF IInv, CallsOk, CallOk, AnswerOk, Claimed, Exists, users
  <1>4. Screens' BY <1>1, ScreensKept DEF IInv, ScreenKept, Grows, Exists, users
  <1>5. TypeOK' BY <1>1 DEF IInv, TypeOK, users
  <1>6. Pinned' BY <1>1, PinnedKept DEF IInv, FormsAssumption
  <1> QED BY <1>2, <1>3, <1>4, <1>5, <1>6 DEF IInv

-----------------------------------------------------------------------------
(* Steps of a form: the others keep what they show and wait for.            *)

OthersKept(f) ==
    /\ \A g \in Forms \ {f} :
          /\ form'[g] = form[g] /\ field'[g] = field[g] /\ error'[g] = error[g]
          /\ asked'[g] = asked[g] /\ (g \in blind' <=> g \in blind)
    /\ UNCHANGED users /\ undone' = undone

\* The form waits no longer; its call is dropped or goes on by itself.
Freed(f) ==
    /\ OthersKept(f)
    /\ form'[f].call = NoCall
    /\ \A k \in Calls : k # form[f].call => call'[k] = call[k]
    /\ \A k \in Calls : call'[k] \in {call[k], IdleCall}

\* A form that waits no longer leaves the others with their calls.
LEMMA FreedLinked ==
    ASSUME TypeOK, Linked, NEW f \in Forms, Freed(f)
    PROVE  Linked'
  <1>1. ASSUME NEW g \in Forms, Waits(g)'
        PROVE  /\ g # f /\ form'[g] = form[g] /\ error'[g] = error[g]
               /\ asked'[g] = asked[g] /\ Waits(g)
               /\ call'[form[g].call] = call[form[g].call]
    <2>1. g # f BY <1>1 DEF Freed, Waits
    <2>2. form'[g] = form[g] BY <2>1 DEF Freed, OthersKept
    <2>3. Waits(g) BY <1>1, <2>2 DEF Waits
    <2>4. form[g].call \in Calls BY <2>3 DEF Waits, TypeOK, Form
    <2>5. form[g].call # form[f].call BY <2>1, <2>3 DEF Linked
    <2> QED BY <2>1, <2>2, <2>3, <2>4, <2>5 DEF Freed, OthersKept
  <1>2. ASSUME NEW g \in Forms, NEW h \in Forms, g # h, Waits(g)'
        PROVE  form'[g].call # form'[h].call
    <2>1. CASE h = f
      BY <1>2, <2>1 DEF Freed, Waits
    <2>2. CASE h # f
      <3>1. form'[h] = form[h] BY <2>2 DEF Freed, OthersKept
      <3> QED BY <1>1, <1>2, <3>1 DEF Linked
    <2> QED BY <2>1, <2>2
  <1> QED BY <1>1, <1>2 DEF Linked

\* A call that is dropped claims nothing any more.
LEMMA FreedCallsOk ==
    ASSUME CallsOk, NEW f \in Forms, Freed(f)
    PROVE  CallsOk'
  <1> SUFFICES ASSUME NEW k \in Calls PROVE CallOk(call[k])'
    BY DEF CallsOk
  <1>1. UNCHANGED users /\ undone' = undone BY DEF Freed, OthersKept
  <1>2. CASE call'[k] = IdleCall
    BY <1>2 DEF CallOk, AnswerOk, IdleCall
  <1>3. CASE call'[k] = call[k]
    BY <1>1, <1>3 DEF CallsOk, CallOk, AnswerOk, Claimed, Exists, users
  <1> QED BY <1>2, <1>3 DEF Freed

\* Nor does it make an account.
LEMMA FreedMakers ==
    ASSUME Makers, NEW f \in Forms, Freed(f), form'[f].view # "success"
    PROVE  Makers'
  <1>1. \A g \in Forms : Created(g)' => g # f /\ Created(g) /\ asked'[g] = asked[g]
    BY DEF Freed, OthersKept, Created
  <1>2. \A k \in Calls : Making(call'[k]) => call'[k] = call[k]
    BY DEF Freed, Making, IdleCall
  <1> QED BY <1>1, <1>2 DEF Makers

\* The screens of the other forms stay true.
LEMMA OthersScreens ==
    ASSUME Screens, NEW f \in Forms, OthersKept(f), Hints(f)', Checked(f)'
    PROVE  Screens'
  <1>1. ASSUME NEW g \in Forms, g # f
        PROVE  Hints(g)' /\ Checked(g)'
    <2>1. /\ form'[g] = form[g] /\ field'[g] = field[g] /\ error'[g] = error[g]
          /\ asked'[g] = asked[g] /\ (g \in blind' <=> g \in blind)
          /\ account' = account /\ undone' = undone
      BY <1>1 DEF OthersKept, users
    <2>2. Hints(g)'
      BY <2>1 DEF Screens, Hints, Claimed, Created, Exists
    <2>3. Checked(g)'
      BY <2>1 DEF Screens, Checked, Waits, Errors
    <2> QED BY <2>2, <2>3
  <1> QED BY <1>1 DEF Screens

\* Left drops a call or lets it be.
LEMMA LeftType ==
    ASSUME NEW c
    PROVE  Left(c) \in {c, IdleCall}
  BY DEF Left

\* A page that is left takes nothing with it but its form.
LEMMA OpenKeepsIInv ==
    ASSUME FormsAssumption, IInv, NEW f \in Forms, NEW kind \in Kinds, Open(f, kind)
    PROVE  IInv'
  <1>1. Opened(kind) \in Form /\ Empty \in Field /\ NoError \in Error /\ IdleCall \in Call
    BY Records
  <1>2. /\ form'[f] = Opened(kind) /\ field'[f] = Empty /\ error'[f] = NoError
        /\ asked'[f] = NoEmail
        /\ call' = [k \in Calls |-> IF k = form[f].call THEN Left(call[k]) ELSE call[k]]
    BY DEF Open, IInv, TypeOK
  <1>3. OthersKept(f)
    BY DEF Open, OthersKept, IInv, TypeOK
  <1>4. Freed(f)
    BY <1>2, <1>3, LeftType DEF Freed, Opened
  <1>5. call' \in [Calls -> Call]
    BY <1>1, <1>2, LeftType DEF IInv, TypeOK
  <1>6. TypeOK'
    BY <1>1, <1>5 DEF Open, users, IInv, TypeOK, Email
  <1>7. Hints(f)'
    BY <1>2 DEF Hints, NoError, Opened, Created
  <1>8. Checked(f)'
    BY <1>2 DEF Checked, NoError, Opened, Waits
  <1>9. Linked' BY <1>4, FreedLinked DEF IInv
  <1>10. CallsOk' BY <1>4, FreedCallsOk DEF IInv
  <1>11. Makers' BY <1>2, <1>4, FreedMakers DEF IInv, Opened
  <1>12. Screens' BY <1>3, <1>7, <1>8, OthersScreens DEF IInv
  <1>13. Pinned' BY PinnedKept DEF Open, IInv
  <1> QED BY <1>6, <1>9, <1>10, <1>11, <1>12, <1>13 DEF IInv

\* A lost answer leaves the form without a call and without an error.
LEMMA RejectsKeepsIInv ==
    ASSUME FormsAssumption, IInv, NEW f \in Forms, Rejects(f)
    PROVE  IInv'
  <1> DEFINE k == form[f].call
  <1>1. k \in Calls /\ Waits(f) BY DEF Rejects, Waits, IInv, TypeOK, Form
  <1>2. IdleCall \in Call BY Records
  <1>3. /\ FormAt(f, "submitted", NoCall) \in Form
        /\ FormAt(f, "submitted", NoCall).kind = form[f].kind
        /\ FormAt(f, "submitted", NoCall).view = "submitted"
        /\ FormAt(f, "submitted", NoCall).call = NoCall
    BY FormAtType DEF IInv
  <1>4. /\ form' = [form EXCEPT ![f] = FormAt(f, "submitted", NoCall)]
        /\ asked' = [asked EXCEPT ![f] = NoEmail]
        /\ field' = field /\ error' = error /\ cookie' = cookie
        /\ UNCHANGED users /\ blind' = blind /\ undone' = undone
    BY DEF Rejects
  <1>5. PICK c \in {call[k], IdleCall} : call' = [call EXCEPT ![k] = c]
    BY LeftType DEF Rejects
  <1> HIDE DEF k
  <1>6. /\ call' \in [Calls -> Call] /\ call'[k] = c
        /\ \A j \in Calls : j # k => call'[j] = call[j]
    BY <1>1, <1>2, <1>5 DEF IInv, TypeOK
  <1>7. /\ form'[f] = FormAt(f, "submitted", NoCall) /\ asked'[f] = NoEmail
        /\ \A g \in Forms \ {f} : form'[g] = form[g] /\ asked'[g] = asked[g]
    BY <1>4 DEF IInv, TypeOK
  <1>8. OthersKept(f) BY <1>4, <1>7 DEF OthersKept
  <1>9. Freed(f) BY <1>3, <1>5, <1>6, <1>7, <1>8 DEF Freed, k
  <1>10. TypeOK'
    BY <1>3, <1>4, <1>6 DEF IInv, TypeOK, Email, users
  <1>11. /\ error[f].email # "server" /\ error[f].root = "none"
         /\ form[f].view \in {"fresh", "submitted"}
    BY <1>1 DEF IInv, TypeOK, Form, Linked
  <1>12. Hints(f)'
    BY <1>3, <1>4, <1>7, <1>11 DEF Hints, Created
  <1>13. Checked(f)'
    BY <1>1, <1>3, <1>4, <1>7, <1>11, ErrorsType
      DEF IInv, Screens, Checked, NoError, EmailError
  <1>14. Linked' BY <1>9, FreedLinked DEF IInv
  <1>15. CallsOk' BY <1>9, FreedCallsOk DEF IInv
  <1>16. Makers' BY <1>3, <1>7, <1>9, FreedMakers DEF IInv
  <1>17. Screens' BY <1>8, <1>12, <1>13, OthersScreens DEF IInv
  <1>18. Pinned' BY <1>4, PinnedKept DEF IInv
  <1> QED BY <1>10, <1>14, <1>15, <1>16, <1>17, <1>18 DEF IInv

\* A call of the form has been answered.
LEMMA AnsweredCall ==
    ASSUME FormsAssumption, IInv, NEW f \in Forms, NEW status, Answered(f, status)
    PROVE  /\ form[f].call \in Calls
           /\ call' = [call EXCEPT ![form[f].call] = IdleCall]
           /\ call' \in [Calls -> Call] /\ call'[form[f].call] = IdleCall
           /\ \A k \in Calls : k # form[f].call => call'[k] = call[k]
           /\ AnswerOk(call[form[f].call])
           /\ call[form[f].call].status = status
           /\ call[form[f].call].pc = "answered"
           /\ call[form[f].call].kind = form[f].kind
           /\ call[form[f].call].email = asked[f]
           /\ form[f].view \in {"fresh", "submitted"}
           /\ error[f].email # "server" /\ error[f].root = "none"
  <1>1. /\ Waits(f) /\ call[form[f].call].pc = "answered"
        /\ call[form[f].call].status = status
        /\ call' = [call EXCEPT ![form[f].call] = IdleCall]
    BY DEF Answered
  <1>2. form[f].call \in Calls BY <1>1 DEF Waits, IInv, TypeOK, Form
  <1>3. IdleCall \in Call BY Records
  <1>4. call' \in [Calls -> Call] /\ call'[form[f].call] = IdleCall
    BY <1>1, <1>2, <1>3 DEF IInv, TypeOK
  <1>5. \A k \in Calls : k # form[f].call => call'[k] = call[k]
    BY <1>1, <1>2 DEF IInv, TypeOK
  <1>6. AnswerOk(call[form[f].call])
    BY <1>1, <1>2 DEF IInv, CallsOk, CallOk
  <1>7. /\ call[form[f].call].kind = form[f].kind
        /\ call[form[f].call].email = asked[f]
        /\ error[f].email # "server" /\ error[f].root = "none"
        /\ form[f].view # "success"
    BY <1>1 DEF IInv, Linked
  <1>8. form[f].view \in {"fresh", "submitted"}
    BY <1>7 DEF IInv, TypeOK, Form
  <1> QED BY <1>1, <1>2, <1>4, <1>5, <1>6, <1>7, <1>8

\* The form of a login that succeeded shows no refusal.
LEMMA LoggedInKeepsIInv ==
    ASSUME FormsAssumption, IInv, NEW f \in Forms, LoggedIn(f)
    PROVE  IInv'
  <1> DEFINE k == form[f].call
  <1>1. Answered(f, 200) /\ Waits(f) BY DEF LoggedIn, Answered
  <1>2. /\ k \in Calls /\ call' \in [Calls -> Call] /\ call'[k] = IdleCall
        /\ \A j \in Calls : j # k => call'[j] = call[j]
        /\ call[k].email \in Emails /\ call[k].email \in named
        /\ form[f].view \in {"fresh", "submitted"}
        /\ error[f].email # "server" /\ error[f].root = "none"
    BY <1>1, AnsweredCall DEF AnswerOk, IInv, TypeOK
  <1>3. /\ FormAt(f, "submitted", NoCall) \in Form
        /\ FormAt(f, "submitted", NoCall).kind = form[f].kind
        /\ FormAt(f, "submitted", NoCall).view = "submitted"
        /\ FormAt(f, "submitted", NoCall).call = NoCall
    BY FormAtType DEF IInv
  <1>4. /\ form' = [form EXCEPT ![f] = FormAt(f, "submitted", NoCall)]
        /\ asked' = [asked EXCEPT ![f] = NoEmail]
        /\ field' = field /\ error' = error /\ cookie' = call[k].email
        /\ UNCHANGED users /\ blind' = blind /\ undone' = undone
    BY DEF LoggedIn
  <1> HIDE DEF k
  <1>5. /\ form'[f] = FormAt(f, "submitted", NoCall) /\ asked'[f] = NoEmail
        /\ \A g \in Forms \ {f} : form'[g] = form[g] /\ asked'[g] = asked[g]
    BY <1>4 DEF IInv, TypeOK
  <1>6. OthersKept(f) BY <1>4, <1>5 DEF OthersKept
  <1>7. Freed(f) BY <1>2, <1>3, <1>5, <1>6 DEF Freed, k
  <1>8. TypeOK'
    BY <1>2, <1>3, <1>4 DEF IInv, TypeOK, Email, users
  <1>9. Hints(f)'
    BY <1>2, <1>3, <1>4, <1>5 DEF Hints, Created
  <1>10. Checked(f)'
    BY <1>1, <1>2, <1>3, <1>4, <1>5, ErrorsType
      DEF IInv, Screens, Checked, NoError, EmailError
  <1>11. Linked' BY <1>7, FreedLinked DEF IInv
  <1>12. CallsOk' BY <1>7, FreedCallsOk DEF IInv
  <1>13. Makers' BY <1>3, <1>5, <1>7, FreedMakers DEF IInv
  <1>14. Screens' BY <1>6, <1>9, <1>10, OthersScreens DEF IInv
  <1>15. Pinned' BY <1>2, <1>4, PinnedKept DEF IInv
  <1> QED BY <1>8, <1>11, <1>12, <1>13, <1>14, <1>15 DEF IInv

\* A refusal is shown at a form that showed none.
LEMMA FailsKeepsIInv ==
    ASSUME FormsAssumption, IInv, NEW f \in Forms, Fails(f)
    PROVE  IInv'
  <1> DEFINE k == form[f].call
  <1>1. PICK status \in {400, 401, 403, 409, 500} :
           /\ Answered(f, status)
           /\ error' = [error EXCEPT ![f] = ErrorFor(form[f].kind, status, error[f])]
    BY DEF Fails
  <1>2. /\ k \in Calls /\ call' \in [Calls -> Call] /\ call'[k] = IdleCall
        /\ \A j \in Calls : j # k => call'[j] = call[j]
        /\ AnswerOk(call[k]) /\ call[k].status = status
        /\ call[k].kind = form[f].kind /\ call[k].email = asked[f]
        /\ form[f].view \in {"fresh", "submitted"}
        /\ error[f].email # "server" /\ error[f].root = "none"
    BY <1>1, AnsweredCall
  <1>3. /\ FormAt(f, "submitted", NoCall) \in Form
        /\ FormAt(f, "submitted", NoCall).kind = form[f].kind
        /\ FormAt(f, "submitted", NoCall).view = "submitted"
        /\ FormAt(f, "submitted", NoCall).call = NoCall
    BY FormAtType DEF IInv
  <1>4. /\ form' = [form EXCEPT ![f] = FormAt(f, "submitted", NoCall)]
        /\ asked' = asked /\ field' = field /\ cookie' = cookie
        /\ UNCHANGED users /\ blind' = blind /\ undone' = undone
    BY DEF Fails, past
  <1> DEFINE x == ErrorFor(form[f].kind, status, error[f])
  <1>5. /\ x \in Error /\ x.password = error[f].password
        /\ x.email \in {error[f].email, "server"}
        /\ x.email # "server" \/ x.root = "none"
        /\ x.email = "server" => status = (IF form[f].kind = "signup" THEN 409 ELSE 400)
        /\ x.root = "confirmation" => status = 403
    <2>1. form[f].kind \in Kinds /\ error[f] \in Error BY DEF IInv, TypeOK, Form
    <2>2. status \in Statuses BY DEF Statuses
    <2> QED BY <1>2, <2>1, <2>2, ErrorForType
  <1>6. error' = [error EXCEPT ![f] = x] BY <1>1
  <1>7. Waits(f) BY <1>1 DEF Answered
  <1> HIDE DEF k, x
  <1>8. /\ form'[f] = FormAt(f, "submitted", NoCall) /\ error'[f] = x
        /\ \A g \in Forms \ {f} : form'[g] = form[g] /\ error'[g] = error[g]
    BY <1>4, <1>6 DEF IInv, TypeOK
  <1>9. OthersKept(f) BY <1>4, <1>8 DEF OthersKept
  <1>10. Freed(f) BY <1>2, <1>3, <1>8, <1>9 DEF Freed, k
  <1>11. TypeOK'
    BY <1>2, <1>3, <1>4, <1>5, <1>6 DEF IInv, TypeOK, users
  <1>12. Hints(f)'
    BY <1>2, <1>3, <1>4, <1>5, <1>8 DEF Hints, Created, AnswerOk, Claimed, Exists, users
  <1>13. Checked(f)'
    BY <1>2, <1>3, <1>4, <1>5, <1>7, <1>8, ErrorsType
      DEF IInv, Screens, Checked, NoError, EmailError
  <1>14. Linked' BY <1>10, FreedLinked DEF IInv
  <1>15. CallsOk' BY <1>10, FreedCallsOk DEF IInv
  <1>16. Makers' BY <1>3, <1>8, <1>10, FreedMakers DEF IInv
  <1>17. Screens' BY <1>9, <1>12, <1>13, OthersScreens DEF IInv
  <1>18. Pinned' BY <1>4, PinnedKept DEF IInv
  <1> QED BY <1>11, <1>14, <1>15, <1>16, <1>17, <1>18 DEF IInv

\* The one form that tells of the account its call has made.
LEMMA SucceedsKeepsIInv ==
    ASSUME FormsAssumption, IInv, NEW f \in Forms, Succeeds(f)
    PROVE  IInv'
  <1> DEFINE k == form[f].call
  <1>1. PICK status \in {201, 204} : Answered(f, status)
    BY DEF Succeeds
  <1>2. /\ k \in Calls /\ call' \in [Calls -> Call] /\ call'[k] = IdleCall
        /\ \A j \in Calls : j # k => call'[j] = call[j]
        /\ AnswerOk(call[k]) /\ call[k].status = status /\ call[k].pc = "answered"
        /\ call[k].kind = form[f].kind /\ call[k].email = asked[f]
        /\ form[f].view \in {"fresh", "submitted"}
    BY <1>1, AnsweredCall
  <1>3. /\ FormAt(f, "success", NoCall) \in Form
        /\ FormAt(f, "success", NoCall).kind = form[f].kind
        /\ FormAt(f, "success", NoCall).view = "success"
        /\ FormAt(f, "success", NoCall).call = NoCall
    BY FormAtType DEF IInv
  <1>4. /\ form' = [form EXCEPT ![f] = FormAt(f, "success", NoCall)]
        /\ field' = [field EXCEPT ![f] = Empty]
        /\ error' = [error EXCEPT ![f] = NoError]
        /\ asked' = asked /\ cookie' = cookie
        /\ UNCHANGED users /\ blind' = blind /\ undone' = undone
    BY DEF Succeeds, past
  <1>5. Empty \in Field /\ NoError \in Error BY Records
  <1> HIDE DEF k
  <1>6. /\ form'[f] = FormAt(f, "success", NoCall) /\ error'[f] = NoError
        /\ \A g \in Forms \ {f} : /\ form'[g] = form[g] /\ error'[g] = error[g]
                                  /\ field'[g] = field[g]
    BY <1>4 DEF IInv, TypeOK
  <1>7. OthersKept(f) BY <1>4, <1>6 DEF OthersKept
  <1>8. Freed(f) BY <1>2, <1>3, <1>6, <1>7 DEF Freed, k
  <1>9. TypeOK'
    BY <1>2, <1>3, <1>4, <1>5 DEF IInv, TypeOK, users
  <1>10. form[f].kind = "signup" => /\ Making(call[k]) /\ asked[f] \in Emails
                                    /\ Exists(asked[f])
    BY <1>2 DEF AnswerOk, Making
  <1>11. Hints(f)'
    BY <1>3, <1>4, <1>6, <1>10 DEF Hints, Created, NoError, Exists, users
  <1>12. Checked(f)'
    BY <1>3, <1>6 DEF Checked
  <1>13. Linked' BY <1>8, FreedLinked DEF IInv
  <1>14. CallsOk' BY <1>8, FreedCallsOk DEF IInv
  <1>15. Makers'
    <2>1. \A g \in Forms \ {f} : Created(g)' => Created(g)
      BY <1>6 DEF Created
    <2>2. Created(f)' => Making(call[k])
      BY <1>3, <1>6, <1>10 DEF Created
    <2>3. \A j \in Calls : Making(call'[j]) => j # k /\ call'[j] = call[j]
      BY <1>2 DEF Making, IdleCall
    <2>4. \A j \in Calls, g \in Forms \ {f} : Created(g)' /\ Making(call'[j])
             => asked'[g] # call'[j].email
      BY <1>4, <2>1, <2>3 DEF IInv, Makers
    <2>5. \A j \in Calls : Created(f)' /\ Making(call'[j])
             => asked'[f] # call'[j].email
      BY <1>2, <1>4, <2>2, <2>3 DEF IInv, Makers
    <2>6. \A g \in Forms \ {f} : Created(f)' /\ Created(g)' => asked'[f] # asked'[g]
      BY <1>2, <1>4, <2>1, <2>2 DEF IInv, Makers
    <2>7. \A g, h \in Forms \ {f} : g # h /\ Created(g)' /\ Created(h)'
             => asked'[g] # asked'[h]
      BY <1>4, <2>1 DEF IInv, Makers
    <2>8. \A i, j \in Calls : i # j /\ Making(call'[i]) /\ Making(call'[j])
             => call'[i].email # call'[j].email
      BY <2>3 DEF IInv, Makers
    <2> QED BY <2>4, <2>5, <2>6, <2>7, <2>8 DEF Makers
  <1>16. Screens' BY <1>7, <1>11, <1>12, OthersScreens DEF IInv
  <1>17. Pinned' BY <1>4, PinnedKept DEF IInv
  <1> QED BY <1>9, <1>13, <1>14, <1>15, <1>16, <1>17 DEF IInv

-----------------------------------------------------------------------------
(* Typing and submitting.                                                   *)

\* Typing changes no root error and adds no refusal.
LEMMA TypingKeepsIInv ==
    ASSUME IInv, NEW f \in Forms, NEW v \in Field, NEW x \in Error, Typed(f),
           form[f].view # "success",
           field' = [field EXCEPT ![f] = v], error' = [error EXCEPT ![f] = x],
           UNCHANGED <<form, cookie, call, users, asked, undone>>,
           x.root = error[f].root,
           x.email = "server" => error[f].email = "server",
           form[f].view = "fresh" => x = error[f],
           form[f].view = "submitted" /\ f \notin blind =>
               /\ v.email = NoEmail => x.email # "none"
               /\ x.email = "schema" => v.email = NoEmail
               /\ x.password = PasswordError(form[f].kind, v.password)
    PROVE  IInv'
  <1>1. /\ field'[f] = v /\ error'[f] = x
        /\ \A g \in Forms \ {f} : field'[g] = field[g] /\ error'[g] = error[g]
    BY DEF IInv, TypeOK
  <1>2. blind' \in {blind, blind \cup {f}} /\ blind' \in SUBSET Forms
    BY DEF Typed, IInv, TypeOK
  <1>3. OthersKept(f) BY <1>1, <1>2 DEF OthersKept
  <1>4. TypeOK' BY <1>2 DEF IInv, TypeOK, users
  <1>5. Linked' BY <1>1 DEF IInv, Linked, Waits
  <1>6. CallsOk' BY DEF IInv, CallsOk, CallOk, AnswerOk, Claimed, Exists, users
  <1>7. Makers' BY DEF IInv, Makers, Created
  <1>8. Hints(f)'
    BY <1>1 DEF IInv, Screens, Hints, Claimed, Created, Exists, users
  <1>9. Checked(f)'
    <2>1. form[f].view = "fresh" /\ Waits(f) => f \in blind' BY DEF Typed
    <2>2. form[f].view = "submitted" => blind' = blind BY DEF Typed
    <2>3. form[f].view = "fresh" => error'[f] = NoError
      BY <1>1 DEF IInv, Screens, Checked
    <2> QED BY <1>1, <2>1, <2>2, <2>3 DEF Checked, Waits
  <1>10. Screens' BY <1>3, <1>8, <1>9, OthersScreens DEF IInv
  <1>11. Pinned' BY PinnedKept DEF IInv
  <1> QED BY <1>4, <1>5, <1>6, <1>7, <1>10, <1>11 DEF IInv

\* A change of the email validates the email.
LEMMA EditEmailKeepsIInv ==
    ASSUME IInv, NEW f \in Forms, NEW e \in Email, EditEmail(f, e)
    PROVE  IInv'
  <1>1. PICK v : v = [field[f] EXCEPT !.email = e]
    OBVIOUS
  <1>2. v \in Field /\ v.email = e /\ v.password = field[f].password
    BY <1>1 DEF IInv, TypeOK, Field
  <1>3. PICK x : x = IF form[f].view # "submitted" THEN error[f]
                     ELSE [error[f] EXCEPT !.email = EmailError(e)]
    OBVIOUS
  <1>4. EmailError(e) \in {"none", "schema"} BY DEF EmailError
  <1>5. error[f] \in Error BY DEF IInv, TypeOK
  <1>6. /\ x \in Error /\ x.root = error[f].root
        /\ x.email = "server" => error[f].email = "server"
        /\ form[f].view = "fresh" => x = error[f]
    BY <1>3, <1>4, <1>5 DEF Error
  <1>7. form[f].view = "submitted" =>
           x.email = EmailError(e) /\ x.password = error[f].password
    BY <1>3, <1>5 DEF Error
  <1>8. /\ field' = [field EXCEPT ![f] = v] /\ error' = [error EXCEPT ![f] = x]
        /\ UNCHANGED <<form, cookie, call, users, asked, undone>>
        /\ Typed(f) /\ form[f].view # "success"
    BY <1>1, <1>3 DEF EditEmail, IInv, TypeOK
  <1>9. form[f].view = "submitted" /\ f \notin blind =>
           /\ v.email = NoEmail => x.email # "none"
           /\ x.email = "schema" => v.email = NoEmail
           /\ x.password = PasswordError(form[f].kind, v.password)
    BY <1>2, <1>7 DEF EmailError, IInv, Screens, Checked
  <1> QED BY <1>2, <1>6, <1>8, <1>9, TypingKeepsIInv

\* A change of the password validates the password.
LEMMA EditPasswordKeepsIInv ==
    ASSUME IInv, NEW f \in Forms, NEW p \in Passwords, EditPassword(f, p)
    PROVE  IInv'
  <1>1. PICK v : v = [field[f] EXCEPT !.password = p]
    OBVIOUS
  <1>2. v \in Field /\ v.email = field[f].email /\ v.password = p
    BY <1>1 DEF IInv, TypeOK, Field, Password
  <1>3. PICK x : x = IF form[f].view # "submitted" THEN error[f]
                     ELSE [error[f] EXCEPT !.password = PasswordError(form[f].kind, p)]
    OBVIOUS
  <1>4. PasswordError(form[f].kind, p) \in {"none", "schema"} BY DEF PasswordError
  <1>5. error[f] \in Error BY DEF IInv, TypeOK
  <1>6. /\ x \in Error /\ x.root = error[f].root /\ x.email = error[f].email
        /\ form[f].view = "fresh" => x = error[f]
    BY <1>3, <1>4, <1>5 DEF Error
  <1>7. form[f].view = "submitted" => x.password = PasswordError(form[f].kind, p)
    BY <1>3, <1>5 DEF Error
  <1>8. /\ field' = [field EXCEPT ![f] = v] /\ error' = [error EXCEPT ![f] = x]
        /\ UNCHANGED <<form, cookie, call, users, asked, undone>>
        /\ Typed(f) /\ form[f].view # "success"
    BY <1>1, <1>3 DEF EditPassword, IInv, TypeOK
  <1>9. form[f].view = "submitted" /\ f \notin blind =>
           /\ v.email = NoEmail => x.email # "none"
           /\ x.email = "schema" => v.email = NoEmail
           /\ x.password = PasswordError(form[f].kind, v.password)
    BY <1>2, <1>6, <1>7 DEF IInv, Screens, Checked
  <1> QED BY <1>2, <1>6, <1>8, <1>9, TypingKeepsIInv

\* A submission the schema refuses sends nothing.
LEMMA SubmitRefusedKeepsIInv ==
    ASSUME FormsAssumption, IInv, NEW f \in Forms, SubmitRefused(f)
    PROVE  IInv'
  <1>1. /\ FormAt(f, "submitted", NoCall) \in Form
        /\ FormAt(f, "submitted", NoCall).kind = form[f].kind
        /\ FormAt(f, "submitted", NoCall).view = "submitted"
        /\ FormAt(f, "submitted", NoCall).call = NoCall
    BY FormAtType DEF IInv
  <1>2. /\ error' = [error EXCEPT ![f] = Errors(f)]
        /\ form' = [form EXCEPT ![f] = FormAt(f, "submitted", NoCall)]
        /\ asked' = [asked EXCEPT ![f] = NoEmail] /\ blind' = blind \ {f}
        /\ UNCHANGED <<field, cookie, call, users, undone>>
    BY DEF SubmitRefused
  <1>3. /\ error'[f] = Errors(f) /\ form'[f] = FormAt(f, "submitted", NoCall)
        /\ asked'[f] = NoEmail
        /\ \A g \in Forms \ {f} : /\ form'[g] = form[g] /\ error'[g] = error[g]
                                  /\ asked'[g] = asked[g]
    BY <1>2 DEF IInv, TypeOK
  <1>4. OthersKept(f) BY <1>2, <1>3 DEF OthersKept
  <1>5. Freed(f) BY <1>1, <1>2, <1>3, <1>4 DEF Freed
  <1>6. TypeOK'
    BY <1>1, <1>2, ErrorsType DEF IInv, TypeOK, Email, users
  <1>7. Hints(f)' BY <1>1, <1>3, ErrorsType DEF Hints, Created
  <1>8. Checked(f)'
    BY <1>1, <1>2, <1>3, ErrorsType DEF Checked, EmailError
  <1>9. Linked' BY <1>5, FreedLinked DEF IInv
  <1>10. CallsOk' BY <1>5, FreedCallsOk DEF IInv
  <1>11. Makers' BY <1>1, <1>3, <1>5, FreedMakers DEF IInv
  <1>12. Screens' BY <1>4, <1>7, <1>8, OthersScreens DEF IInv
  <1>13. Pinned' BY <1>2, PinnedKept DEF IInv
  <1> QED BY <1>6, <1>9, <1>10, <1>11, <1>12, <1>13 DEF IInv

\* The call that is taken was idle, so no form waits for it.
LEMMA SubmitKeepsIInv ==
    ASSUME FormsAssumption, IInv, NEW f \in Forms, Submit(f)
    PROVE  IInv'
  <1>1. PICK k \in Calls :
          /\ call[k] = IdleCall
          /\ form' = [form EXCEPT ![f] = FormAt(f, form[f].view, k)]
          /\ call' = [call EXCEPT ![k] = [pc |-> "sent", kind |-> form[f].kind,
                email |-> field[f].email, password |-> field[f].password, status |-> 0]]
    BY DEF Submit
  <1>2. /\ ~Waits(f) /\ Errors(f) = NoError /\ form[f].view # "success"
        /\ error' = [error EXCEPT ![f] = NoError]
        /\ asked' = [asked EXCEPT ![f] = field[f].email] /\ blind' = blind \ {f}
        /\ UNCHANGED <<field, cookie, users, undone>>
    BY DEF Submit
  <1>3. /\ form[f].kind \in Kinds /\ field[f].email \in Email
        /\ field[f].password \in Password /\ form[f].view \in {"fresh", "submitted", "success"}
    BY DEF IInv, TypeOK, Form, Field
  <1>4. PICK c : c = [pc |-> "sent", kind |-> form[f].kind, email |-> field[f].email,
                      password |-> field[f].password, status |-> 0]
    OBVIOUS
  <1>5. c \in Call BY <1>3, <1>4 DEF Call, Statuses
  <1>6. /\ call' \in [Calls -> Call] /\ call'[k] = c
        /\ \A j \in Calls \ {k} : call'[j] = call[j]
    BY <1>1, <1>4, <1>5 DEF IInv, TypeOK
  <1>7. PICK x : x = FormAt(f, form[f].view, k)
    OBVIOUS
  <1>8. x \in Form /\ x.kind = form[f].kind /\ x.view = form[f].view /\ x.call = k
    BY <1>3, <1>7, FormAtType DEF IInv
  <1>9. /\ form' \in [Forms -> Form]
        /\ form'[f] = x /\ error'[f] = NoError /\ asked'[f] = field[f].email
        /\ \A g \in Forms \ {f} : /\ form'[g] = form[g] /\ error'[g] = error[g]
                                  /\ asked'[g] = asked[g]
    BY <1>1, <1>2, <1>7, <1>8 DEF IInv, TypeOK
  <1>10. OthersKept(f) BY <1>2, <1>9 DEF OthersKept
  <1>11. field[f].email # NoEmail /\ SchemaTakes(form[f].kind, field[f].password)
    BY <1>2 DEF Errors, NoError, EmailError, PasswordError
  <1>12. TypeOK'
    <2>1. NoError \in Error BY Records
    <2> QED BY <1>2, <1>3, <1>6, <1>9, <2>1 DEF IInv, TypeOK, users
  <1>13. \A g \in Forms : Waits(g) => form[g].call # k
    BY <1>1 DEF IInv, Linked, IdleCall
  <1>14. \A g \in Forms \ {f} : form[g].call # k
    BY <1>13 DEF Waits, FormsAssumption
  <1>15. Linked'
    <2>1. ASSUME NEW g \in Forms, Waits(g)'
          PROVE  /\ form'[g].view # "success"
                 /\ call'[form'[g].call].pc # "idle"
                 /\ call'[form'[g].call].kind = form'[g].kind
                 /\ call'[form'[g].call].email = asked'[g]
                 /\ error'[g].email # "server" /\ error'[g].root = "none"
      <3>1. CASE g = f
        BY <1>2, <1>4, <1>6, <1>8, <1>9, <3>1 DEF NoError
      <3>2. CASE g # f
        <4>1. form'[g] = form[g] /\ error'[g] = error[g] /\ asked'[g] = asked[g]
          BY <1>9, <3>2
        <4>2. Waits(g) BY <2>1, <4>1 DEF Waits
        <4>3. form[g].call \in Calls \ {k}
          BY <1>13, <4>2 DEF Waits, IInv, TypeOK, Form
        <4> QED BY <1>6, <4>1, <4>2, <4>3 DEF IInv, Linked
      <3> QED BY <3>1, <3>2
    <2>2. ASSUME NEW g \in Forms, NEW h \in Forms, g # h, Waits(g)'
          PROVE  form'[g].call # form'[h].call
      <3>1. CASE g = f \/ h = f BY <1>8, <1>9, <1>14, <2>2, <3>1
      <3>2. CASE g # f /\ h # f
        <4>1. form'[g] = form[g] /\ form'[h] = form[h] BY <1>9, <3>2
        <4>2. Waits(g) BY <2>2, <4>1 DEF Waits
        <4> QED BY <2>2, <4>1, <4>2 DEF IInv, Linked
      <3> QED BY <3>1, <3>2
    <2> QED BY <2>1, <2>2 DEF Linked
  <1>16. CallsOk'
    <2> SUFFICES ASSUME NEW j \in Calls PROVE CallOk(call[j])'
      BY DEF CallsOk
    <2>1. CASE j = k
      BY <1>4, <1>6, <1>11, <2>1 DEF CallOk
    <2>2. CASE j # k
      BY <1>2, <1>6, <2>2 DEF IInv, CallsOk, CallOk, AnswerOk, Claimed, Exists, users
    <2> QED BY <2>1, <2>2
  <1>17. Makers'
    <2>1. \A g \in Forms : Created(g)' => g # f /\ Created(g) /\ asked'[g] = asked[g]
      BY <1>2, <1>8, <1>9 DEF Created
    <2>2. \A j \in Calls : Making(call'[j]) => call'[j] = call[j] /\ Making(call[j])
      BY <1>4, <1>6 DEF Making
    <2> QED BY <2>1, <2>2 DEF IInv, Makers
  <1>18. Hints(f)'
    BY <1>2, <1>8, <1>9 DEF Hints, NoError, Created
  <1>19. Checked(f)'
    <2>1. Errors(f)' = NoError
      BY <1>2, <1>8, <1>9 DEF Errors
    <2>2. NoError.password = PasswordError(form[f].kind, field[f].password)
      BY <1>2 DEF Errors, NoError
    <2> QED BY <1>2, <1>8, <1>9, <1>11, <2>1, <2>2 DEF Checked, NoError
  <1>20. Screens' BY <1>10, <1>18, <1>19, OthersScreens DEF IInv
  <1>21. Pinned' BY <1>2, PinnedKept DEF IInv
  <1> QED BY <1>12, <1>15, <1>16, <1>17, <1>20, <1>21 DEF IInv

-----------------------------------------------------------------------------
(* The invariant, and what follows from it.                                 *)

\* A step that changes nothing.
LEMMA StutterKeepsIInv ==
    ASSUME IInv, UNCHANGED vars
    PROVE  IInv'
  <1> USE DEF vars, users, past
  <1>1. TypeOK' BY DEF IInv, TypeOK
  <1>2. Linked' BY DEF IInv, Linked, Waits
  <1>3. CallsOk' BY DEF IInv, CallsOk, CallOk, AnswerOk, Claimed, Exists
  <1>4. Makers' BY DEF IInv, Makers, Created
  <1>5. Screens' BY ScreensKept DEF IInv, ScreenKept, Grows, Exists
  <1>6. Pinned' BY PinnedKept DEF IInv
  <1> HIDE DEF vars, users, past
  <1> QED BY <1>1, <1>2, <1>3, <1>4, <1>5, <1>6 DEF IInv

\* The forms start empty and the accounts do not exist.
LEMMA InitIInv ==
    ASSUME FormsAssumption, Init
    PROVE  IInv
  <1>1. Empty \in Field /\ NoError \in Error /\ IdleCall \in Call
        /\ \A kind \in Kinds : Opened(kind) \in Form
    BY Records
  <1>2. form \in [Forms -> Form] BY <1>1 DEF Init
  <1>3. TypeOK
    <2>1. error \in [Forms -> Error] /\ field \in [Forms -> Field] /\ call \in [Calls -> Call]
      BY <1>1 DEF Init
    <2>2. account \in [Emails -> Account] /\ asked \in [Forms -> Email]
      BY DEF Init, Account, Email
    <2> QED BY <1>2, <2>1, <2>2 DEF TypeOK, Init
  <1>4. \A f \in Forms : form[f].view = "fresh" /\ ~Waits(f) /\ error[f] = NoError
    BY DEF Init, Opened, Waits
  <1>5. \A k \in Calls : call[k] = IdleCall BY DEF Init
  <1>6. Linked BY <1>4 DEF Linked
  <1>7. CallsOk BY <1>5 DEF CallsOk, CallOk, IdleCall
  <1>8. Makers BY <1>4, <1>5 DEF Makers, Making, Created, IdleCall
  <1>9. Screens BY <1>4 DEF Screens, Hints, Checked, NoError, Created
  <1>10. Pinned BY DEF Init, Pinned, FormsAssumption
  <1> QED BY <1>3, <1>6, <1>7, <1>8, <1>9, <1>10 DEF IInv

\* Every step keeps the invariant.
LEMMA NextKeepsIInv ==
    ASSUME FormsAssumption, IInv, Next
    PROVE  IInv'
  <1>1. ASSUME NEW f \in Forms, FormStep(f) PROVE IInv'
    BY <1>1, OpenKeepsIInv, EditEmailKeepsIInv, EditPasswordKeepsIInv,
       SubmitRefusedKeepsIInv, SubmitKeepsIInv, SucceedsKeepsIInv,
       LoggedInKeepsIInv, FailsKeepsIInv, RejectsKeepsIInv DEF FormStep
  <1> QED BY <1>1, CallStepKeepsIInv, ElsewhereKeepsIInv, SignOutKeepsIInv DEF Next

\* The inductive invariant holds throughout.
THEOREM Invariance == ASSUME FormsAssumption PROVE Spec => []IInv
  <1>1. Init => IInv BY InitIInv
  <1>2. IInv /\ [Next]_vars => IInv' BY NextKeepsIInv, StutterKeepsIInv
  <1> QED BY <1>1, <1>2, PTL DEF Spec

\* Every variable keeps its type.
THEOREM TypeCorrect == ASSUME FormsAssumption PROVE Spec => []TypeOK
  BY Invariance, PTL DEF IInv

\* "Account created!" is said of an account that is there, and once for an
\* email, in any number of tabs and with any number of requests under way.
THEOREM CreationIsToldOnce == ASSUME FormsAssumption PROVE Spec => []CreatedOnce
  <1>1. IInv => CreatedOnce BY DEF IInv, Screens, Hints, Makers, CreatedOnce
  <1> QED BY <1>1, Invariance, PTL

\* "Log in" and "resend confirmation" are offered for accounts that exist.
THEOREM HintsAreTrue == ASSUME FormsAssumption PROVE Spec => []HintIsTrue
  <1>1. IInv => HintIsTrue BY DEF IInv, Screens, Hints, Claimed, HintIsTrue
  <1> QED BY <1>1, Invariance, PTL

\* A refusal at the email of a login or forgot-password form is about the email.
THEOREM BlameIsDeserved == ASSUME FormsAssumption PROVE Spec => []BlameIsRight
  <1>1. IInv => BlameIsRight BY DEF IInv, Screens, Hints, BlameIsRight
  <1> QED BY <1>1, Invariance, PTL

\* A submitted form shows the errors of the values it has now.
THEOREM ErrorsFollowValues == ASSUME FormsAssumption PROVE Spec => []ErrorsAreCurrent
  <1>1. IInv => ErrorsAreCurrent BY DEF IInv, Screens, Checked, ErrorsAreCurrent
  <1> QED BY <1>1, Invariance, PTL

\* Whoever is signed in has an account.
THEOREM SessionsHaveAccounts == ASSUME FormsAssumption PROVE Spec => []SignedInHasAccount
  <1>1. IInv => SignedInHasAccount BY DEF IInv, Pinned, SignedInHasAccount
  <1> QED BY <1>1, Invariance, PTL

-----------------------------------------------------------------------------
(* The strength meter of the signup form against the schema of that form.   *)

\* There are four classes of characters, so that a set of all but one of them
\* has fewer than four, and one of two of them has two.
LEMMA ClassCounts ==
    ASSUME NEW S \in SUBSET Classes
    PROVE  /\ Cardinality(S) \in 0..4
           /\ Cardinality(S) = 4 => S = Classes
           /\ \A a, b \in S : a # b => Cardinality(S) >= 2
  <1>1. IsFiniteSet(Classes) /\ Cardinality(Classes) = 4
    <2>1. IsFiniteSet({}) /\ Cardinality({}) = 0 BY FS_EmptySet
    <2>2. IsFiniteSet({"lower"}) /\ Cardinality({"lower"}) = 1 BY FS_Singleton
    <2>3. IsFiniteSet({"lower"} \cup {"upper"})
          /\ Cardinality({"lower"} \cup {"upper"}) = 2
      BY <2>2, FS_AddElement
    <2>4. IsFiniteSet({"lower", "upper"} \cup {"digit"})
          /\ Cardinality({"lower", "upper"} \cup {"digit"}) = 3
      <3>1. {"lower"} \cup {"upper"} = {"lower", "upper"} OBVIOUS
      <3> QED BY <2>3, <3>1, FS_AddElement
    <2>5. IsFiniteSet({"lower", "upper", "digit"} \cup {"other"})
          /\ Cardinality({"lower", "upper", "digit"} \cup {"other"}) = 4
      <3>1. {"lower", "upper"} \cup {"digit"} = {"lower", "upper", "digit"} OBVIOUS
      <3> QED BY <2>4, <3>1, FS_AddElement
    <2>6. {"lower", "upper", "digit"} \cup {"other"} = Classes BY DEF Classes
    <2> QED BY <2>5, <2>6
  <1>2. /\ IsFiniteSet(S) /\ Cardinality(S) \in Nat /\ Cardinality(S) <= 4
        /\ Cardinality(S) = 4 => S = Classes
    BY <1>1, FS_Subset, FS_CardinalityType
  <1>3. ASSUME NEW a \in S, NEW b \in S, a # b
        PROVE  Cardinality(S) >= 2
    <2>1. IsFiniteSet({a}) /\ Cardinality({a}) = 1 BY FS_Singleton
    <2>2. Cardinality({a} \cup {b}) = 2 BY <1>3, <2>1, FS_AddElement
    <2>3. {a} \cup {b} \subseteq S OBVIOUS
    <2> QED BY <1>2, <2>2, <2>3, FS_Subset
  <1> QED BY <1>2, <1>3

\* A password the schema takes fills two segments at least, and one that fills
\* all four is taken.  In between the meter may call "strong" what the schema
\* refuses: letters and a sign, without a digit.
THEOREM MeterAgrees ==
    ASSUME NEW p \in [length: Nat, classes: SUBSET Classes]
    PROVE  /\ SignupSchemaTakes(p) => StrengthLevel(p) \in 2..4
           /\ StrengthLevel(p) = 4 => SignupSchemaTakes(p)
  <1>1. p.length \in Nat /\ p.classes \in SUBSET Classes OBVIOUS
  <1>2. /\ Cardinality(p.classes) \in 0..4
        /\ Cardinality(p.classes) = 4 => p.classes = Classes
        /\ \A a, b \in p.classes : a # b => Cardinality(p.classes) >= 2
    BY <1>1, ClassCounts
  <1>3. CASE p.length < 8
    <2>1. StrengthLevel(p) \in {0, 1}
      BY <1>1, <1>3 DEF StrengthLevel
    <2> QED BY <1>1, <1>3, <2>1 DEF SignupSchemaTakes
  <1>4. CASE p.length >= 8
    <2>1. StrengthLevel(p) = IF Cardinality(p.classes) <= 1 THEN 1
                             ELSE Cardinality(p.classes)
      <3>1. p.length # 0 /\ p.length \notin 1..7 BY <1>1, <1>4
      <3> QED BY <3>1, Zenon DEF StrengthLevel
    <2>2. SignupSchemaTakes(p) => Cardinality(p.classes) >= 2
      <3> SUFFICES ASSUME SignupSchemaTakes(p) PROVE Cardinality(p.classes) >= 2
        OBVIOUS
      <3>1. PICK a \in p.classes : a \in {"lower", "upper"} BY DEF SignupSchemaTakes
      <3>2. "digit" \in p.classes /\ a # "digit" BY <3>1 DEF SignupSchemaTakes
      <3> QED BY <1>2, <3>1, <3>2
    <2>3. p.classes = Classes => SignupSchemaTakes(p)
      BY <1>4 DEF SignupSchemaTakes, Classes
    <2> QED BY <1>2, <2>1, <2>2, <2>3
  <1> QED BY <1>1, <1>3, <1>4
=============================================================================
