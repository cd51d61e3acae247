------------------------------ MODULE AuthForms ------------------------------
(***************************************************************************)
(* The signup, login and forgot-password forms of one browser, the routes  *)
(* of the frontend server behind them, and the API's answers: which values *)
(* a form lets through, what the API does with them step by step, and      *)
(* where the form shows a refusal.                                         *)
(*                                                                         *)
(* Each form is open in a tab of its own.  The visitor may go on typing    *)
(* while a request is under way, and a request whose answer was lost goes  *)
(* on at the API while the form is submitted again.                        *)
(***************************************************************************)
EXTENDS Naturals, FiniteSets

CONSTANTS
    Forms,     \* tabs with a form
    Calls,     \* requests under way at once (a bound)
    NoCall,    \* the request of a form that waits for none
    Emails,    \* addresses that everybody accepts
    Unusual,   \* an address zod accepts and class-validator refuses
    NoEmail,   \* a blank or malformed address
    Passwords, \* the passwords visitors type
    Faults     \* the failures that may happen, a subset of FaultKinds

\* "api": a query or a mail throws, or the throttler refuses; "network": a
\* request or its answer is lost, or the answer is not JSON.
FaultKinds == {"api", "network"}

\* A password is its length and the classes of characters it has.
Classes == {"lower", "upper", "digit", "other"}
Blank == [length |-> 0, classes |-> {}]

ASSUME FormsAssumption ==
    /\ NoCall \notin Calls
    /\ Unusual \notin Emails /\ NoEmail \notin Emails /\ Unusual # NoEmail
    /\ Passwords \subseteq [length: Nat, classes: SUBSET Classes]
    /\ Faults \subseteq FaultKinds

VARIABLES
    form,    \* [Forms -> what the tab shows and waits for]
    field,   \* [Forms -> the values in the fields]
    error,   \* [Forms -> the errors under the fields and above the form]
    cookie,  \* the user in the session cookie of the browser
    call,    \* [Calls -> a request under way]
    account, \* [Emails -> the account as the API has it]
    named,   \* the emails whose account a verification token refers to, which
             \*    keeps it from being deleted
    asked,   \* history: [Forms -> the email of the submission that is under
             \*          way or whose outcome the form shows]
    blind,   \* history: the forms that were typed in while their first
             \*          submission was under way, when nothing is validated
    undone   \* history: the emails whose new account was deleted again

past == <<asked, blind, undone>>
users == <<account, named>>
vars == <<form, field, error, cookie, call, users, past>>

Email == Emails \cup {Unusual, NoEmail}
Password == Passwords \cup {Blank}
Kinds == {"signup", "login", "forgot"}

\* view: fresh until the first submission is over, then submitted; success
\* replaces the form.
Form == [kind: Kinds, view: {"fresh", "submitted", "success"},
         call: Calls \cup {NoCall}]

\* Left out are three fields of a signup and the errors under them: the full
\* name, the terms, and confirmPassword, which is compared with the password.
Field == [email: Email, password: Password]
Error == [email: {"none", "schema", "server"}, password: {"none", "schema"},
          root: {"none", "serverError", "confirmation"}]

Statuses == {0, 200, 201, 204, 400, 401, 403, 409, 500}
Call == [pc: {"idle", "sent", "found", "saved", "answered"}, kind: Kinds,
         email: Email, password: Password, status: Statuses]
Account == {"none", "unconfirmed", "confirmed"}

Opened(k) == [kind |-> k, view |-> "fresh", call |-> NoCall]
Empty == [email |-> NoEmail, password |-> Blank]
NoError == [email |-> "none", password |-> "none", root |-> "none"]
IdleCall == [pc |-> "idle", kind |-> "signup", email |-> NoEmail,
             password |-> Blank, status |-> 0]

TypeOK ==
    /\ form \in [Forms -> Form]
    /\ field \in [Forms -> Field]
    /\ error \in [Forms -> Error]
    /\ cookie \in Emails \cup {NoEmail}
    /\ call \in [Calls -> Call]
    /\ account \in [Emails -> Account]
    /\ named \in SUBSET Emails
    /\ asked \in [Forms -> Email]
    /\ blind \in SUBSET Forms
    /\ undone \in SUBSET Emails

Init ==
    /\ form \in [Forms -> {Opened(k) : k \in Kinds}]
    /\ field = [f \in Forms |-> Empty]
    /\ error = [f \in Forms |-> NoError]
    /\ cookie = NoEmail
    /\ call = [k \in Calls |-> IdleCall]
    /\ account = [e \in Emails |-> "none"]
    /\ named = {}
    /\ asked = [f \in Forms |-> NoEmail]
    /\ blind = {}
    /\ undone = {}

-----------------------------------------------------------------------------
(* What the forms and the API accept.                                       *)

SignupSchemaTakes(p) ==
    /\ p.length >= 8
    /\ p.classes \cap {"lower", "upper"} # {}
    /\ "digit" \in p.classes

LoginSchemaTakes(p) == p.length >= 1

SchemaTakes(kind, p) ==
    /\ kind = "signup" => SignupSchemaTakes(p)
    /\ kind = "login" => LoginSchemaTakes(p)

EmailError(e) == IF e = NoEmail THEN "schema" ELSE "none"
PasswordError(kind, p) == IF SchemaTakes(kind, p) THEN "none" ELSE "schema"

RegisterDtoTakes(v) == v.password.length \in 8..128
LoginDtoTakes(v) == v.password.length >= 1

\* The ValidationPipe; every DTO has an email.
DtoTakes(kind, v) ==
    /\ v.email \in Emails
    /\ kind = "signup" => RegisterDtoTakes(v)
    /\ kind = "login" => LoginDtoTakes(v)

\* getStrengthLevel: how many segments of the meter are filled.
StrengthLevel(p) ==
    CASE p.length = 0 -> 0
      [] p.length \in 1..7 -> 1
      [] OTHER -> IF Cardinality(p.classes) <= 1 THEN 1 ELSE Cardinality(p.classes)

-----------------------------------------------------------------------------
(* The visitor.                                                             *)

Waits(f) == form[f].call # NoCall
FormAt(f, view, k) == [kind |-> form[f].kind, view |-> view, call |-> k]
Abandoned(k) == \A f \in Forms : form[f].call # k

\* What goes on of a request nobody waits for any more: nothing, if all it can
\* still do is answer.
Left(c) ==
    IF c.pc = "answered" \/ c.kind = "forgot" \/ c.email = Unusual THEN IdleCall ELSE c

\* A page is opened, by its address or a link: a request under way is left to
\* itself.  A form that was never submitted is not left (it might as well have
\* been the other one from the start).
Open(f, kind) ==
    /\ form[f].view # "fresh" \/ Waits(f)
    /\ form' = [form EXCEPT ![f] = Opened(kind)]
    /\ field' = [field EXCEPT ![f] = Empty]
    /\ error' = [error EXCEPT ![f] = NoError]
    /\ asked' = [asked EXCEPT ![f] = NoEmail]
    /\ blind' = blind \ {f}
    /\ call' = [k \in Calls |-> IF k = form[f].call THEN Left(call[k]) ELSE call[k]]
    /\ UNCHANGED <<cookie, users, undone>>

Typed(f) == blind' = IF form[f].view = "fresh" /\ Waits(f) THEN blind \cup {f} ELSE blind

\* Typing is never disabled.  Once the form has been submitted, a change
\* validates its own field again, and only that one.
EditEmail(f, e) ==
    /\ form[f].view # "success"
    /\ e # field[f].email
    /\ field' = [field EXCEPT ![f].email = e]
    /\ error' = IF form[f].view # "submitted" THEN error
                ELSE [error EXCEPT ![f].email = EmailError(e)]
    /\ Typed(f)
    /\ UNCHANGED <<form, cookie, call, users, asked, undone>>

\* Faulty variant: a change does not validate its field again.
EditPassword_NotChecked(f, p) ==
    /\ form[f].view # "success"
    /\ form[f].kind # "forgot"
    /\ p # field[f].password
    /\ field' = [field EXCEPT ![f].password = p]
    /\ Typed(f)
    /\ UNCHANGED <<form, error, cookie, call, users, asked, undone>>

EditPassword(f, p) ==
    /\ form[f].view # "success"
    /\ form[f].kind # "forgot"
    /\ p # field[f].password
    /\ field' = [field EXCEPT ![f].password = p]
    /\ error' = IF form[f].view # "submitted" THEN error
                ELSE [error EXCEPT ![f].password = PasswordError(form[f].kind, p)]
    /\ Typed(f)
    /\ UNCHANGED <<form, cookie, call, users, asked, undone>>

\* handleSubmit runs the schema on what the fields hold, and clears the errors
\* above the form.
Errors(f) == [email |-> EmailError(field[f].email), root |-> "none",
              password |-> PasswordError(form[f].kind, field[f].password)]

\* What the fields hold is refused; that of a signup perhaps for its name or its
\* terms, or because confirmPassword is not the password.
SubmitRefused(f) ==
    /\ form[f].view # "success"
    /\ ~Waits(f)
    /\ form[f].kind = "signup" \/ Errors(f) # NoError
    /\ error' = [error EXCEPT ![f] = Errors(f)]
    /\ form' = [form EXCEPT ![f] = FormAt(f, "submitted", NoCall)]
    /\ asked' = [asked EXCEPT ![f] = NoEmail]
    /\ blind' = blind \ {f}
    /\ UNCHANGED <<field, cookie, call, users, undone>>

\* onSubmit sends the values the fields have now.  The button is disabled while
\* a request is under way.
Submit(f) ==
    /\ form[f].view # "success"
    /\ ~Waits(f)
    /\ Errors(f) = NoError
    /\ error' = [error EXCEPT ![f] = NoError]
    /\ \E k \in Calls :
          /\ call[k] = IdleCall
          /\ form' = [form EXCEPT ![f] = FormAt(f, form[f].view, k)]
          /\ call' = [call EXCEPT ![k] = [pc |-> "sent", kind |-> form[f].kind,
                email |-> field[f].email, password |-> field[f].password, status |-> 0]]
    /\ asked' = [asked EXCEPT ![f] = field[f].email]
    /\ blind' = blind \ {f}
    /\ UNCHANGED <<field, cookie, users, undone>>

\* The logout route, or the end of the cookie's life.
SignOut ==
    /\ cookie # NoEmail
    /\ cookie' = NoEmail
    /\ UNCHANGED <<form, field, error, call, users, past>>

-----------------------------------------------------------------------------
(* The API: calls from elsewhere.                                           *)

Exists(e) == account[e] # "none"
Elsewhere == UNCHANGED <<form, field, error, cookie, call, past>>

\* forgotPassword and resendConfirmation, asked for elsewhere, create a token;
\* so does a call below that throws only after it.
Link(e) ==
    /\ Exists(e)
    /\ named' = named \cup {e}
    /\ UNCHANGED account /\ Elsewhere

\* The link of a confirmation mail.
Confirm(e) ==
    /\ e \in named
    /\ account[e] = "unconfirmed"
    /\ account' = [account EXCEPT ![e] = "confirmed"]
    /\ UNCHANGED named /\ Elsewhere

\* resetPassword saves all of the user it read with its token.  One that read it
\* before the confirmation takes that back, at any time after: all such a reset
\* needs is a link mailed while the account was unconfirmed.
Unconfirm(e) ==
    /\ account[e] = "confirmed"
    /\ account' = [account EXCEPT ![e] = "unconfirmed"]
    /\ UNCHANGED named /\ Elsewhere

-----------------------------------------------------------------------------
(* The API, called by the routes of the frontend server.                    *)

Ask(k, kind) == call[k].pc = "sent" /\ call[k].kind = kind /\ DtoTakes(kind, call[k])
CallAt(k, pc, status) == [pc |-> pc, kind |-> call[k].kind, email |-> call[k].email,
                          password |-> call[k].password, status |-> status]

\* An answer nobody waits for any more is dropped.
Reply(k, status) == call' = [call EXCEPT ![k] =
    IF Abandoned(k) THEN IdleCall ELSE CallAt(k, "answered", status)]

\* 400 VALIDATION_ERROR.
Refuse(k) ==
    /\ call[k].pc = "sent"
    /\ ~DtoTakes(call[k].kind, call[k])
    /\ Reply(k, 400)
    /\ UNCHANGED <<form, field, error, cookie, users, past>>

\* 409 EMAIL_ALREADY_EXISTS, or on to hashing the password.
FindUser(k) ==
    /\ Ask(k, "signup")
    /\ IF Exists(call[k].email) THEN Reply(k, 409)
       ELSE call' = [call EXCEPT ![k] = CallAt(k, "found", 0)]
    /\ UNCHANGED <<form, field, error, cookie, users, past>>

\* Faulty variant: the email has no unique constraint.
SaveUser_NotUnique(k) ==
    /\ call[k].pc = "found"
    /\ account' = [account EXCEPT ![call[k].email] = "unconfirmed"]
    /\ call' = [call EXCEPT ![k] = CallAt(k, "saved", 0)]
    /\ UNCHANGED <<form, field, error, cookie, named, past>>

\* The unique constraint turns an email saved meanwhile into a 500.
SaveUser(k) ==
    /\ call[k].pc = "found"
    /\ \/ /\ Exists(call[k].email)
          /\ Reply(k, 500)
          /\ UNCHANGED account
       \/ /\ ~Exists(call[k].email)
          /\ account' = [account EXCEPT ![call[k].email] = "unconfirmed"]
          /\ call' = [call EXCEPT ![k] = CallAt(k, "saved", 0)]
    /\ UNCHANGED <<form, field, error, cookie, named, past>>

\* The channel, the token and the mail.
Registered(k) ==
    /\ call[k].pc = "saved"
    /\ Reply(k, 201)
    /\ named' = named \cup {call[k].email}
    /\ UNCHANGED <<form, field, error, cookie, account, past>>

\* createChannel fails: the user is deleted again, unless a token names it.
UndoUser(k) ==
    /\ "api" \in Faults
    /\ call[k].pc = "saved"
    /\ call[k].email \notin named
    /\ account' = [account EXCEPT ![call[k].email] = "none"]
    /\ undone' = undone \cup {call[k].email}
    /\ Reply(k, 500)
    /\ UNCHANGED <<form, field, error, cookie, named, asked, blind>>

\* Faulty variant: an account logs in before it is confirmed.
LoginStatus_Unconfirmed(a, rightPassword) ==
    IF a = "none" \/ ~rightPassword THEN 401 ELSE 200

\* INVALID_CREDENTIALS, EMAIL_NOT_CONFIRMED or a pair of tokens.
LoginStatus(a, rightPassword) ==
    IF a = "none" \/ ~rightPassword THEN 401
    ELSE IF a = "unconfirmed" THEN 403 ELSE 200

\* Whether the password is that of the account is left open.  The session of a
\* login whose page was left may still reach the browser.
Login(k) ==
    /\ Ask(k, "login")
    /\ \E rightPassword \in BOOLEAN :
          LET status == LoginStatus(account[call[k].email], rightPassword)
          IN /\ Reply(k, status)
             /\ \/ UNCHANGED cookie
                \/ Abandoned(k) /\ status = 200 /\ cookie' = call[k].email
    /\ UNCHANGED <<form, field, error, users, past>>

\* A token, if the email is registered; the same answer otherwise.
Forgot(k) ==
    /\ Ask(k, "forgot")
    /\ Reply(k, 204)
    /\ named' = IF Exists(call[k].email) THEN named \cup {call[k].email} ELSE named
    /\ UNCHANGED <<form, field, error, cookie, account, past>>

\* The throttler refuses, or a query or a mail throws; what was saved before
\* stays.  500 stands for 429 as well: the forms show them alike.
Throws(k) ==
    /\ "api" \in Faults
    /\ call[k].pc \in {"sent", "found", "saved"}
    /\ Reply(k, 500)
    /\ UNCHANGED <<form, field, error, cookie, users, past>>

-----------------------------------------------------------------------------
(* The answer.                                                              *)

AtEmail(e) == [e EXCEPT !.email = "server"]
AtRoot(e, r) == [e EXCEPT !.root = r]

\* Faulty variant: a 400 is bound to the email too.
SignupError_BadRequest(status, e) ==
    IF status \in {400, 409} THEN AtEmail(e) ELSE AtRoot(e, "serverError")

\* mapSignupErrorToForm, mapLoginErrorToForm, mapForgotPasswordErrorToForm.
SignupError(status, e) ==
    IF status = 409 THEN AtEmail(e) ELSE AtRoot(e, "serverError")

\* Faulty variant: invalid credentials are shown at the password.
LoginError_AtPassword(status, e) ==
    CASE status = 403 -> AtRoot(e, "confirmation")
      [] status = 401 -> [e EXCEPT !.password = "server"]
      [] OTHER -> AtRoot(e, "serverError")

\* Faulty variant: invalid credentials are shown at the email.
LoginError_AtEmail(status, e) ==
    CASE status = 403 -> AtRoot(e, "confirmation")
      [] status \in {400, 401} -> AtEmail(e)
      [] OTHER -> AtRoot(e, "serverError")

LoginError(status, e) ==
    CASE status = 403 -> AtRoot(e, "confirmation")
      [] status = 400 -> AtEmail(e)
      [] OTHER -> AtRoot(e, "serverError")

ForgotError(status, e) ==
    IF status = 400 THEN AtEmail(e) ELSE AtRoot(e, "serverError")

ErrorFor(kind, status, e) ==
    CASE kind = "signup" -> SignupError(status, e)
      [] kind = "login" -> LoginError(status, e)
      [] kind = "forgot" -> ForgotError(status, e)

Answered(f, status) ==
    /\ Waits(f)
    /\ call[form[f].call].pc = "answered"
    /\ call[form[f].call].status = status
    /\ call' = [call EXCEPT ![form[f].call] = IdleCall]

\* The success view takes the place of the form and its fields.
Succeeds(f) ==
    /\ Answered(f, 201) \/ Answered(f, 204)
    /\ form' = [form EXCEPT ![f] = FormAt(f, "success", NoCall)]
    /\ field' = [field EXCEPT ![f] = Empty]
    /\ error' = [error EXCEPT ![f] = NoError]
    /\ UNCHANGED <<cookie, users, past>>

\* The route has set the cookie.  The form stays; router.refresh() renders the
\* page with the session again, which changes nothing else.
LoggedIn(f) ==
    /\ Answered(f, 200)
    /\ cookie' = call[form[f].call].email
    /\ form' = [form EXCEPT ![f] = FormAt(f, "submitted", NoCall)]
    /\ asked' = [asked EXCEPT ![f] = NoEmail]
    /\ UNCHANGED <<field, error, users, blind, undone>>

\* The envelope is mapped onto the form, whatever the fields hold by now.
Fails(f) ==
    /\ \E status \in {400, 401, 403, 409, 500} :
          /\ Answered(f, status)
          /\ error' = [error EXCEPT ![f] = ErrorFor(form[f].kind, status, error[f])]
    /\ form' = [form EXCEPT ![f] = FormAt(f, "submitted", NoCall)]
    /\ UNCHANGED <<field, cookie, users, past>>

\* fetch or json rejects: handleSubmit ends without an error in the form.  The
\* API may have got the request, and goes on with it.
Rejects(f) ==
    /\ "network" \in Faults
    /\ Waits(f)
    /\ form' = [form EXCEPT ![f] = FormAt(f, "submitted", NoCall)]
    /\ \/ call' = [call EXCEPT ![form[f].call] = Left(call[form[f].call])]
       \/ /\ call[form[f].call].pc = "sent"
          /\ call' = [call EXCEPT ![form[f].call] = IdleCall]
    /\ asked' = [asked EXCEPT ![f] = NoEmail]
    /\ UNCHANGED <<field, error, cookie, users, blind, undone>>

-----------------------------------------------------------------------------
FormStep(f) ==
    \/ \E kind \in Kinds : Open(f, kind)
    \/ \E e \in Email : EditEmail(f, e)
    \/ \E p \in Passwords : EditPassword(f, p)
    \/ SubmitRefused(f) \/ Submit(f)
    \/ Succeeds(f) \/ LoggedIn(f) \/ Fails(f) \/ Rejects(f)

CallStep(k) ==
    \/ Refuse(k) \/ FindUser(k) \/ SaveUser(k) \/ Registered(k) \/ UndoUser(k)
    \/ Login(k) \/ Forgot(k) \/ Throws(k)

Next ==
    \/ \E f \in Forms : FormStep(f)
    \/ \E k \in Calls : CallStep(k)
    \/ \E e \in Emails : Link(e) \/ Confirm(e) \/ Unconfirm(e)
    \/ SignOut

Spec == Init /\ [][Next]_vars

-----------------------------------------------------------------------------
(* Properties.                                                              *)

Created(f) == form[f].kind = "signup" /\ form[f].view = "success"

\* "Account created!" is said once for an email, and the account is there,
\* whatever two tabs, lost answers and repeated submissions do.
CreatedOnce == \A f \in Forms : Created(f) =>
    /\ asked[f] \in Emails /\ Exists(asked[f])
    /\ \A g \in Forms \ {f} : Created(g) => asked[g] # asked[f]

\* The hints a form gives with a link are about an account that exists: "log
\* in" at the email of a signup, unless the visitor has gone on typing, and
\* "resend confirmation" above a login.  (A registration undone by a failed
\* channel is the exception: it was there when the hint was given.)
HintIsTrue == \A f \in Forms :
    (\/ form[f].kind = "signup" /\ error[f].email = "server" /\ field[f].email = asked[f]
     \/ error[f].root = "confirmation")
    => asked[f] \in Emails /\ (Exists(asked[f]) \/ asked[f] \in undone)

\* A login or forgot-password form blames the email for a 400, and the email
\* it was asked with is what the API refused: nothing else gets past the schema.
BlameIsRight == \A f \in Forms :
    form[f].kind \in {"login", "forgot"} /\ error[f].email = "server" => asked[f] = Unusual

\* Whoever is signed in has an account, which no failed registration takes away
\* again: to be confirmed, and a password reset may undo that, an account needs
\* a token, and a token keeps the account from being deleted.
SignedInHasAccount == cookie \in Emails => Exists(cookie)

\* A form that has been submitted shows an error at every email and password
\* that its own check refuses and at no other, unless it was typed while the
\* first submission was under way.  (Of confirmPassword this would be false: a
\* change of the password does not validate it again.)
ErrorsAreCurrent == \A f \in Forms :
    form[f].view = "submitted" /\ f \notin blind =>
       /\ field[f].email = NoEmail => error[f].email # "none"
       /\ error[f].email = "schema" => field[f].email = NoEmail
       /\ error[f].password = PasswordError(form[f].kind, field[f].password)
=============================================================================
