----------------------------- MODULE Registration -----------------------------
(***************************************************************************)
(* Registration of users and their channels: the rows of users, channels   *)
(* and verification_tokens that POST /auth/register writes in three        *)
(* transactions, and the forgotPassword and resendConfirmation calls that  *)
(* may find a user whose registration is still under way.                  *)
(*                                                                         *)
(* All emails share the part before the @, so that every channel wants the *)
(* same nickname.  A user is named by the call that registers it.          *)
(***************************************************************************)
EXTENDS Naturals, FiniteSets

CONSTANTS
    Registers,  \* register calls, each made once
    Issues,     \* concurrent forgotPassword and resendConfirmation calls
    Emails,     \* addresses with one local part
    NoEmail,    \* the email of a row that does not exist
    Base,       \* the nickname made from the local part
    Suffixed,   \* the nicknames it can get with a random suffix
    Taken,      \* the nicknames of users that were there before
    NoName,     \* the nickname of a row that does not exist
    NoUser,     \* the user of an issue call that is not at work
    MaxRetries, \* MAX_RETRIES
    Faults      \* the failures that may happen, a subset of FaultKinds

\* "api": a query throws or the process dies; "mail": the mail server refuses.
FaultKinds == {"api", "mail"}

Nicknames == Suffixed \cup {Base}

ASSUME RegistrationAssumption ==
    /\ NoEmail \notin Emails
    /\ NoName \notin Nicknames
    /\ Taken \subseteq Nicknames
    /\ NoUser \notin Registers
    /\ MaxRetries \in Nat
    /\ Faults \subseteq FaultKinds

VARIABLES
    email,      \* [Registers -> column email of the users row, if there is one]
    nickname,   \* [Registers -> column nickname of the user's channels row]
    pinned,     \* [Registers -> a verification_tokens row refers to the user]
    register,   \* [Registers -> a register call]
    issue       \* [Issues -> a forgotPassword or resendConfirmation call]

vars == <<email, nickname, pinned, register, issue>>

\* 201, an error, or no answer that can be trusted: the process died, or the
\* compensation of a failure failed itself.
Ended == {"done", "failed", "died"}

\* nickname is the one the call tries next, attempt the loop's counter.
Register == [pc: {"idle", "save", "check", "insert", "undo", "token", "mail"} \cup Ended,
             email: Emails \cup {NoEmail}, nickname: Nicknames,
             attempt: 0..MaxRetries]

Issue == [pc: {"idle", "token"}, user: Registers \cup {NoUser}]

NoRegister == [pc |-> "idle", email |-> NoEmail, nickname |-> Base, attempt |-> 0]
NoIssue == [pc |-> "idle", user |-> NoUser]

TypeOK ==
    /\ email \in [Registers -> Emails \cup {NoEmail}]
    /\ nickname \in [Registers -> Nicknames \cup {NoName}]
    /\ pinned \in [Registers -> BOOLEAN]
    /\ register \in [Registers -> Register]
    /\ issue \in [Issues -> Issue]

Init ==
    /\ email = [u \in Registers |-> NoEmail]
    /\ nickname = [u \in Registers |-> NoName]
    /\ pinned = [u \in Registers |-> FALSE]
    /\ register = [u \in Registers |-> NoRegister]
    /\ issue = [i \in Issues |-> NoIssue]

Exists(u) == email[u] # NoEmail
HasChannel(u) == nickname[u] # NoName
EmailTaken(e) == \E u \in Registers : email[u] = e
NameTaken(n) == n \in Taken \/ \E u \in Registers : nickname[u] = n

RegisterAt(u, pc) == [pc |-> pc, email |-> register[u].email,
    nickname |-> register[u].nickname, attempt |-> register[u].attempt]

-----------------------------------------------------------------------------
(* register: find the user, save it, then createChannel.                    *)

\* EMAIL_ALREADY_EXISTS, or on to hashing the password.
FindUser(u, e) ==
    /\ register[u] = NoRegister
    /\ register' = [register EXCEPT ![u] =
          [pc |-> IF EmailTaken(e) THEN "failed" ELSE "save",
           email |-> e, nickname |-> Base, attempt |-> 0]]
    /\ UNCHANGED <<email, nickname, pinned, issue>>

\* The unique constraint refuses an email that was saved meanwhile.
SaveUser(u) ==
    /\ register[u].pc = "save"
    /\ \/ /\ EmailTaken(register[u].email)
          /\ register' = [register EXCEPT ![u] = RegisterAt(u, "failed")]
          /\ UNCHANGED email
       \/ /\ ~EmailTaken(register[u].email)
          /\ email' = [email EXCEPT ![u] = register[u].email]
          /\ register' = [register EXCEPT ![u] = RegisterAt(u, "check")]
    /\ UNCHANGED <<nickname, pinned, issue>>

\* Faulty variant: a retry is not counted.
CheckNickname_NotCounted(u) ==
    /\ register[u].pc = "check"
    /\ \/ /\ ~NameTaken(register[u].nickname)
          /\ register' = [register EXCEPT ![u] = RegisterAt(u, "insert")]
       \/ /\ NameTaken(register[u].nickname)
          /\ \E n \in Suffixed : register' = [register EXCEPT ![u] =
                [pc |-> "check", email |-> register[u].email,
                 nickname |-> n, attempt |-> register[u].attempt]]
    /\ UNCHANGED <<email, nickname, pinned, issue>>

\* Faulty variant: the loop runs once too often.
CheckNickname_OneMore(u) ==
    /\ register[u].pc = "check"
    /\ \/ /\ ~NameTaken(register[u].nickname)
          /\ register' = [register EXCEPT ![u] = RegisterAt(u, "insert")]
       \/ /\ NameTaken(register[u].nickname)
          /\ register[u].attempt <= MaxRetries
          /\ \E n \in Suffixed : register' = [register EXCEPT ![u] =
                [pc |-> "check", email |-> register[u].email,
                 nickname |-> n, attempt |-> register[u].attempt + 1]]
    /\ UNCHANGED <<email, nickname, pinned, issue>>

\* A taken nickname is replaced, with a random suffix, MaxRetries times.
CheckNickname(u) ==
    /\ register[u].pc = "check"
    /\ \/ /\ ~NameTaken(register[u].nickname)
          /\ register' = [register EXCEPT ![u] = RegisterAt(u, "insert")]
       \/ /\ NameTaken(register[u].nickname)
          /\ register[u].attempt < MaxRetries
          /\ \E n \in Suffixed : register' = [register EXCEPT ![u] =
                [pc |-> "check", email |-> register[u].email,
                 nickname |-> n, attempt |-> register[u].attempt + 1]]
       \/ /\ NameTaken(register[u].nickname)
          /\ register[u].attempt = MaxRetries
          /\ register' = [register EXCEPT ![u] = RegisterAt(u, "undo")]
    /\ UNCHANGED <<email, nickname, pinned, issue>>

\* Faulty variant: the failed insert is not noticed.
InsertChannel_Swallowed(u) ==
    /\ register[u].pc = "insert"
    /\ nickname' = IF NameTaken(register[u].nickname) THEN nickname
                   ELSE [nickname EXCEPT ![u] = register[u].nickname]
    /\ register' = [register EXCEPT ![u] = RegisterAt(u, "token")]
    /\ UNCHANGED <<email, pinned, issue>>

\* The insert and the commit.  A nickname inserted since the check aborts the
\* transaction: the code draws another suffix, and its next query fails.
InsertChannel(u) ==
    /\ register[u].pc = "insert"
    /\ \/ /\ ~NameTaken(register[u].nickname)
          /\ nickname' = [nickname EXCEPT ![u] = register[u].nickname]
          /\ register' = [register EXCEPT ![u] = RegisterAt(u, "token")]
       \/ /\ NameTaken(register[u].nickname)
          /\ register' = [register EXCEPT ![u] = RegisterAt(u, "undo")]
          /\ UNCHANGED nickname
    /\ UNCHANGED <<email, pinned, issue>>

\* Faulty variant: the user is not deleted.
UndoUser_Kept(u) ==
    /\ register[u].pc = "undo"
    /\ register' = [register EXCEPT ![u] = RegisterAt(u, "failed")]
    /\ UNCHANGED <<email, nickname, pinned, issue>>

\* createUserWithChannel deletes the user it saved; the foreign key of a
\* verification token that names the user refuses that.
UndoUser(u) ==
    /\ register[u].pc = "undo"
    /\ email' = [email EXCEPT ![u] = IF pinned[u] THEN email[u] ELSE NoEmail]
    /\ register' = [register EXCEPT ![u] = RegisterAt(u, "failed")]
    /\ UNCHANGED <<nickname, pinned, issue>>

CreateToken(u) ==
    /\ register[u].pc = "token"
    /\ pinned' = [pinned EXCEPT ![u] = TRUE]
    /\ register' = [register EXCEPT ![u] = RegisterAt(u, "mail")]
    /\ UNCHANGED <<email, nickname, issue>>

SendMail(u) ==
    /\ register[u].pc = "mail"
    /\ register' = [register EXCEPT ![u] = RegisterAt(u, "done")]
    /\ UNCHANGED <<email, nickname, pinned, issue>>

MailRefused(u) ==
    /\ "mail" \in Faults
    /\ register[u].pc = "mail"
    /\ register' = [register EXCEPT ![u] = RegisterAt(u, "failed")]
    /\ UNCHANGED <<email, nickname, pinned, issue>>

\* A query throws: createChannel is compensated, anything else is not.
RegisterThrows(u) ==
    /\ "api" \in Faults
    /\ \/ /\ register[u].pc \in {"check", "insert"}
          /\ register' = [register EXCEPT ![u] = RegisterAt(u, "undo")]
       \/ /\ register[u].pc \in {"save", "token"}
          /\ register' = [register EXCEPT ![u] = RegisterAt(u, "failed")]
       \/ /\ register[u].pc = "undo"
          /\ register' = [register EXCEPT ![u] = RegisterAt(u, "died")]
    /\ UNCHANGED <<email, nickname, pinned, issue>>

RegisterDies(u) ==
    /\ "api" \in Faults
    /\ register[u].pc \notin Ended \cup {"idle"}
    /\ register' = [register EXCEPT ![u] = RegisterAt(u, "died")]
    /\ UNCHANGED <<email, nickname, pinned, issue>>

-----------------------------------------------------------------------------
(* forgotPassword and resendConfirmation, for the rows they pin.            *)

IssueRead(i, u) ==
    /\ issue[i] = NoIssue
    /\ Exists(u)
    /\ issue' = [issue EXCEPT ![i] = [pc |-> "token", user |-> u]]
    /\ UNCHANGED <<email, nickname, pinned, register>>

\* The foreign key refuses a token for a user that was deleted meanwhile.  The
\* mail that follows changes no state, whether it is sent or throws.
IssueToken(i) ==
    /\ issue[i].pc = "token"
    /\ \/ /\ Exists(issue[i].user)
          /\ pinned' = [pinned EXCEPT ![issue[i].user] = TRUE]
       \/ /\ ~Exists(issue[i].user)
          /\ UNCHANGED pinned
    /\ issue' = [issue EXCEPT ![i] = NoIssue]
    /\ UNCHANGED <<email, nickname, register>>

IssueDies(i) ==
    /\ "api" \in Faults
    /\ issue[i] # NoIssue
    /\ issue' = [issue EXCEPT ![i] = NoIssue]
    /\ UNCHANGED <<email, nickname, pinned, register>>

-----------------------------------------------------------------------------
RegisterStep(u) ==
    \/ SaveUser(u) \/ CheckNickname(u) \/ InsertChannel(u) \/ UndoUser(u)
    \/ CreateToken(u) \/ SendMail(u)

Next ==
    \/ \E u \in Registers, e \in Emails : FindUser(u, e)
    \/ \E u \in Registers :
          RegisterStep(u) \/ MailRefused(u) \/ RegisterThrows(u) \/ RegisterDies(u)
    \/ \E i \in Issues, u \in Registers : IssueRead(i, u)
    \/ \E i \in Issues : IssueToken(i) \/ IssueDies(i)

Spec == Init /\ [][Next]_vars

\* A call in progress goes on.
FairSpec == Spec /\ \A u \in Registers : WF_vars(RegisterStep(u))

-----------------------------------------------------------------------------
(* Properties *)

\* A call that got as far as the confirmation mail leaves a complete account,
\* whatever the calls around it did, and 201 is answered to no other call.
SuccessMeansAccount == \A u \in Registers :
    register[u].pc \in {"mail", "done"} => Exists(u) /\ HasChannel(u) /\ pinned[u]

\* An error that is answered leaves a user without a channel, whose email can
\* never be registered again, in one case only: a verification token was issued
\* for it meanwhile, and the foreign key refused the compensating delete.
OnlyPinnedUsersLackAChannel == \A u \in Registers :
    register[u].pc \in {"done", "failed"} /\ Exists(u) /\ ~HasChannel(u) =>
        pinned[u]

\* A registration comes to its end however many nicknames are taken.
RegistrationEnds == \A u \in Registers :
    register[u].pc # "idle" ~> register[u].pc \in Ended

\* The awaits a call has before it at most: each replaced nickname costs one.
StepsLeft(u) ==
    CASE register[u].pc = "idle"   -> 6 + MaxRetries - register[u].attempt
      [] register[u].pc = "save"   -> 5 + MaxRetries - register[u].attempt
      [] register[u].pc = "check"  -> 4 + MaxRetries - register[u].attempt
      [] register[u].pc = "insert" -> 3
      [] register[u].pc = "token"  -> 2
      [] register[u].pc \in {"undo", "mail"} -> 1
      [] OTHER -> 0

\* No call goes back to where it was, by itself or because of the calls around
\* it: every step of its own takes it nearer to its end, so that it ends after
\* MaxRetries + 6 steps at the latest.
CallsMakeHeadway == [][\A u \in Registers :
    register'[u] # register[u] => StepsLeft(u)' < StepsLeft(u)]_vars

\* What the documents claim and the code does not keep.

\* An email whose prefix is taken registers (phase-02-auth.md:185), a concurrent
\* insert of the nickname included (:462): only a taken email is refused.
OnlyTakenEmailsAreRefused == \A u \in Registers :
    register[u].pc = "failed" =>
        \E w \in Registers \ {u} : register[w].email = register[u].email
=============================================================================
