-------------------------- MODULE RegistrationProofs --------------------------
(***************************************************************************)
(* What holds of Registration for any number of calls, emails, nicknames   *)
(* and retries: the types, that success means a complete account, and that *)
(* an error leaves only a pinned user without a channel.                   *)
(***************************************************************************)
EXTENDS Registration, TLAPS

\* What a call has behind it at each point: before the save nothing, then the
\* user, and from the token on the channel too; past that the token as well.
Progress == \A u \in Registers :
    /\ register[u].pc = "save" => register[u].email \in Emails
    /\ register[u].pc \in {"idle", "save"} => ~Exists(u) /\ ~HasChannel(u)
    /\ register[u].pc \in {"check", "insert", "undo"} => Exists(u) /\ ~HasChannel(u)
    /\ register[u].pc \in {"token", "mail", "done"} => Exists(u) /\ HasChannel(u)
    /\ register[u].pc \in {"mail", "done"} => pinned[u]
    /\ register[u].pc = "failed" => ~Exists(u) \/ HasChannel(u) \/ pinned[u]

IInv == TypeOK /\ Progress

\* A call moved on to another point is still a call.
LEMMA MovedOn ==
  ASSUME TypeOK, NEW u \in Registers,
         NEW pc \in {"check", "insert", "undo", "token", "mail", "done", "failed", "died"}
  PROVE  RegisterAt(u, pc) \in Register
<1>1. register[u] \in Register
  BY DEF TypeOK
<1>2. /\ register[u].email \in Emails \cup {NoEmail}
      /\ register[u].nickname \in Nicknames
      /\ register[u].attempt \in 0..MaxRetries
  BY <1>1 DEF Register
<1> QED
  BY <1>2 DEF RegisterAt, Register, Ended

\* Every step keeps the variables within their types.
LEMMA TypeStep == ASSUME TypeOK, [Next]_vars PROVE TypeOK'
<1> USE RegistrationAssumption, MovedOn DEF TypeOK, Ended
<1>1. ASSUME NEW u \in Registers, NEW e \in Emails, FindUser(u, e) PROVE TypeOK'
  BY <1>1 DEF FindUser, Register, Nicknames
<1>2. ASSUME NEW u \in Registers, SaveUser(u) PROVE TypeOK'
  <2>1. register[u].email \in Emails \cup {NoEmail}
    BY DEF Register
  <2> QED
    BY <1>2, <2>1 DEF SaveUser
<1>3. ASSUME NEW u \in Registers, CheckNickname(u) PROVE TypeOK'
  <2>1. register[u] \in Register
    OBVIOUS
  <2>2. /\ register[u].email \in Emails \cup {NoEmail}
        /\ register[u].attempt \in 0..MaxRetries
    BY <2>1 DEF Register
  <2> DEFINE Retry(n) == [pc |-> "check", email |-> register[u].email,
                          nickname |-> n, attempt |-> register[u].attempt + 1]
  <2>3. ASSUME NEW n \in Suffixed, register[u].attempt < MaxRetries,
               register' = [register EXCEPT ![u] = Retry(n)]
        PROVE  TypeOK'
    <3>1. Retry(n) \in Register
      BY <2>2, <2>3 DEF Register, Nicknames
    <3> QED
      BY <1>3, <2>3, <3>1 DEF CheckNickname
  <2>4. CASE \E pc \in {"insert", "undo"} :
                register' = [register EXCEPT ![u] = RegisterAt(u, pc)]
    BY <1>3, <2>4 DEF CheckNickname
  <2> QED
    BY <1>3, <2>3, <2>4 DEF CheckNickname
<1>4. ASSUME NEW u \in Registers, InsertChannel(u) PROVE TypeOK'
  <2>1. register[u].nickname \in Nicknames
    BY DEF Register
  <2> QED
    BY <1>4, <2>1 DEF InsertChannel
<1>5. ASSUME NEW u \in Registers, UndoUser(u) PROVE TypeOK'
  BY <1>5 DEF UndoUser
<1>6. ASSUME NEW u \in Registers, CreateToken(u) PROVE TypeOK'
  BY <1>6 DEF CreateToken
<1>7. ASSUME NEW u \in Registers, SendMail(u) PROVE TypeOK'
  BY <1>7 DEF SendMail
<1>8. ASSUME NEW u \in Registers, MailRefused(u) PROVE TypeOK'
  BY <1>8 DEF MailRefused
<1>9. ASSUME NEW u \in Registers, RegisterThrows(u) PROVE TypeOK'
  BY <1>9 DEF RegisterThrows
<1>10. ASSUME NEW u \in Registers, RegisterDies(u) PROVE TypeOK'
  BY <1>10 DEF RegisterDies
<1>11. ASSUME NEW i \in Issues, NEW u \in Registers, IssueRead(i, u) PROVE TypeOK'
  BY <1>11 DEF IssueRead, Issue, NoIssue, HasChannel
<1>12. ASSUME NEW i \in Issues, IssueToken(i) PROVE TypeOK'
  BY <1>12 DEF IssueToken, Issue, NoIssue
<1>13. ASSUME NEW i \in Issues, IssueDies(i) PROVE TypeOK'
  BY <1>13 DEF IssueDies, NoIssue, Issue
<1>14. ASSUME UNCHANGED vars PROVE TypeOK'
  BY <1>14 DEF vars
<1> HIDE DEF TypeOK
<1> QED
  BY <1>1, <1>2, <1>3, <1>4, <1>5, <1>6, <1>7, <1>8, <1>9, <1>10, <1>11, <1>12, <1>13, <1>14
  DEF Next, RegisterStep

\* Every step keeps the account as far as its call has got.
LEMMA ProgressStep == ASSUME IInv, [Next]_vars PROVE Progress'
<1> USE RegistrationAssumption DEF IInv, Progress, Exists, HasChannel, TypeOK, Register, Issue, Ended, Nicknames
<1>1. ASSUME NEW u \in Registers, NEW e \in Emails, FindUser(u, e) PROVE Progress'
  BY <1>1 DEF FindUser, NoRegister
<1>2. ASSUME NEW u \in Registers, SaveUser(u) PROVE Progress'
  BY <1>2 DEF SaveUser, RegisterAt
<1>3. ASSUME NEW u \in Registers, CheckNickname(u) PROVE Progress'
  BY <1>3 DEF CheckNickname, RegisterAt
<1>4. ASSUME NEW u \in Registers, InsertChannel(u) PROVE Progress'
  BY <1>4 DEF InsertChannel, RegisterAt
<1>5. ASSUME NEW u \in Registers, UndoUser(u) PROVE Progress'
  BY <1>5 DEF UndoUser, RegisterAt
<1>6. ASSUME NEW u \in Registers, CreateToken(u) PROVE Progress'
  BY <1>6 DEF CreateToken, RegisterAt
<1>7. ASSUME NEW u \in Registers, SendMail(u) PROVE Progress'
  BY <1>7 DEF SendMail, RegisterAt
<1>8. ASSUME NEW u \in Registers, MailRefused(u) PROVE Progress'
  BY <1>8 DEF MailRefused, RegisterAt
<1>9. ASSUME NEW u \in Registers, RegisterThrows(u) PROVE Progress'
  BY <1>9 DEF RegisterThrows, RegisterAt
<1>10. ASSUME NEW u \in Registers, RegisterDies(u) PROVE Progress'
  BY <1>10 DEF RegisterDies, RegisterAt
<1>11. ASSUME NEW i \in Issues, NEW u \in Registers, IssueRead(i, u) PROVE Progress'
  BY <1>11 DEF IssueRead
<1>12. ASSUME NEW i \in Issues, IssueToken(i) PROVE Progress'
  BY <1>12 DEF IssueToken
<1>13. ASSUME NEW i \in Issues, IssueDies(i) PROVE Progress'
  BY <1>13 DEF IssueDies
<1>14. ASSUME UNCHANGED vars PROVE Progress'
  BY <1>14 DEF vars
<1> HIDE DEF IInv, Progress
<1> QED
  BY <1>1, <1>2, <1>3, <1>4, <1>5, <1>6, <1>7, <1>8, <1>9, <1>10, <1>11, <1>12, <1>13, <1>14
  DEF Next, RegisterStep

\* IInv holds before the first call.
LEMMA InvInit == Init => IInv
BY RegistrationAssumption DEF Init, IInv, TypeOK, Progress, NoRegister, NoIssue,
   Register, Issue, Ended, Nicknames, Exists, HasChannel

\* IInv holds in every reachable state, whatever fails and in whatever order.
THEOREM Invariance == Spec => []IInv
<1>1. IInv /\ [Next]_vars => IInv'
  BY TypeStep, ProgressStep DEF IInv
<1> QED
  BY InvInit, <1>1, PTL DEF Spec

\* Every reachable state is of its type; in particular no call retries more
\* than MaxRetries times.
THEOREM TypeCorrect == Spec => []TypeOK
<1>1. IInv => TypeOK
  BY DEF IInv
<1> QED
  BY <1>1, Invariance, PTL

\* A call that sends the confirmation mail or answers 201 leaves its user, its
\* channel and its token, whatever other calls do and whatever fails.
THEOREM SuccessIsComplete == Spec => []SuccessMeansAccount
<1>1. IInv => SuccessMeansAccount
  BY DEF IInv, Progress, SuccessMeansAccount
<1> QED
  BY <1>1, Invariance, PTL

\* Of the registrations that answer, only those of a pinned user can leave it
\* without a channel.
THEOREM LeftoversArePinned == Spec => []OnlyPinnedUsersLackAChannel
<1>1. IInv => OnlyPinnedUsersLackAChannel
  BY DEF IInv, Progress, OnlyPinnedUsersLackAChannel
<1> QED
  BY <1>1, Invariance, PTL

-----------------------------------------------------------------------------
(* The end of a call: all of RegistrationEnds but the fairness *)

\* A call that moves on within createChannel or past it counts its attempts.
LEMMA Headway ==
    ASSUME TypeOK, NEW u \in Registers, register'[u].attempt = register[u].attempt,
           <<register[u].pc, register'[u].pc>> \in
               ({"save"} \X {"check", "failed", "died"})
                   \cup ({"check"} \X {"insert", "undo", "died"})
                   \cup ({"insert"} \X {"token", "undo", "died"})
                   \cup ({"token"} \X {"mail", "failed", "died"})
                   \cup ({"mail", "undo"} \X {"done", "failed", "died"})
    PROVE  StepsLeft(u)' < StepsLeft(u)
<1>1. register[u].attempt \in Nat /\ register[u].attempt <= MaxRetries
  BY RegistrationAssumption DEF TypeOK, Register
<1> QED
  BY <1>1, RegistrationAssumption DEF StepsLeft

\* A call has a number of steps left, whatever it has gone through.
LEMMA StepsAreCounted ==
    ASSUME TypeOK, NEW u \in Registers PROVE StepsLeft(u) \in 0..(MaxRetries + 6)
<1>1. register[u].attempt \in Nat /\ register[u].attempt <= MaxRetries
  BY RegistrationAssumption DEF TypeOK, Register
<1> QED
  BY <1>1, RegistrationAssumption DEF StepsLeft

\* Every step of a call takes it nearer to its end.
LEMMA HeadwayStep ==
    ASSUME TypeOK, [Next]_vars, NEW u \in Registers, register'[u] # register[u]
    PROVE  StepsLeft(u)' < StepsLeft(u)
<1>0. register[u].attempt \in Nat /\ register[u].attempt <= MaxRetries
  BY RegistrationAssumption DEF TypeOK, Register
<1>1. ASSUME NEW w \in Registers, NEW e \in Emails, FindUser(w, e)
      PROVE  StepsLeft(u)' < StepsLeft(u)
  <2>1. register[u] = NoRegister /\ register'[u].attempt = 0
        /\ register'[u].pc \in {"failed", "save"}
    BY <1>1 DEF FindUser, TypeOK
  <2> QED
    BY <2>1, RegistrationAssumption DEF StepsLeft, NoRegister
<1>2. ASSUME NEW w \in Registers, SaveUser(w) PROVE StepsLeft(u)' < StepsLeft(u)
  <2>1. /\ register[u].pc = "save" /\ register'[u].pc \in {"check", "failed"}
        /\ register'[u].attempt = register[u].attempt
    BY <1>2 DEF SaveUser, TypeOK, RegisterAt
  <2> QED
    BY <2>1, Headway
<1>3. ASSUME NEW w \in Registers, CheckNickname(w) PROVE StepsLeft(u)' < StepsLeft(u)
  <2>1. /\ register[u].pc = "check"
        /\ \/ /\ register'[u].pc \in {"insert", "undo"}
              /\ register'[u].attempt = register[u].attempt
           \/ /\ register'[u].pc = "check" /\ register[u].attempt < MaxRetries
              /\ register'[u].attempt = register[u].attempt + 1
    BY <1>3 DEF CheckNickname, TypeOK, RegisterAt
  <2> QED
    BY <1>0, <2>1, Headway, RegistrationAssumption DEF StepsLeft
<1>4. ASSUME NEW w \in Registers, InsertChannel(w) PROVE StepsLeft(u)' < StepsLeft(u)
  <2>1. /\ register[u].pc = "insert" /\ register'[u].pc \in {"token", "undo"}
        /\ register'[u].attempt = register[u].attempt
    BY <1>4 DEF InsertChannel, TypeOK, RegisterAt
  <2> QED
    BY <2>1, Headway
<1>5. ASSUME NEW w \in Registers,
             UndoUser(w) \/ CreateToken(w) \/ SendMail(w) \/ MailRefused(w)
      PROVE  StepsLeft(u)' < StepsLeft(u)
  <2>1. /\ \/ register[u].pc = "token" /\ register'[u].pc = "mail"
           \/ register[u].pc \in {"undo", "mail"} /\ register'[u].pc \in {"done", "failed"}
        /\ register'[u].attempt = register[u].attempt
    BY <1>5 DEF UndoUser, CreateToken, SendMail, MailRefused, TypeOK, RegisterAt
  <2> QED
    BY <2>1, Headway
<1>6. ASSUME NEW w \in Registers, RegisterThrows(w) PROVE StepsLeft(u)' < StepsLeft(u)
  <2>1. /\ \/ register[u].pc \in {"check", "insert"} /\ register'[u].pc = "undo"
           \/ register[u].pc \in {"save", "token"} /\ register'[u].pc = "failed"
           \/ register[u].pc = "undo" /\ register'[u].pc = "died"
        /\ register'[u].attempt = register[u].attempt
    BY <1>6 DEF RegisterThrows, TypeOK, RegisterAt
  <2> QED
    BY <2>1, Headway
<1>7. ASSUME NEW w \in Registers, RegisterDies(w) PROVE StepsLeft(u)' < StepsLeft(u)
  <2>1. /\ register[u].pc \in {"save", "check", "insert", "undo", "token", "mail"}
        /\ register'[u].pc = "died" /\ register'[u].attempt = register[u].attempt
    BY <1>7 DEF RegisterDies, TypeOK, RegisterAt, Register, Ended
  <2> QED
    BY <2>1, Headway
<1>8. CASE UNCHANGED register
  BY <1>8
<1> QED
  BY <1>1, <1>2, <1>3, <1>4, <1>5, <1>6, <1>7, <1>8
     DEF Next, RegisterStep, IssueRead, IssueToken, IssueDies, vars

\* However many nicknames are taken and whatever fails, every step of a call
\* takes it nearer to its end, which is at most MaxRetries + 6 steps away.
THEOREM RetriesAreBounded ==
    Spec => /\ CallsMakeHeadway
            /\ [](\A u \in Registers : StepsLeft(u) \in 0..(MaxRetries + 6))
<1>1. TypeOK /\ [Next]_vars =>
          [\A u \in Registers :
              register'[u] # register[u] => StepsLeft(u)' < StepsLeft(u)]_vars
  BY HeadwayStep
<1>2. TypeOK => \A u \in Registers : StepsLeft(u) \in 0..(MaxRetries + 6)
  BY StepsAreCounted
<1> QED
  BY <1>1, <1>2, TypeCorrect, PTL DEF Spec, CallsMakeHeadway
=============================================================================
