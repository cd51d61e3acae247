-------------------------- MODULE VerificationTokens --------------------------
(***************************************************************************)
(* The links mailed to one user: the rows of verification_tokens, the      *)
(* calls that issue them (register's own, resendConfirmation,              *)
(* forgotPassword) and the calls that consume them (confirm,               *)
(* resetPassword), which also write the row of the user.                   *)
(*                                                                         *)
(* A consuming call reads the token with its user, then saves both side by *)
(* side without a transaction or a condition.                              *)
(***************************************************************************)
EXTENDS Naturals, FiniteSets

CONSTANTS
    Tokens,     \* tokens, as many as the user is ever mailed
    NoToken,    \* no token, or the password the user registered with
    Calls,      \* concurrent calls
    Faults      \* the failures that may happen, a subset of FaultKinds

\* "api": a query throws or the process dies.
FaultKinds == {"api"}

ASSUME TokensAssumption ==
    /\ NoToken \notin Tokens
    /\ Faults \subseteq FaultKinds

VARIABLES
    used_at,        \* [Tokens -> column used_at, "absent" without a row]
    type,           \* [Tokens -> column type]
    expired,        \* [Tokens -> expires_at has passed]
    is_confirmed,   \* the user's column is_confirmed
    password,       \* the token whose reset wrote the user's password
    call,           \* [Calls -> a call in flight]
    latest,         \* history: [Types -> the token issued last]
    uses,           \* history: [Tokens -> how many calls wrote the user for it, 2: more
                    \*           than one]
    overlapped,     \* history: has a call started while another one was in flight
    failed          \* history: has a query failed or a call died

row == <<used_at, type, expired>>
user == <<is_confirmed, password>>
past == <<overlapped, failed>>
vars == <<row, user, call, latest, uses, past>>

Types == {"email_confirmation", "password_reset"}

\* confirmed is the column of the user as the call read it.  "write": neither
\* row is saved yet, "token" and "user": only that one is still to be saved.
Call == [pc: {"idle", "invalidate", "create", "write", "token", "user"},
         type: Types, token: Tokens \cup {NoToken}, confirmed: BOOLEAN]

NewCall(pc, k, t) ==
    [pc |-> pc, type |-> k, token |-> t, confirmed |-> is_confirmed]

NoCall == [pc |-> "idle", type |-> "email_confirmation",
           token |-> NoToken, confirmed |-> FALSE]

CallAt(c, pc) == [pc |-> pc, type |-> call[c].type, token |-> call[c].token,
                  confirmed |-> call[c].confirmed]

TypeOK ==
    /\ used_at \in [Tokens -> {"absent", "null", "set"}]
    /\ type \in [Tokens -> Types]
    /\ expired \in [Tokens -> BOOLEAN]
    /\ is_confirmed \in BOOLEAN
    /\ password \in Tokens \cup {NoToken}
    /\ call \in [Calls -> Call]
    /\ \A c \in Calls :
          /\ call[c].pc \in {"write", "token", "user"} <=> call[c].token # NoToken
          /\ call[c].token # NoToken => /\ used_at[call[c].token] # "absent"
                                       /\ type[call[c].token] = call[c].type
    /\ latest \in [Types -> Tokens \cup {NoToken}]
    /\ uses \in [Tokens -> 0..2]
    /\ overlapped \in BOOLEAN
    /\ failed \in BOOLEAN

Init ==
    /\ used_at = [t \in Tokens |-> "absent"]
    /\ type = [t \in Tokens |-> "email_confirmation"]
    /\ expired = [t \in Tokens |-> FALSE]
    /\ is_confirmed = FALSE
    /\ password = NoToken
    /\ call = [c \in Calls |-> NoCall]
    /\ latest = [k \in Types |-> NoToken]
    /\ uses = [t \in Tokens |-> 0]
    /\ overlapped = FALSE
    /\ failed = FALSE

Active(k) == {t \in Tokens : used_at[t] = "null" /\ type[t] = k}

AtRest == \A c \in Calls : call[c] = NoCall

\* A call starts, whatever others are in flight.
Start(c) ==
    /\ call[c] = NoCall
    /\ overlapped' = (overlapped \/ ~AtRest)
    /\ UNCHANGED failed

-----------------------------------------------------------------------------
(* Issuing a token: the earlier ones are marked used, then one is created.  *)

\* Faulty variant: the earlier tokens are left as they are.
Issue_NoInvalidate(c, k) ==
    /\ Start(c)
    /\ k = "email_confirmation" => ~is_confirmed
    /\ call' = [call EXCEPT ![c] = NewCall("create", k, NoToken)]
    /\ UNCHANGED <<row, user, latest, uses>>

\* resendConfirmation does nothing for a confirmed user.
Issue(c, k) ==
    /\ Start(c)
    /\ k = "email_confirmation" => ~is_confirmed
    /\ call' = [call EXCEPT ![c] = NewCall("invalidate", k, NoToken)]
    /\ UNCHANGED <<row, user, latest, uses>>

\* Faulty variant: the tokens of both types are invalidated.
Invalidate_AnyType(c) ==
    /\ call[c].pc = "invalidate"
    /\ used_at' = [t \in Tokens |-> IF used_at[t] = "null" THEN "set" ELSE used_at[t]]
    /\ call' = [call EXCEPT ![c] = CallAt(c, "create")]
    /\ UNCHANGED <<type, expired, user, latest, uses, past>>

Invalidate(c) ==
    /\ call[c].pc = "invalidate"
    /\ used_at' = [t \in Tokens |->
          IF t \in Active(call[c].type) THEN "set" ELSE used_at[t]]
    /\ call' = [call EXCEPT ![c] = CallAt(c, "create")]
    /\ UNCHANGED <<type, expired, user, latest, uses, past>>

\* The link is mailed with the row in place.
Create(c, t) ==
    /\ call[c].pc = "create"
    /\ used_at[t] = "absent"
    /\ used_at' = [used_at EXCEPT ![t] = "null"]
    /\ type' = [type EXCEPT ![t] = call[c].type]
    /\ latest' = [latest EXCEPT ![call[c].type] = t]
    /\ call' = [call EXCEPT ![c] = NoCall]
    /\ UNCHANGED <<expired, user, uses, past>>

-----------------------------------------------------------------------------
(* confirm and resetPassword.  A used or expired token has no step here.    *)

\* Faulty variant: the row that was found is not looked at.
Consume_AnyRow(c, t) ==
    /\ Start(c)
    /\ call' = [call EXCEPT ![c] = NewCall("write", type[t], t)]
    /\ UNCHANGED <<row, user, latest, uses>>

Consume(c, t) ==
    /\ Start(c)
    /\ used_at[t] = "null" /\ ~expired[t]
    /\ call' = [call EXCEPT ![c] = NewCall("write", type[t], t)]
    /\ UNCHANGED <<row, user, latest, uses>>

\* Faulty variant: used_at is set on the record but never saved.
SaveToken_Unsaved(c) ==
    /\ call[c].pc \in {"write", "token"}
    /\ call' = [call EXCEPT ![c] =
          IF call[c].pc = "write" THEN CallAt(c, "user") ELSE NoCall]
    /\ UNCHANGED <<row, user, latest, uses, past>>

SaveToken(c) ==
    /\ call[c].pc \in {"write", "token"}
    /\ used_at' = [used_at EXCEPT ![call[c].token] = "set"]
    /\ call' = [call EXCEPT ![c] =
          IF call[c].pc = "write" THEN CallAt(c, "user") ELSE NoCall]
    /\ UNCHANGED <<type, expired, user, latest, uses, past>>

\* Faulty variant: a reset asks for a new confirmation.
SaveUser_Unconfirms(c) ==
    /\ call[c].pc \in {"write", "user"}
    /\ \/ /\ call[c].type = "email_confirmation"
          /\ is_confirmed' = TRUE
          /\ UNCHANGED password
       \/ /\ call[c].type = "password_reset"
          /\ is_confirmed' = FALSE
          /\ password' = call[c].token
    /\ uses' = [uses EXCEPT ![call[c].token] = IF @ = 0 THEN 1 ELSE 2]
    /\ call' = [call EXCEPT ![c] =
          IF call[c].pc = "write" THEN CallAt(c, "token") ELSE NoCall]
    /\ UNCHANGED <<row, latest, past>>

\* save writes every column that differs from what the call read: a reset
\* writes is_confirmed back.
SaveUser(c) ==
    /\ call[c].pc \in {"write", "user"}
    /\ \/ /\ call[c].type = "email_confirmation"
          /\ is_confirmed' = TRUE
          /\ UNCHANGED password
       \/ /\ call[c].type = "password_reset"
          /\ is_confirmed' = call[c].confirmed
          /\ password' = call[c].token
    /\ uses' = [uses EXCEPT ![call[c].token] = IF @ = 0 THEN 1 ELSE 2]
    /\ call' = [call EXCEPT ![c] =
          IF call[c].pc = "write" THEN CallAt(c, "token") ELSE NoCall]
    /\ UNCHANGED <<row, latest, past>>

-----------------------------------------------------------------------------
Expire(t) ==
    /\ used_at[t] # "absent" /\ ~expired[t]
    /\ expired' = [expired EXCEPT ![t] = TRUE]
    /\ UNCHANGED <<used_at, type, user, call, latest, uses, past>>

\* One of the two writes fails, the other one is still under way.
WriteFails(c) ==
    /\ "api" \in Faults
    /\ failed' = TRUE
    /\ call[c].pc = "write"
    /\ \E pc \in {"token", "user"} : call' = [call EXCEPT ![c] = CallAt(c, pc)]
    /\ UNCHANGED <<row, user, latest, uses, overlapped>>

CallDies(c) ==
    /\ "api" \in Faults
    /\ failed' = TRUE
    /\ call[c] # NoCall
    /\ call' = [call EXCEPT ![c] = NoCall]
    /\ UNCHANGED <<row, user, latest, uses, overlapped>>

Next ==
    \/ \E c \in Calls, k \in Types : Issue(c, k)
    \/ \E c \in Calls, t \in Tokens : Create(c, t) \/ Consume(c, t)
    \/ \E c \in Calls :
          Invalidate(c) \/ SaveToken(c) \/ SaveUser(c)
          \/ WriteFails(c) \/ CallDies(c)
    \/ \E t \in Tokens : Expire(t)

Spec == Init /\ [][Next]_vars

-----------------------------------------------------------------------------
(* Properties *)

\* While no call fails, the link mailed last works until it is used, whatever
\* other calls do: it may be dead only while a call that will mail a newer one
\* is under way.
LatestLinkWorks == ~failed => \A k \in Types :
    /\ latest[k] # NoToken
    /\ \A c \in Calls : ~(call[c].pc \in {"invalidate", "create"} /\ call[c].type = k)
    /\ \A c \in Calls : call[c].token # latest[k]
    /\ uses[latest[k]] = 0
    => used_at[latest[k]] = "null"

\* While no call fails, a link that changed the user is dead as soon as no call
\* with it is left, however many calls had it at once.
SpentLinksAreDead == ~failed => \A t \in Tokens :
    (\A c \in Calls : call[c].token # t) /\ uses[t] > 0 => used_at[t] = "set"

\* Until two calls overlap, and even if some fail, one link of each type is
\* alive: a new one "invalidates any previous unused" ones (phase-02-auth.md:376).
OneActiveLink == ~overlapped => \A k \in Types : Cardinality(Active(k)) <= 1

\* Until two calls overlap a confirmed user stays confirmed: after confirm the
\* user's "is_confirmed becomes true" (phase-02-auth.md:216).
ConfirmedIsFinal == [][~overlapped' /\ is_confirmed => is_confirmed']_vars
=============================================================================
