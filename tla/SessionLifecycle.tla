--------------------------- MODULE SessionLifecycle ---------------------------
(***************************************************************************)
(* What the API and the frontend server promise about a session, a chain   *)
(* of refresh tokens that starts with a login: it is opened once, for the  *)
(* browser that logged in; no other browser ever comes to hold it; and     *)
(* once it has ended nothing brings it back to life.                       *)
(*                                                                         *)
(* Neither tokens nor calls appear here.  A session can have ended while   *)
(* somebody still holds it, and can be live although nobody holds it any   *)
(* more: the code allows both.                                             *)
(***************************************************************************)
EXTENDS TLAPS

CONSTANTS Sessions, Browsers

\* [Sessions -> its state, and the browsers with a token of it, in the cookie
\*              or in a call under way]
VARIABLE session

Unopened == [state |-> "none", holders |-> {}]

Init == session = [s \in Sessions |-> Unopened]

\* A login.
Opens(old, new) ==
    /\ old = Unopened
    /\ \E b \in Browsers : new = [state |-> "live", holders |-> {b}]

\* A logout, a reset, a detected reuse or a rotation that dies ends it; an
\* answer that is lost, or a bad one, takes it away from its browser.
Fades(old, new) ==
    /\ new.state = old.state \/ (old.state = "live" /\ new.state = "ended")
    /\ new.holders \subseteq old.holders

\* One step of the code can end many sessions.
Next == \A s \in Sessions :
    \/ Opens(session[s], session'[s])
    \/ Fades(session[s], session'[s])

Spec == Init /\ [][Next]_session

-----------------------------------------------------------------------------
(* Properties *)

\* A session is never in the hands of two browsers.
HeldByOne == \A s \in Sessions : \A b, c \in session[s].holders : b = c

\* A session is opened for one browser and no other comes to hold it, so it has
\* one holder at most, whatever implements it.
THEOREM OneHolder == Spec => []HeldByOne
<1>1. Init => HeldByOne
  BY DEF Init, HeldByOne, Unopened
<1>2. HeldByOne /\ [Next]_session => HeldByOne'
  <2> SUFFICES ASSUME HeldByOne, [Next]_session, NEW s \in Sessions
               PROVE  \A b, c \in session'[s].holders : b = c
    BY DEF HeldByOne
  <2>1. CASE session' = session
    BY <2>1 DEF HeldByOne
  <2>2. CASE Opens(session[s], session'[s])
    BY <2>2 DEF Opens
  <2>3. CASE Fades(session[s], session'[s])
    BY <2>3 DEF Fades, HeldByOne
  <2> QED
    BY <2>1, <2>2, <2>3 DEF Next
<1> QED
  BY <1>1, <1>2, PTL DEF Spec
=============================================================================
