--------------------------- MODULE SessionStore ---------------------------
(***************************************************************************)
(* What the refresh-token sessions promise, without requests, locks or     *)
(* time: a session is opened for a user, rotated into a new session of the *)
(* same user, or closed by its user, each in one step; it is never opened  *)
(* twice and never comes back.                                             *)
(***************************************************************************)
CONSTANTS Users, Tokens, NoUser, NoToken

VARIABLES
  session,  \* token -> the user it authenticates, NoUser if none
  origin,   \* live session -> the session it was rotated from, or NoToken
  spent,    \* the live sessions that have been rotated
  closed    \* the sessions their user logged out

storeVars == <<session, origin, spent, closed>>

Live == {t \in Tokens : session[t] # NoUser}

Fresh == Tokens \ (Live \cup closed)

StoreInit ==
  /\ session = [t \in Tokens |-> NoUser]
  /\ origin = [t \in Tokens |-> NoToken]
  /\ spent = {}
  /\ closed = {}

Open(u, t) ==
  /\ t \in Fresh
  /\ session' = [session EXCEPT ![t] = u]
  /\ UNCHANGED <<origin, spent, closed>>

\* A session may be rotated again: the grace period is not visible here.
Rotate(t, new) ==
  /\ t \in Live
  /\ new \in Fresh
  /\ session' = [session EXCEPT ![new] = session[t]]
  /\ origin' = [origin EXCEPT ![new] = t]
  /\ spent' = spent \cup {t}
  /\ UNCHANGED closed

\* One session or several, all of the same user.
Close(u, S) ==
  /\ \A t \in S : session[t] = u
  /\ session' = [t \in Tokens |-> IF t \in S THEN NoUser ELSE session[t]]
  /\ origin' = [t \in Tokens |-> IF t \in S THEN NoToken ELSE origin[t]]
  /\ spent' = spent \ S
  /\ closed' = closed \cup S

StoreNext ==
  \/ \E u \in Users, t \in Tokens : Open(u, t)
  \/ \E t, new \in Tokens : Rotate(t, new)
  \/ \E u \in Users, S \in SUBSET Tokens : Close(u, S)

StoreSpec == StoreInit /\ [][StoreNext]_storeVars

-----------------------------------------------------------------------------
(* What follows for the owner of a session.                                *)

StoreTypes ==
  /\ session \in [Tokens -> Users \cup {NoUser}]
  /\ origin \in [Tokens -> Tokens \cup {NoToken}]
  /\ spent \subseteq Live
  /\ closed \subseteq Tokens \ Live

\* A live session that was rotated from another one belongs to the user of that
\* session, which is spent, or was closed: a refresh never crosses users.
FamiliesHaveOneUser ==
  \A t \in Live : origin[t] # NoToken =>
    \/ origin[t] \in closed
    \/ origin[t] \in spent /\ session[origin[t]] = session[t]

\* Going back from a session to the one it was rotated from, and so on, ends at a
\* login or at a closed session: no session is its own ancestor.
FamiliesHaveRoots ==
  \A S \in SUBSET Live : S # {} => \E t \in S : origin[t] \notin S

\* A session ends only by being closed, for ever, and never changes hands.
Steady == /\ closed \subseteq closed'
          /\ \A t \in Live : t \in closed' \/ session'[t] = session[t]

SessionsAreSteady == [][Steady]_storeVars
=============================================================================
