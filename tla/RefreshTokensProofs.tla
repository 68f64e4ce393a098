------------------------ MODULE RefreshTokensProofs ------------------------
(* Theorems about RefreshTokens, for any users, tokens, requests and times. *)
EXTENDS RefreshTokens, TLAPS

\* The record of a request stays one when a token has been minted for it.
LEMMA MintedType ==
  ASSUME req \in [Requests -> Request], NEW r \in Requests, NEW p \in PCs,
         NEW t \in Tokens, NEW m \in Times \cup {Never}
  PROVE  /\ [req EXCEPT ![r].pc = p, ![r].new = t] \in [Requests -> Request]
         /\ [req EXCEPT ![r].pc = p, ![r].new = t, ![r].mark = m]
              \in [Requests -> Request]
<1> DEFINE q == [req EXCEPT ![r].pc = p]
<1>1. [req EXCEPT ![r].pc = p, ![r].new = t] \in [Requests -> Request]
  <2>1. q \in [Requests -> Request]
    BY DEF Request
  <2>2. \A f \in [Requests -> Request] :
          [f EXCEPT ![r].new = t] \in [Requests -> Request]
    BY DEF Request
  <2> QED
    BY <2>1, <2>2
<1>2. \A f \in [Requests -> Request] :
         [f EXCEPT ![r].mark = m] \in [Requests -> Request]
  BY DEF Request
<1> QED
  BY <1>1, <1>2

\* It stays one when a DELETE has gone on to its next row.
LEMMA LockedType ==
  ASSUME req \in [Requests -> Request], NEW r \in Requests, NEW T, NEW S,
         T \subseteq Tokens, S \subseteq Tokens
  PROVE  [req EXCEPT ![r].targets = T, ![r].rows = S] \in [Requests -> Request]
<1>1. [req EXCEPT ![r].targets = T] \in [Requests -> Request]
  BY DEF Request
<1>2. \A f \in [Requests -> Request] :
         [f EXCEPT ![r].rows = S] \in [Requests -> Request]
  BY DEF Request
<1> QED
  BY <1>1, <1>2

USE DEF Never, Times, LogoutKinds, Kinds, PCs, Request, minted

LEMMA InitInv == Init => IInv
<1> SUFFICES ASSUME Init PROVE IInv
  OBVIOUS
<1> USE DEF Init, Idle
<1>1. TypeOK
  BY GraceAssumption, LifetimeAssumption, MaxTimeAssumption DEF TypeOK
<1>2. LocksExclude /\ HeldRowsExist
  BY DEF LocksExclude, HeldRowsExist, Holds
<1>3. HandlersOK /\ TargetsOK
  BY DEF HandlersOK, TargetsOK
<1>4. NewRowsOK /\ RowsOK /\ NoSessionLost
  BY DEF NewRowsOK, RowsOK, NoSessionLost, Inserting, Committed
<1> QED
  BY <1>1, <1>2, <1>3, <1>4 DEF IInv, Consistent

LEMMA TypeStep == IInv /\ [Next]_vars => TypeOK'
<1> SUFFICES ASSUME IInv, [Next]_vars PROVE TypeOK'
  OBVIOUS
<1> USE LifetimeAssumption, MaxTimeAssumption, NoUserAssumption
        DEF TypeOK, IInv, Consistent, HandlersOK
<1>1. ASSUME NEW r \in Requests, NEW u \in Users, Login(r, u) PROVE TypeOK'
  BY <1>1 DEF Login, Start, Idle
<1>2. ASSUME NEW r \in Requests, NEW u \in Users, GoogleLogin(r, u)
      PROVE TypeOK'
  BY <1>2 DEF GoogleLogin, Start, Idle
<1>3. ASSUME NEW r \in Requests, NEW u \in Users, LogoutAll(r, u)
      PROVE TypeOK'
  BY <1>3 DEF LogoutAll, Start, Idle
<1>4. ASSUME NEW r \in Requests, NEW t \in delivered, Refresh(r, t)
      PROVE TypeOK'
  BY <1>4 DEF Refresh, Start, Idle
<1>5. ASSUME NEW r \in Requests, NEW t \in delivered, NEW u \in Users,
             Logout(r, u, t)
      PROVE TypeOK'
  BY <1>5 DEF Logout, Start, Idle
<1>6. ASSUME NEW r \in Requests, Generate(r) PROVE TypeOK'
  <2> PICK t \in Tokens :
        /\ Mint(t, req[r].user, NoToken)
        /\ req' = [req EXCEPT ![r].pc = "commit", ![r].new = t]
    BY <1>6 DEF Generate
  <2>1. req' \in [Requests -> Request]
    <3> HIDE DEF Request
    <3> QED
      BY MintedType
  <2> QED
    BY <1>6, <2>1 DEF Generate, Mint
<1>7. ASSUME NEW r \in Requests, CheckUser(r) PROVE TypeOK'
  <2>1. req' \in [Requests -> Request]
    BY <1>7 DEF CheckUser, Goto, Idle
  <2> QED
    BY <1>7, <2>1 DEF CheckUser
<1>8. ASSUME NEW r \in Requests, FindToken(r) PROVE TypeOK'
  BY <1>8 DEF FindToken, Goto, Idle
<1>9. ASSUME NEW r \in Requests, Mark(r) PROVE TypeOK'
  <2> PICK t \in Tokens :
        /\ Mint(t, req[r].user, req[r].tok)
        /\ req' = [req EXCEPT ![r].pc = "update", ![r].new = t, ![r].mark = now]
    BY <1>9 DEF Mark
  <2>1. req' \in [Requests -> Request]
    <3> HIDE DEF Request
    <3> QED
      BY MintedType
  <2> QED
    BY <1>9, <2>1 DEF Mark, Mint
<1>10. ASSUME NEW r \in Requests, CommitLogin(r) PROVE TypeOK'
  BY <1>10 DEF CommitLogin, Goto, NewRowsOK, Inserting
<1>11. ASSUME NEW r \in Requests, CommitRotation(r) PROVE TypeOK'
  BY <1>11 DEF CommitRotation, Goto, NewRowsOK, Inserting
<1>12. ASSUME NEW r \in Requests, CommitLogout(r) PROVE TypeOK'
  BY <1>12 DEF CommitLogout, Idle
<1>13. ASSUME NEW r \in Requests, Respond(r) PROVE TypeOK'
  BY <1>13 DEF Respond, Idle, NewRowsOK
<1>14. ASSUME NEW r \in Requests, Update(r) PROVE TypeOK'
  <2>1. req' \in [Requests -> Request]
    BY <1>14 DEF Update, Goto, Idle
  <2> QED
    BY <1>14, <2>1 DEF Update
<1>15. ASSUME NEW r \in Requests, Delete(r) PROVE TypeOK'
  <2>1. req' \in [Requests -> Request]
    <3> PICK t \in req[r].targets :
          req' = [req EXCEPT ![r].targets = @ \ {t},
                             ![r].rows = @ \cup ({t} \cap table)]
      BY <1>15 DEF Delete
    <3>1. /\ req[r].targets \ {t} \subseteq Tokens
          /\ req[r].rows \cup ({t} \cap table) \subseteq Tokens
      OBVIOUS
    <3> HIDE DEF Request
    <3>2. [req EXCEPT ![r].targets = req[r].targets \ {t},
                      ![r].rows = req[r].rows \cup ({t} \cap table)]
            \in [Requests -> Request]
      BY <3>1, LockedType
    <3> QED
      BY <3>2
  <2> QED
    BY <1>15, <2>1 DEF Delete
<1>16. ASSUME NEW r \in Requests, Abort(r) PROVE TypeOK'
  BY <1>16 DEF Abort, Idle
<1>17. CASE Tick
  BY <1>17 DEF Tick
<1>18. ASSUME NEW u \in Users, SetActive(u) PROVE TypeOK'
  BY <1>18 DEF SetActive
<1>19. CASE UNCHANGED vars
  BY <1>19 DEF vars
<1> QED
  BY <1>1, <1>2, <1>3, <1>4, <1>5, <1>6, <1>7, <1>8, <1>9, <1>10, <1>11,
     <1>12, <1>13, <1>14, <1>15, <1>16, <1>17, <1>18, <1>19
     DEF Next, Arrive, Work, Acquire

-----------------------------------------------------------------------------
\* Only a logout has rows to delete, and only a commit of a rotation and a
\* logout hold any.
LEMMA NoRows ==
  ASSUME IInv, NEW r \in Requests, req[r].pc # "delete"
  PROVE  /\ req[r].targets = {} /\ req[r].rows = {}
         /\ req[r].kind \notin LogoutKinds
         /\ \A t \in Tokens :
              Holds(r, t) <=> /\ req[r].pc = "commit" /\ req[r].kind = "refresh"
                              /\ req[r].tok = t
  BY DEF IInv, Consistent, TypeOK, TargetsOK, HandlersOK, Holds

(* Which rows were ever committed, and the parts of Consistent that speak  *)
(* of nothing but the table and the history.                               *)

LEMMA QuietRows ==
  ASSUME IInv, UNCHANGED <<minted, table, usedAt, delivered, logouts>>
  PROVE  /\ \A t \in Tokens : Committed(t)' <=> Committed(t)
         /\ RowsOK' /\ NoSessionLost'
  BY DEF IInv, Consistent, RowsOK, NoSessionLost, Committed

\* A step of r that neither mints nor gets r to a commit or an answer.
LEMMA QuietStep ==
  ASSUME IInv, NEW r \in Requests,
         UNCHANGED <<minted, table, usedAt, delivered, logouts>>,
         \A q \in Requests \ {r} : req'[q] = req[q],
         req'[r].pc \notin {"update", "commit", "respond"},
         HandlersOK!(r)',
         req'[r].rows = {},
         \A t \in req'[r].targets : req'[r].pc = "delete" /\ owner[t] = req'[r].user,
         req'[r].kind = "logout" => \A s, t \in req'[r].targets : s = t
  PROVE  Consistent'
<1>1. RowsOK' /\ NoSessionLost' /\ \A t \in Tokens : Committed(t)' <=> Committed(t)
  BY QuietRows
<1>2. \A t \in Tokens : ~ Holds(r, t)'
  BY DEF Holds
<1>3. \A q \in Requests \ {r}, t \in Tokens : Holds(q, t)' <=> Holds(q, t)
  BY DEF Holds
<1>4. LocksExclude'
  BY <1>2, <1>3 DEF LocksExclude, IInv, Consistent
<1>5. HeldRowsExist'
  BY <1>2, <1>3 DEF HeldRowsExist, IInv, Consistent
<1>6. HandlersOK'
  BY DEF HandlersOK, IInv, Consistent
<1>7. TargetsOK'
  BY DEF TargetsOK, IInv, Consistent
<1>8. NewRowsOK'
  <2>1. ~ Inserting(r)'
    BY DEF Inserting
  <2>2. \A q \in Requests \ {r} : Inserting(q)' <=> Inserting(q)
    BY DEF Inserting
  <2> QED
    BY <1>1, <2>1, <2>2 DEF NewRowsOK, IInv, Consistent, Birth
<1> QED
  BY <1>1, <1>4, <1>5, <1>6, <1>7, <1>8 DEF Consistent

LEMMA IdleStep ==
  ASSUME IInv, NEW r \in Requests, req' = [req EXCEPT ![r] = Idle],
         UNCHANGED <<minted, table, usedAt, delivered, logouts>>
  PROVE  Consistent'
<1>1. /\ req'[r] = Idle
      /\ \A q \in Requests \ {r} : req'[q] = req[q]
  BY DEF IInv, TypeOK
<1>2. HandlersOK!(r)'
  BY <1>1 DEF Idle
<1> QED
  BY <1>1, <1>2, QuietStep DEF Idle

LEMMA GotoFrame ==
  ASSUME TypeOK, NEW r \in Requests, NEW p \in PCs, Goto(r, p)
  PROVE  /\ \A q \in Requests \ {r} : req'[q] = req[q]
         /\ req'[r].pc = p
         /\ req'[r].kind = req[r].kind
         /\ req'[r].user = req[r].user
         /\ req'[r].tok = req[r].tok
         /\ req'[r].new = req[r].new
         /\ req'[r].mark = req[r].mark
         /\ req'[r].targets = req[r].targets
         /\ req'[r].rows = req[r].rows
  BY DEF TypeOK, Goto

-----------------------------------------------------------------------------
(* Arrivals.                                                               *)

LEMMA LoginStep ==
  ASSUME IInv, NEW r \in Requests, NEW u \in Users,
         Login(r, u) \/ GoogleLogin(r, u)
  PROVE  Consistent'
<1>1. /\ \A q \in Requests \ {r} : req'[q] = req[q]
      /\ req'[r].pc = "generate" /\ req'[r].kind = "login"
      /\ req'[r].user = u /\ req'[r].tok = NoToken
      /\ req'[r].targets = {} /\ req'[r].rows = {}
  <2>1. CASE Login(r, u)
    BY <2>1 DEF Login, Start, Idle, IInv, TypeOK
  <2>2. CASE GoogleLogin(r, u)
    BY <2>2 DEF GoogleLogin, Start, Idle, IInv, TypeOK
  <2> QED
    BY <2>1, <2>2
<1>2. UNCHANGED <<minted, table, usedAt, delivered, logouts>>
  BY DEF Login, GoogleLogin
<1> QED
  BY <1>1, <1>2, QuietStep

LEMMA RefreshStep ==
  ASSUME IInv, NEW r \in Requests, NEW t \in delivered, Refresh(r, t)
  PROVE  Consistent'
<1>1. /\ \A q \in Requests \ {r} : req'[q] = req[q]
      /\ req'[r].pc = "check_user" /\ req'[r].kind = "refresh"
      /\ req'[r].user = owner[t] /\ req'[r].tok = t
      /\ req'[r].targets = {} /\ req'[r].rows = {}
  BY DEF Refresh, Start, Idle, IInv, TypeOK
<1>2. UNCHANGED <<minted, table, usedAt, delivered, logouts>>
  BY DEF Refresh
<1>3. t \in Tokens /\ owner[t] \in Users
  <2>1. t \in Tokens /\ Committed(t)
    BY DEF IInv, Consistent, TypeOK, NoSessionLost
  <2> QED
    BY <2>1 DEF IInv, Consistent, TypeOK, Committed, RowsOK
<1> QED
  BY <1>1, <1>2, <1>3, QuietStep

LEMMA LogoutStep ==
  ASSUME IInv, NEW r \in Requests, NEW u \in Users,
         LogoutAll(r, u) \/ \E t \in delivered : Logout(r, u, t)
  PROVE  Consistent'
<1>1. /\ \A q \in Requests \ {r} : req'[q] = req[q]
      /\ req'[r].pc = "delete" /\ req'[r].kind \in LogoutKinds
      /\ req'[r].user = u /\ req'[r].tok = NoToken /\ req'[r].rows = {}
      /\ \A s \in req'[r].targets : owner[s] = u
      /\ req'[r].kind = "logout" => \A s, v \in req'[r].targets : s = v
  <2>1. CASE LogoutAll(r, u)
    BY <2>1 DEF LogoutAll, Start, Idle, IInv, TypeOK
  <2>2. ASSUME NEW t \in delivered, Logout(r, u, t)
        PROVE  <1>1!:
    BY <2>2 DEF Logout, Start, Idle, IInv, TypeOK
  <2> QED
    BY <2>1, <2>2
<1>2. UNCHANGED <<minted, table, usedAt, delivered, logouts>>
  BY DEF LogoutAll, Logout
<1> QED
  BY <1>1, <1>2, QuietStep

-----------------------------------------------------------------------------
(* The steps of a refresh.                                                 *)

LEMMA ChecksStep ==
  ASSUME IInv, NEW r \in Requests, CheckUser(r) \/ FindToken(r)
  PROVE  Consistent'
<1>1. CASE req' = [req EXCEPT ![r] = Idle]
  BY <1>1, IdleStep DEF CheckUser, FindToken
<1>2. ASSUME NEW p \in {"find", "mark"}, Goto(r, p) PROVE Consistent'
  <2>1. req[r].pc \in {"check_user", "find"}
    BY DEF CheckUser, FindToken
  <2>2. UNCHANGED <<minted, table, usedAt, delivered, logouts>>
    BY DEF CheckUser, FindToken
  <2>3. HandlersOK!(r)' /\ req'[r].targets = {} /\ req'[r].rows = {}
    BY <1>2, <2>1, <2>2, GotoFrame, NoRows
       DEF IInv, Consistent, HandlersOK, TypeOK
  <2> QED
    BY <1>2, <2>2, <2>3, GotoFrame, QuietStep DEF IInv
<1> QED
  BY <1>1, <1>2 DEF CheckUser, FindToken

LEMMA UpdateStep ==
  ASSUME IInv, NEW r \in Requests, Update(r)
  PROVE  Consistent'
<1>1. CASE req' = [req EXCEPT ![r] = Idle]
  BY <1>1, IdleStep DEF Update
<1>2. CASE Goto(r, "commit") /\ req[r].tok \in table
  <2> DEFINE t == req[r].tok
  <2>1. UNCHANGED <<minted, table, usedAt, delivered, logouts>>
    BY DEF Update
  <2>2. /\ req[r].pc = "update" /\ req[r].kind = "refresh"
        /\ req[r].targets = {} /\ req[r].rows = {} /\ t \in Tokens
        /\ \A q \in Requests \ {r} : ~ Holds(q, t)
    BY NoRows DEF Update, LockedByOther, IInv, Consistent, HandlersOK
  <2>3. /\ \A q \in Requests \ {r} : req'[q] = req[q]
        /\ req'[r].pc = "commit" /\ req'[r].kind = "refresh"
        /\ req'[r].tok = t /\ req'[r].targets = {} /\ req'[r].rows = {}
        /\ req'[r].user = req[r].user /\ req'[r].new = req[r].new
        /\ req'[r].mark = req[r].mark
    BY <1>2, <2>2, GotoFrame DEF IInv
  <2>4. RowsOK' /\ NoSessionLost' /\ \A s \in Tokens : Committed(s)' <=> Committed(s)
    BY <2>1, QuietRows
  <2>5. LocksExclude'
    <3>1. \A s \in Tokens : Holds(r, s)' => s = t
      BY <2>3 DEF Holds
    <3>2. \A q \in Requests \ {r}, s \in Tokens : Holds(q, s)' <=> Holds(q, s)
      BY <2>3 DEF Holds
    <3> QED
      BY <2>2, <3>1, <3>2 DEF LocksExclude, IInv, Consistent
  <2>6. HeldRowsExist'
    <3>1. \A q \in Requests, s \in Tokens : Holds(q, s)' => Holds(q, s) \/ s = t
      BY <2>3 DEF Holds
    <3> QED
      BY <1>2, <2>1, <3>1 DEF HeldRowsExist, IInv, Consistent
  <2>7. HandlersOK'
    BY <2>1, <2>2, <2>3 DEF HandlersOK, IInv, Consistent
  <2>8. TargetsOK'
    BY <2>1, <2>3 DEF TargetsOK, IInv, Consistent
  <2>9. NewRowsOK'
    <3>1. \A q \in Requests : Inserting(q)' <=> Inserting(q)
      BY <2>2, <2>3 DEF Inserting
    <3> QED
      BY <2>1, <2>2, <2>3, <2>4, <3>1 DEF NewRowsOK, IInv, Consistent, Birth
  <2> QED
    BY <2>4, <2>5, <2>6, <2>7, <2>8, <2>9 DEF Consistent
<1> QED
  BY <1>1, <1>2 DEF Update

\* A row of r's own is minted: the only step that changes owner.
LEMMA MintStep ==
  ASSUME IInv, NEW r \in Requests, NEW t \in Tokens,
         Mint(t, req[r].user, req[r].tok),
         UNCHANGED <<now, active, table, usedAt, delivered, logouts>>,
         \A q \in Requests \ {r} : req'[q] = req[q],
         req'[r].user = req[r].user, req'[r].kind = req[r].kind,
         req'[r].tok = req[r].tok, req'[r].new = t,
         req'[r].targets = req[r].targets, req'[r].rows = req[r].rows,
         \/ req[r].pc = "generate" /\ req'[r].pc = "commit"
         \/ req[r].pc = "mark" /\ req'[r].pc = "update" /\ req'[r].mark = now
  PROVE  Consistent'
<1> USE NoUserAssumption, NoTokenAssumption
<1>1. /\ t \notin table
      /\ \A u \in Users : <<u, t>> \notin logouts
      /\ req[r].user \in Users
      /\ owner[t] \notin Users
  BY DEF IInv, Consistent, TypeOK, RowsOK, HandlersOK, Mint, Unminted
<1>2. /\ \A s \in Tokens \ {t} : /\ owner'[s] = owner[s]
                                 /\ exp'[s] = exp[s]
                                 /\ parent'[s] = parent[s]
      /\ owner'[t] = req[r].user
      /\ exp'[t] = now + Lifetime
      /\ parent'[t] = req[r].tok
  BY DEF Mint, IInv, TypeOK
<1>3. /\ \A s \in Tokens : Committed(s)' <=> Committed(s)
      /\ ~ Committed(t)
  BY <1>1, <1>2 DEF Committed, IInv, TypeOK
<1>4. HandlersOK'
  <2>1. ASSUME NEW q \in Requests, req[q].kind = "refresh"
        PROVE  req[q].tok # t
    BY <1>1, <2>1 DEF HandlersOK, IInv, Consistent, TypeOK
  <2>2. ASSUME NEW q \in Requests, q # r
        PROVE  HandlersOK!(q)'
    BY <1>2, <2>1, <2>2 DEF HandlersOK, IInv, Consistent, TypeOK
  <2>3. HandlersOK!(r)'
    BY <1>1, <1>2, <2>1 DEF HandlersOK, IInv, Consistent, TypeOK
  <2> QED
    BY <2>2, <2>3 DEF HandlersOK
<1>5. NoSessionLost'
  BY <1>3 DEF NoSessionLost, IInv, Consistent, TypeOK
<1>6. RowsOK'
  BY <1>1, <1>2, <1>3 DEF RowsOK, IInv, Consistent, TypeOK
<1>7. ASSUME NEW q \in Requests, q # r
      PROVE  /\ Inserting(q)' <=> Inserting(q)
             /\ Inserting(q) => req[q].new # t
             /\ req'[q] = req[q]
  BY <1>1, <1>7 DEF Inserting, IInv, Consistent, NewRowsOK, HandlersOK
<1>8. /\ ~ Inserting(r)
      /\ req'[r].kind = "refresh" =>
           req'[r].mark \in Times /\ Birth(t)' = req'[r].mark
  BY <1>2, LifetimeAssumption, MaxTimeAssumption
     DEF Inserting, IInv, Consistent, TypeOK, HandlersOK, Birth
<1>9. NewRowsOK'
  <2>1. ASSUME NEW q \in Requests, q # r
        PROVE  NewRowsOK!(q)'
    BY <1>2, <1>3, <1>7, <2>1
       DEF NewRowsOK, IInv, Consistent, TypeOK, Birth, Inserting
  <2>2. NewRowsOK!(r)'
    BY <1>2, <1>3, <1>7, <1>8
       DEF NewRowsOK, IInv, Consistent, TypeOK, Birth, Inserting
  <2> QED
    BY <2>1, <2>2 DEF NewRowsOK
<1>10. /\ req[r].targets = {} /\ req[r].rows = {}
       /\ req[r].pc = "generate" => req[r].kind = "login"
  BY NoRows DEF IInv, Consistent, HandlersOK
<1>11. \A q \in Requests, s \in Tokens : Holds(q, s)' => Holds(q, s) /\ q # r
  <2>1. \A s \in Tokens : ~ Holds(r, s)'
    BY <1>10 DEF Holds
  <2> QED
    BY <2>1 DEF Holds
<1>12. LocksExclude'
  BY <1>11 DEF LocksExclude, IInv, Consistent
<1>13. HeldRowsExist'
  BY <1>11 DEF HeldRowsExist, IInv, Consistent
<1>14. TargetsOK'
  <2>1. \A q \in Requests : t \notin req[q].targets \cup req[q].rows
    BY <1>1 DEF TargetsOK, IInv, Consistent, HandlersOK, TypeOK
  <2> QED
    BY <1>2, <1>10, <2>1 DEF TargetsOK, IInv, Consistent, TypeOK
<1> QED
  BY <1>4, <1>5, <1>6, <1>9, <1>12, <1>13, <1>14 DEF Consistent

LEMMA GenerateStep ==
  ASSUME IInv, NEW r \in Requests, Generate(r)
  PROVE  Consistent'
<1>1. PICK t \in Tokens :
        /\ Mint(t, req[r].user, NoToken)
        /\ req' = [req EXCEPT ![r].pc = "commit", ![r].new = t]
  BY DEF Generate
<1>2. req[r].tok = NoToken
  BY DEF Generate, IInv, Consistent, HandlersOK
<1>3. /\ \A q \in Requests \ {r} : req'[q] = req[q]
      /\ req'[r].user = req[r].user /\ req'[r].kind = req[r].kind
      /\ req'[r].tok = req[r].tok
      /\ req'[r].targets = req[r].targets /\ req'[r].rows = req[r].rows
      /\ req'[r].new = t /\ req'[r].pc = "commit"
  BY <1>1 DEF IInv, TypeOK
<1> QED
  BY <1>1, <1>2, <1>3, MintStep DEF Generate

LEMMA MarkStep ==
  ASSUME IInv, NEW r \in Requests, Mark(r)
  PROVE  Consistent'
<1>1. PICK t \in Tokens :
        /\ Mint(t, req[r].user, req[r].tok)
        /\ req' = [req EXCEPT ![r].pc = "update", ![r].new = t, ![r].mark = now]
  BY DEF Mark
<1>2. /\ \A q \in Requests \ {r} : req'[q] = req[q]
      /\ req'[r].user = req[r].user /\ req'[r].kind = req[r].kind
      /\ req'[r].tok = req[r].tok
      /\ req'[r].targets = req[r].targets /\ req'[r].rows = req[r].rows
      /\ req'[r].new = t /\ req'[r].pc = "update" /\ req'[r].mark = now
  BY <1>1 DEF IInv, TypeOK
<1> QED
  BY <1>1, <1>2, MintStep DEF Mark

-----------------------------------------------------------------------------
(* The steps of a logout.                                                  *)

LEMMA DeleteStep ==
  ASSUME IInv, NEW r \in Requests, Delete(r)
  PROVE  Consistent'
<1>1. PICK t \in req[r].targets :
        /\ ~ LockedByOther(r, t)
        /\ req' = [req EXCEPT ![r].targets = @ \ {t},
                              ![r].rows = @ \cup ({t} \cap table)]
  BY DEF Delete
<1>2. UNCHANGED <<minted, table, usedAt, delivered, logouts>>
  BY DEF Delete
<1>3. /\ req[r].pc = "delete" /\ req[r].kind \in LogoutKinds
      /\ t \in Tokens
      /\ \A q \in Requests \ {r} : ~ Holds(q, t)
  BY <1>1 DEF Delete, LockedByOther, IInv, Consistent, HandlersOK, TypeOK
<1>4. /\ \A q \in Requests \ {r} : req'[q] = req[q]
      /\ req'[r].pc = "delete" /\ req'[r].kind = req[r].kind
      /\ req'[r].tok = req[r].tok /\ req'[r].user = req[r].user
      /\ req'[r].targets = req[r].targets \ {t}
      /\ req'[r].rows = req[r].rows \cup ({t} \cap table)
  BY <1>1, <1>3 DEF IInv, TypeOK
<1>5. RowsOK' /\ NoSessionLost' /\ \A s \in Tokens : Committed(s)' <=> Committed(s)
  BY <1>2, QuietRows
<1>6. /\ \A s \in Tokens : Holds(r, s)' => Holds(r, s) \/ (s = t /\ t \in table)
      /\ \A q \in Requests \ {r}, s \in Tokens : Holds(q, s)' <=> Holds(q, s)
  <2>1. ASSUME NEW s \in Tokens, Holds(r, s)'
        PROVE  Holds(r, s) \/ (s = t /\ t \in table)
    <3>1. s \in req'[r].rows
      BY <1>4, <2>1 DEF Holds
    <3> QED
      BY <1>4, <3>1 DEF Holds
  <2>2. \A q \in Requests \ {r}, s \in Tokens : Holds(q, s)' <=> Holds(q, s)
    BY <1>4 DEF Holds
  <2> QED
    BY <2>1, <2>2
<1>7. LocksExclude'
  BY <1>3, <1>6 DEF LocksExclude, IInv, Consistent
<1>8. HeldRowsExist'
  BY <1>2, <1>6 DEF HeldRowsExist, IInv, Consistent
<1>9. HandlersOK'
  BY <1>2, <1>3, <1>4 DEF HandlersOK, IInv, Consistent
<1>10. TargetsOK'
  BY <1>2, <1>3, <1>4 DEF TargetsOK, IInv, Consistent
<1>11. NewRowsOK'
  <2>1. ~ Inserting(r)' /\ \A q \in Requests \ {r} : Inserting(q)' <=> Inserting(q)
    BY <1>4 DEF Inserting
  <2> QED
    BY <1>2, <1>4, <1>5, <2>1 DEF NewRowsOK, IInv, Consistent, Birth
<1> QED
  BY <1>5, <1>7, <1>8, <1>9, <1>10, <1>11 DEF Consistent

LEMMA CommitLogoutStep ==
  ASSUME IInv, NEW r \in Requests, CommitLogout(r)
  PROVE  Consistent'
<1> DEFINE rows == req[r].rows
<1>1. /\ \A q \in Requests \ {r} : req'[q] = req[q]
      /\ req'[r] = Idle
      /\ table' = table \ rows
      /\ logouts' = logouts \cup ({req[r].user} \X rows)
      /\ UNCHANGED <<minted, delivered>>
      /\ usedAt' = [t \in Tokens |-> IF t \in rows THEN Never ELSE usedAt[t]]
  BY DEF CommitLogout, IInv, TypeOK
<1>2. /\ rows \subseteq table /\ rows \subseteq Tokens
      /\ req[r].user \in Users
      /\ \A t \in rows : Holds(r, t) /\ owner[t] = req[r].user
  BY DEF CommitLogout, IInv, Consistent, TypeOK, HeldRowsExist, HandlersOK,
         TargetsOK, Holds
<1>3. \A t \in Tokens : Committed(t)' <=> Committed(t)
  BY <1>1, <1>2 DEF Committed
<1>4. \A q \in Requests \ {r}, t \in rows : ~ Holds(q, t)
  BY <1>2 DEF LocksExclude, IInv, Consistent
<1>5. \A q \in Requests, t \in Tokens : Holds(q, t)' => Holds(q, t) /\ q # r
  BY <1>1 DEF Holds, Idle
<1>6. LocksExclude'
  BY <1>5 DEF LocksExclude, IInv, Consistent
<1>7. HeldRowsExist'
  <2>1. \A q \in Requests, t \in Tokens : Holds(q, t)' => t \notin rows
    BY <1>4, <1>5
  <2> QED
    BY <1>1, <1>5, <2>1 DEF HeldRowsExist, IInv, Consistent
<1>8. HandlersOK'
  BY <1>1 DEF HandlersOK, Idle, IInv, Consistent
<1>9. TargetsOK'
  BY <1>1 DEF TargetsOK, Idle, IInv, Consistent
<1>10. NewRowsOK'
  <2>1. ~ Inserting(r)' /\ \A q \in Requests \ {r} : Inserting(q)' <=> Inserting(q)
    BY <1>1 DEF Inserting, Idle
  <2>2. req'[r].pc # "respond"
    BY <1>1 DEF Idle
  <2> QED
    BY <1>1, <1>3, <2>1, <2>2 DEF NewRowsOK, IInv, Consistent, Birth
<1>11. RowsOK'
  BY <1>1, <1>2, <1>3, NoTokenAssumption DEF RowsOK, IInv, Consistent, TypeOK
<1>12. NoSessionLost'
  BY <1>1, <1>3 DEF NoSessionLost, IInv, Consistent, TypeOK
<1> QED
  BY <1>6, <1>7, <1>8, <1>9, <1>10, <1>11, <1>12 DEF Consistent

-----------------------------------------------------------------------------
(* The commits that insert a row, and the answer.                          *)

LEMMA InsertStep ==
  ASSUME IInv, NEW r \in Requests, CommitLogin(r) \/ CommitRotation(r)
  PROVE  Consistent'
<1> DEFINE n == req[r].new
<1> USE NoTokenAssumption
<1>1. Goto(r, "respond") /\ table' = table \cup {n} /\ UNCHANGED minted
      /\ UNCHANGED <<delivered, logouts>>
  BY DEF CommitLogin, CommitRotation
<1>2. /\ Inserting(r) /\ req[r].pc = "commit"
      /\ req[r].kind = "refresh" \/ req[r].tok = NoToken
  BY DEF CommitLogin, CommitRotation, Inserting, IInv, Consistent, HandlersOK
<1>3. /\ n \in Tokens /\ owner[n] \in Users /\ parent[n] = req[r].tok
      /\ ~ Committed(n)
      /\ req[r].user \in Users /\ req[r].targets = {} /\ req[r].rows = {}
      /\ req[r].kind = "refresh" => req[r].tok \in table
  BY <1>2, NoRows
     DEF Inserting, IInv, Consistent, NewRowsOK, HandlersOK, HeldRowsExist, Holds
<1>4. /\ \A q \in Requests \ {r} : req'[q] = req[q]
      /\ req'[r].pc = "respond" /\ req'[r].kind = req[r].kind
      /\ req'[r].user = req[r].user /\ req'[r].tok = req[r].tok
      /\ req'[r].new = n /\ req'[r].targets = {} /\ req'[r].rows = {}
  BY <1>1, <1>3, GotoFrame DEF IInv
<1>5. \A t \in Tokens : Committed(t)' <=> Committed(t) \/ t = n
  BY <1>1 DEF Committed
<1>6. \A q \in Requests, t \in Tokens : Holds(q, t)' => Holds(q, t)
  BY <1>4 DEF Holds
<1>7. LocksExclude'
  BY <1>6 DEF LocksExclude, IInv, Consistent
<1>8. HeldRowsExist'
  BY <1>1, <1>6 DEF HeldRowsExist, IInv, Consistent
<1>9. HandlersOK'
  BY <1>1, <1>2, <1>4 DEF HandlersOK, IInv, Consistent
<1>10. TargetsOK'
  BY <1>1, <1>4 DEF TargetsOK, IInv, Consistent
<1>11. NewRowsOK'
  <2>1. \A q \in Requests \ {r} :
           /\ Inserting(q)' <=> Inserting(q)
           /\ Inserting(q) => req[q].new # n
    BY <1>2, <1>4 DEF Inserting, NewRowsOK, IInv, Consistent
  <2>2. ~ Inserting(r)'
    BY <1>4 DEF Inserting
  <2> QED
    BY <1>1, <1>3, <1>4, <1>5, <2>1, <2>2 DEF NewRowsOK, IInv, Consistent, Birth
<1>12. \A t \in Tokens : t \notin table' => usedAt'[t] = Never
  BY <1>1, <1>3 DEF CommitLogin, CommitRotation, IInv, Consistent, TypeOK, RowsOK
<1>13. RowsOK'
  <2>1. parent[n] # NoToken => Committed(parent[n])
    BY <1>2, <1>3 DEF Committed
  <2>2. \A u \in Users : <<u, n>> \notin logouts
    BY <1>3 DEF Committed, RowsOK, IInv, Consistent
  <2> QED
    BY <1>1, <1>3, <1>5, <1>12, <2>1, <2>2 DEF RowsOK, IInv, Consistent, TypeOK
<1>14. NoSessionLost'
  BY <1>1, <1>5 DEF NoSessionLost, IInv, Consistent, TypeOK
<1> QED
  BY <1>7, <1>8, <1>9, <1>10, <1>11, <1>13, <1>14 DEF Consistent

LEMMA RespondStep ==
  ASSUME IInv, NEW r \in Requests, Respond(r)
  PROVE  Consistent'
<1>1. /\ req'[r] = Idle
      /\ \A q \in Requests \ {r} : req'[q] = req[q]
      /\ UNCHANGED <<minted, table, usedAt, logouts>>
      /\ delivered' = delivered \cup {req[r].new}
  BY DEF Respond, IInv, TypeOK
<1>2. \A t \in Tokens : Committed(t)' <=> Committed(t)
  BY <1>1 DEF Committed
<1>3. req[r].new \in Tokens /\ Committed(req[r].new)
  BY DEF Respond, NewRowsOK, IInv, Consistent
<1>4. NoSessionLost'
  BY <1>1, <1>2, <1>3 DEF NoSessionLost, IInv, Consistent, TypeOK
<1>5. RowsOK'
  BY <1>1, <1>2 DEF RowsOK, Committed, IInv, Consistent
<1>6. \A q \in Requests, t \in Tokens : Holds(q, t)' => Holds(q, t)
  BY <1>1 DEF Holds, Idle
<1>7. LocksExclude'
  BY <1>6 DEF LocksExclude, IInv, Consistent
<1>8. HeldRowsExist' /\ HandlersOK' /\ TargetsOK'
  BY <1>1, <1>6 DEF HeldRowsExist, HandlersOK, TargetsOK, Idle, IInv, Consistent
<1>9. NewRowsOK'
  <2>1. /\ ~ Inserting(r)' /\ req'[r].pc # "respond"
        /\ \A q \in Requests \ {r} : Inserting(q)' <=> Inserting(q)
    BY <1>1 DEF Inserting, Idle
  <2> QED
    BY <1>1, <1>2, <2>1 DEF NewRowsOK, IInv, Consistent, Birth
<1> QED
  BY <1>4, <1>5, <1>7, <1>8, <1>9 DEF Consistent

\* Time and the operator do not touch what Consistent speaks of.
LEMMA FrameStep ==
  ASSUME IInv, UNCHANGED <<minted, table, usedAt, req, delivered, logouts>>
  PROVE  Consistent'
<1>1. RowsOK' /\ NoSessionLost' /\ \A t \in Tokens : Committed(t)' <=> Committed(t)
  BY QuietRows
<1>2. LocksExclude' /\ HeldRowsExist' /\ HandlersOK' /\ TargetsOK'
  BY DEF LocksExclude, Holds, HeldRowsExist, HandlersOK, TargetsOK, IInv, Consistent
<1>3. NewRowsOK'
  BY <1>1 DEF NewRowsOK, Inserting, Birth, IInv, Consistent
<1> QED
  BY <1>1, <1>2, <1>3 DEF Consistent

-----------------------------------------------------------------------------
LEMMA ConsistentStep == IInv /\ [Next]_vars => Consistent'
<1> SUFFICES ASSUME IInv, [Next]_vars PROVE Consistent'
  OBVIOUS
<1>1. ASSUME NEW r \in Requests, Arrive(r) PROVE Consistent'
  BY <1>1, LoginStep, RefreshStep, LogoutStep DEF Arrive
<1>2. ASSUME NEW r \in Requests, Work(r) PROVE Consistent'
  BY <1>2, GenerateStep, ChecksStep, MarkStep, InsertStep, CommitLogoutStep,
     RespondStep DEF Work
<1>3. ASSUME NEW r \in Requests, Acquire(r) PROVE Consistent'
  BY <1>3, UpdateStep, DeleteStep DEF Acquire
<1>4. ASSUME NEW r \in Requests, Abort(r) PROVE Consistent'
  BY <1>4, IdleStep DEF Abort
<1>5. CASE Tick \/ (\E u \in Users : SetActive(u)) \/ UNCHANGED vars
  BY <1>5, FrameStep DEF Tick, SetActive, vars
<1> QED
  BY <1>1, <1>2, <1>3, <1>4, <1>5 DEF Next

\* The inductive invariant holds in every reachable state.
THEOREM Invariance == Spec => []IInv
<1>1. IInv /\ [Next]_vars => IInv'
  BY TypeStep, ConsistentStep DEF IInv
<1> QED
  BY InitInv, <1>1, PTL DEF Spec

\* The types of the variables and of the handlers' local variables.
THEOREM TypeCorrect == Spec => []TypeOK
<1>1. IInv => TypeOK
  BY DEF IInv
<1> QED
  BY Invariance, <1>1, PTL

\* A row that a logout deleted is never there again, and no rotation that had
\* read it before can commit.
THEOREM LogoutIsFinal == Spec => []LoggedOutIsFinal
<1>1. IInv => LoggedOutIsFinal
  BY DEF IInv, Consistent, LoggedOutIsFinal, RowsOK, HeldRowsExist, Holds
<1> QED
  BY Invariance, <1>1, PTL

\* A session that its client received lasts until its user logs it out.
THEOREM SessionsLast == Spec => []NoSessionLost
<1>1. IInv => NoSessionLost
  BY DEF IInv, Consistent
<1> QED
  BY Invariance, <1>1, PTL

-----------------------------------------------------------------------------
(* The steps seen from the table: most leave the rows alone, and the others *)
(* mint a token or commit a transaction.                                    *)

LEMMA TableSteps ==
  ASSUME IInv, [Next]_vars
  PROVE  \/ UNCHANGED <<minted, table, usedAt, logouts>>
         \/ /\ \E r \in Requests, t \in Tokens : Mint(t, req[r].user, req[r].tok)
            /\ UNCHANGED <<table, usedAt, logouts>>
         \/ \E r \in Requests : CommitLogin(r)
         \/ \E r \in Requests : CommitRotation(r)
         \/ \E r \in Requests : CommitLogout(r)
<1> DEFINE Quiet == UNCHANGED <<minted, table, usedAt, logouts>>
           Minting == /\ \E r \in Requests, t \in Tokens :
                           Mint(t, req[r].user, req[r].tok)
                      /\ UNCHANGED <<table, usedAt, logouts>>
<1>1. ASSUME NEW r \in Requests, Arrive(r) PROVE Quiet
  BY <1>1 DEF Arrive, Login, GoogleLogin, LogoutAll, Refresh, Logout
<1>2. ASSUME NEW r \in Requests, Generate(r) PROVE Minting
  <2>1. req[r].tok = NoToken
    BY <1>2 DEF Generate, IInv, Consistent, HandlersOK
  <2> QED
    BY <1>2, <2>1 DEF Generate
<1>3. ASSUME NEW r \in Requests, Mark(r) PROVE Minting
  BY <1>3 DEF Mark
<1>4. ASSUME NEW r \in Requests, CheckUser(r) \/ FindToken(r) \/ Respond(r)
      PROVE Quiet
  BY <1>4 DEF CheckUser, FindToken, Respond
<1>5. ASSUME NEW r \in Requests, Acquire(r) \/ Abort(r) PROVE Quiet
  BY <1>5 DEF Acquire, Update, Delete, Abort
<1>6. CASE Tick \/ (\E u \in Users : SetActive(u)) \/ UNCHANGED vars
  BY <1>6 DEF Tick, SetActive, vars
<1> QED
  BY <1>1, <1>2, <1>3, <1>4, <1>5, <1>6 DEF Next, Work

\* What minting changes, and that it concerns no committed row.
LEMMA MintFrame ==
  ASSUME IInv, NEW r \in Requests, NEW t \in Tokens,
         Mint(t, req[r].user, req[r].tok), UNCHANGED <<table, logouts>>
  PROVE  /\ \A s \in Tokens \ {t} : /\ owner'[s] = owner[s]
                                    /\ exp'[s] = exp[s]
                                    /\ parent'[s] = parent[s]
         /\ ~ Committed(t)
         /\ ~ Committed(t)'
         /\ \A s \in Tokens : Committed(s)' <=> Committed(s)
<1>1. /\ t \notin table
      /\ \A u \in Users : <<u, t>> \notin logouts
  BY NoUserAssumption DEF Mint, Unminted, IInv, Consistent, RowsOK
<1>2. \A s \in Tokens \ {t} : /\ owner'[s] = owner[s]
                              /\ exp'[s] = exp[s]
                              /\ parent'[s] = parent[s]
  BY DEF Mint, IInv, TypeOK
<1>3. ~ Committed(t) /\ ~ Committed(t)'
  BY <1>1 DEF Committed, IInv, TypeOK
<1> QED
  BY <1>2, <1>3 DEF Committed

\* What the commit of a logout changes.
LEMMA LogoutFrame ==
  ASSUME IInv, NEW r \in Requests, CommitLogout(r)
  PROVE  /\ req[r].rows \subseteq table
         /\ req[r].user \in Users
         /\ \A t \in req[r].rows : owner[t] = req[r].user
         /\ \A t \in Tokens : Committed(t)' <=> Committed(t)
<1>1. /\ req[r].rows \subseteq table
      /\ req[r].user \in Users
      /\ \A t \in req[r].rows : owner[t] = req[r].user
  BY DEF CommitLogout, IInv, Consistent, TypeOK, HeldRowsExist, HandlersOK,
         TargetsOK, Holds
<1> QED
  BY <1>1 DEF CommitLogout, Committed

\* What the commit of a new row changes.
LEMMA InsertFrame ==
  ASSUME IInv, NEW r \in Requests, CommitLogin(r) \/ CommitRotation(r)
  PROVE  LET n == req[r].new IN
         /\ n \in Tokens /\ ~ Committed(n)
         /\ n \notin table /\ \A u \in Users : <<u, n>> \notin logouts
         /\ owner[n] = req[r].user /\ req[r].user \in Users
         /\ parent[n] = req[r].tok
         /\ usedAt[n] = Never
         /\ \A t \in Tokens : Committed(t)' <=> Committed(t) \/ t = n
         /\ table' = table \cup {n} /\ UNCHANGED <<minted, logouts>>
         /\ CommitLogin(r) => req[r].tok = NoToken
         /\ CommitRotation(r) =>
              /\ req[r].tok \in table /\ owner[req[r].tok] = req[r].user
              /\ req[r].mark \in Times /\ Birth(n) = req[r].mark
<1>1. Inserting(r) /\ req[r].pc = "commit"
  BY DEF CommitLogin, CommitRotation, Inserting
<1>2. /\ req[r].new \in Tokens /\ ~ Committed(req[r].new)
      /\ owner[req[r].new] = req[r].user
      /\ parent[req[r].new] = req[r].tok
      /\ req[r].kind = "refresh" =>
           req[r].mark \in Times /\ Birth(req[r].new) = req[r].mark
  BY <1>1 DEF IInv, Consistent, NewRowsOK
<1>3. /\ req[r].user \in Users
      /\ req[r].kind # "refresh" => req[r].tok = NoToken
      /\ req[r].kind = "refresh" =>
           req[r].tok \in table /\ owner[req[r].tok] = req[r].user
  BY <1>1 DEF IInv, Consistent, HandlersOK, HeldRowsExist, Holds
<1>4. table' = table \cup {req[r].new} /\ UNCHANGED <<minted, logouts>>
  BY DEF CommitLogin, CommitRotation
<1>5. /\ req[r].new \notin table
      /\ \A u \in Users : <<u, req[r].new>> \notin logouts
      /\ usedAt[req[r].new] = Never
  BY <1>2 DEF Committed, IInv, Consistent, RowsOK
<1>6. \A t \in Tokens : Committed(t)' <=> Committed(t) \/ t = req[r].new
  BY <1>4 DEF Committed
<1>7. /\ CommitLogin(r) => req[r].kind # "refresh"
      /\ CommitRotation(r) => req[r].kind = "refresh"
  BY DEF CommitLogin, CommitRotation
<1> QED
  BY <1>2, <1>3, <1>4, <1>5, <1>6, <1>7

\* A rotated row enters the table only while the row it replaces is there.
THEOREM RotationsAreOfLiveRows == Spec => RotationNeedsLiveParent
<1> DEFINE A == \A c \in table' \ table : parent[c] # NoToken => parent[c] \in table
<1>1. ASSUME IInv, [Next]_vars PROVE A
  <2>1. CASE \E r \in Requests : CommitLogin(r) \/ CommitRotation(r)
    BY <1>1, <2>1, InsertFrame
  <2>2. CASE table' \subseteq table
    BY <2>2
  <2>3. ASSUME NEW r \in Requests, CommitLogout(r) PROVE table' \subseteq table
    BY <2>3 DEF CommitLogout
  <2> QED
    BY <1>1, <2>1, <2>2, <2>3, TableSteps
<1> QED
  BY Invariance, <1>1, PTL DEF Spec, RotationNeedsLiveParent

-----------------------------------------------------------------------------
(* used and used_at against the rows' successors.                           *)

LEMMA UsedStep ==
  ASSUME IInv, UsedIffRotated, [Next]_vars
  PROVE  UsedIffRotated'
<1>1. CASE UNCHANGED <<minted, table, usedAt, logouts>>
  BY <1>1 DEF UsedIffRotated, UsedMatches, Committed, Birth
<1>2. CASE UNCHANGED <<table, usedAt, logouts>> /\
           \E r \in Requests, n \in Tokens : Mint(n, req[r].user, req[r].tok)
  <2> PICK r \in Requests, n \in Tokens : Mint(n, req[r].user, req[r].tok)
    BY <1>2
  <2>1. /\ \A s \in Tokens \ {n} : exp'[s] = exp[s] /\ parent'[s] = parent[s]
        /\ ~ Committed(n)
        /\ \A s \in Tokens : Committed(s)' <=> Committed(s)
    BY <1>2, MintFrame
  <2> QED
    BY <1>2, <2>1 DEF UsedIffRotated, UsedMatches, Birth, IInv, TypeOK
<1>3. ASSUME NEW r \in Requests, CommitLogin(r) \/ CommitRotation(r)
      PROVE  UsedIffRotated'
  <2> PICK n, p : n = req[r].new /\ p = req[r].tok
    OBVIOUS
  <2>1. /\ n \in Tokens /\ parent[n] = p
        /\ table' = table \cup {n} /\ UNCHANGED minted
        /\ ~ Committed(n)
        /\ usedAt[n] = Never
        /\ \A t \in Tokens : Committed(t)' <=> Committed(t) \/ t = n
    BY <1>3, InsertFrame
  <2>2. /\ \A c \in Tokens : parent[c] = n => ~ Committed(c)
        /\ p # n
    BY <1>3, <2>1, NoTokenAssumption, InsertFrame
       DEF IInv, Consistent, RowsOK, Committed
  <2>3. \A c \in Tokens : Birth(c)' = Birth(c)
    BY <2>1 DEF Birth
  <2>4. \/ p = NoToken /\ UNCHANGED usedAt
        \/ /\ p \in table
           /\ req[r].mark \in Times /\ Birth(n) = req[r].mark
           /\ usedAt' = [usedAt EXCEPT ![p] = req[r].mark]
    BY <1>3, InsertFrame DEF CommitLogin, CommitRotation
  <2>5. ASSUME NEW t \in table, t # p PROVE UsedMatches(t)'
    <3>1. t \in Tokens /\ t # n /\ usedAt'[t] = usedAt[t] /\ UsedMatches(t)
      BY <2>1, <2>4, <2>5 DEF UsedIffRotated, Committed, IInv, TypeOK
    <3>2. \A c \in Tokens : parent'[c] = t => c # n
      BY <2>1, <2>5
    <3> QED
      BY <2>1, <2>3, <3>1, <3>2 DEF UsedMatches
  <2>6. UsedMatches(n)'
    <3>1. usedAt'[n] = Never
      BY <2>1, <2>2, <2>4 DEF IInv, TypeOK
    <3>2. \A c \in Tokens : parent'[c] = n => ~ Committed(c)'
      BY <2>1, <2>2
    <3> QED
      BY <3>1, <3>2 DEF UsedMatches
  <2>7. ASSUME p \in table PROVE UsedMatches(p)'
    <3>1. usedAt'[p] = req[r].mark /\ req[r].mark # Never
      BY <2>4, <2>7, NoTokenAssumption, MaxTimeAssumption DEF IInv, TypeOK
    <3>2. parent'[n] = p /\ Birth(n)' = usedAt'[p] /\ Committed(n)'
      BY <2>1, <2>3, <2>4, <2>7, <3>1, NoTokenAssumption DEF IInv, TypeOK
    <3> QED
      BY <2>1, <3>1, <3>2 DEF UsedMatches
  <2> QED
    BY <2>1, <2>5, <2>6, <2>7 DEF UsedIffRotated
<1>4. ASSUME NEW r \in Requests, CommitLogout(r) PROVE UsedIffRotated'
  <2>1. /\ table' \subseteq table /\ UNCHANGED minted
        /\ \A t \in table' : usedAt'[t] = usedAt[t]
        /\ \A t \in Tokens : Committed(t)' <=> Committed(t)
    BY <1>4, LogoutFrame DEF CommitLogout, IInv, TypeOK
  <2> QED
    BY <2>1 DEF UsedIffRotated, UsedMatches, Birth, IInv, TypeOK
<1> QED
  BY <1>1, <1>2, <1>3, <1>4, TableSteps

\* A row is used exactly when a rotation of it has committed.
THEOREM UsedMeansRotated == Spec => []UsedIffRotated
<1>1. Init => UsedIffRotated
  BY DEF Init, UsedIffRotated
<1> QED
  BY Invariance, <1>1, UsedStep, PTL DEF Spec

-----------------------------------------------------------------------------
(* The end of the grace period.                                            *)

\* A step adds nothing to the rotations of t under way, other than by a
\* request that found t not spent.
LEMMA RotatingStep ==
  ASSUME IInv, [Next]_vars, NEW t \in Tokens, Spent(t)
  PROVE  Rotating(t)' \subseteq Rotating(t)
<1>1. ASSUME NEW r \in Requests, NEW q \in Requests, q # r,
             Arrive(r) \/ Work(r) \/ Acquire(r) \/ Abort(r)
      PROVE  req'[q] = req[q]
  BY <1>1 DEF Arrive, Work, Acquire, Abort, Login, GoogleLogin, LogoutAll,
       Refresh, Logout, Start, Generate, CheckUser, FindToken, Mark, Update,
       Delete, CommitLogin, CommitRotation, CommitLogout, Respond, Goto,
       IInv, TypeOK
<1> DEFINE In(q) == /\ req[q].tok = t
                    /\ req[q].pc \in {"mark", "update", "commit"}
<1>2. ASSUME NEW r \in Requests, Arrive(r) PROVE ~ In(r)'
  <2>1. ASSUME NEW u \in Users, Login(r, u) \/ GoogleLogin(r, u) PROVE ~ In(r)'
    <3>1. req' = [req EXCEPT ![r] = [Idle EXCEPT !.pc = "generate", !.kind = "login",
                                                 !.user = u]]
      BY <2>1 DEF Login, GoogleLogin, Start
    <3> QED
      BY <3>1 DEF Idle, IInv, TypeOK
  <2>2. ASSUME NEW u \in Users, LogoutAll(r, u) PROVE ~ In(r)'
    BY <2>2 DEF LogoutAll, Start, Idle, IInv, TypeOK
  <2>3. ASSUME NEW s \in delivered, Refresh(r, s) PROVE ~ In(r)'
    BY <2>3 DEF Refresh, Start, Idle, IInv, TypeOK
  <2>4. ASSUME NEW s \in delivered, NEW u \in Users, Logout(r, u, s)
        PROVE  ~ In(r)'
    BY <2>4 DEF Logout, Start, Idle, IInv, TypeOK
  <2> QED
    BY <1>2, <2>1, <2>2, <2>3, <2>4 DEF Arrive
<1>3. ASSUME NEW r \in Requests, CheckUser(r) \/ Respond(r) \/ Abort(r)
      PROVE  ~ In(r)'
  BY <1>3 DEF CheckUser, Respond, Abort, Goto, Idle, IInv, TypeOK
<1>4. ASSUME NEW r \in Requests, FindToken(r), In(r)' PROVE FALSE
  <2>1. CASE req' = [req EXCEPT ![r] = Idle]
    BY <1>4, <2>1 DEF Idle, IInv, TypeOK
  <2>2. CASE Goto(r, "mark") /\ ~ Spent(req[r].tok)
    BY <1>4, <2>2, GotoFrame DEF IInv
  <2> QED
    BY <1>4, <2>1, <2>2 DEF FindToken
<1>5. ASSUME NEW r \in Requests, Generate(r) PROVE ~ In(r)'
  BY <1>5, NoTokenAssumption
     DEF Generate, IInv, Consistent, HandlersOK, TypeOK
<1>6. ASSUME NEW r \in Requests, Delete(r) PROVE ~ In(r)'
  BY <1>6, NoTokenAssumption
     DEF Delete, Idle, IInv, Consistent, HandlersOK, TypeOK
<1>7. ASSUME NEW r \in Requests, Mark(r) \/ Update(r), In(r)' PROVE In(r)
  <2>1. CASE Mark(r)
    <3>1. req[r].pc = "mark" /\ req'[r].tok = req[r].tok
      BY <2>1 DEF Mark, IInv, TypeOK
    <3> QED
      BY <1>7, <3>1
  <2>2. CASE Update(r)
    BY <1>7, <2>2 DEF Update, Goto, Idle, IInv, TypeOK
  <2> QED
    BY <1>7, <2>1, <2>2
<1>8. ASSUME NEW r \in Requests,
             CommitLogin(r) \/ CommitRotation(r) \/ CommitLogout(r)
      PROVE  ~ In(r)'
  BY <1>8 DEF CommitLogin, CommitRotation, CommitLogout, Goto, Idle, IInv, TypeOK
<1>9. ASSUME NEW q \in Requests, In(q)' PROVE In(q)
  BY <1>1, <1>2, <1>3, <1>4, <1>5, <1>6, <1>7, <1>8, <1>9
     DEF Next, Work, Acquire, Tick, SetActive, vars
<1> QED
  BY <1>9 DEF Rotating

\* A used token that outlived its grace period, with no rotation of it under
\* way, is never accepted again.
THEOREM SpentTokensStaySpent == Spec => SpentStaysSpent
<1> DEFINE A == \A t \in table : Spent(t) /\ Rotating(t) = {}
                  => t \notin table' \/ (Spent(t)' /\ Rotating(t)' = {})
<1>1. ASSUME IInv, [Next]_vars PROVE A
  <2> SUFFICES ASSUME NEW t \in table, Spent(t), Rotating(t) = {}, t \in table'
               PROVE  Spent(t)' /\ Rotating(t)' = {}
    OBVIOUS
  <2>1. t \in Tokens
    BY <1>1 DEF IInv, TypeOK
  <2>2. Rotating(t)' = {}
    BY <1>1, <2>1, RotatingStep
  <2>3. now' \in Nat /\ now \in Nat /\ now' >= now
    <3>1. now' = now \/ now' = now + 1
      BY <1>1
         DEF Next, Arrive, Work, Acquire, Abort, Login, GoogleLogin, LogoutAll,
             Refresh, Logout, Generate, CheckUser, FindToken, Mark, Update,
             Delete, CommitLogin, CommitRotation, CommitLogout, Respond, Tick,
             SetActive, vars
    <3>2. now \in Nat
      BY <1>1, MaxTimeAssumption DEF IInv, TypeOK
    <3> QED
      BY <3>1, <3>2
  <2>4. usedAt'[t] = usedAt[t]
    <3>1. ASSUME NEW r \in Requests, CommitRotation(r) PROVE req[r].tok # t
      BY <3>1 DEF CommitRotation, Rotating
    <3>2. ASSUME NEW r \in Requests, CommitLogout(r) PROVE t \notin req[r].rows
      BY <3>2 DEF CommitLogout
    <3> QED
      BY <1>1, <2>1, <3>1, <3>2, TableSteps
         DEF CommitLogin, CommitRotation, CommitLogout, IInv, TypeOK
  <2>5. usedAt[t] \in Int
    BY <1>1, <2>1, MaxTimeAssumption DEF IInv, TypeOK
  <2> QED
    BY <2>2, <2>3, <2>4, <2>5, GraceAssumption DEF Spent
<1> QED
  BY Invariance, <1>1, PTL DEF Spec, SpentStaysSpent

-----------------------------------------------------------------------------
(* The refinement: every step is a step of SessionStore or leaves it alone. *)

LEMMA StoreStep ==
  ASSUME IInv, [Next]_vars
  PROVE  [Store!StoreNext]_(Store!storeVars)
<1> DEFINE Ended == {t \in Tokens : \E u \in Users : <<u, t>> \in logouts}
<1>1. ASSUME UNCHANGED <<minted, table, usedAt, logouts>>
      PROVE  UNCHANGED Store!storeVars
  BY <1>1 DEF Store!storeVars
<1>2. ASSUME NEW r \in Requests, NEW n \in Tokens,
             Mint(n, req[r].user, req[r].tok), UNCHANGED <<table, usedAt, logouts>>
      PROVE  UNCHANGED Store!storeVars
  BY <1>2, MintFrame DEF Store!storeVars, Committed
<1>3. ASSUME NEW r \in Requests, CommitLogin(r) PROVE Store!StoreNext
  <2> PICK n \in Tokens, u \in Users : n = req[r].new /\ u = req[r].user
    BY <1>3, InsertFrame
  <2>1. /\ ~ Committed(n) /\ owner[n] = u /\ parent[n] = NoToken
        /\ usedAt[n] = Never
        /\ table' = table \cup {n} /\ UNCHANGED <<minted, usedAt, logouts>>
    BY <1>3, InsertFrame DEF CommitLogin
  <2>2. n \notin table /\ \A v \in Users : <<v, n>> \notin logouts
    BY <1>3, InsertFrame
  <2>3. Store!Open(u, n)
    BY <2>1, <2>2 DEF Store!Open, Store!Fresh, Store!Live, IInv, TypeOK
  <2> QED
    BY <2>3 DEF Store!StoreNext
<1>4. ASSUME NEW r \in Requests, CommitRotation(r) PROVE Store!StoreNext
  <2> PICK n \in Tokens, p \in Tokens : n = req[r].new /\ p = req[r].tok
    BY <1>4, InsertFrame DEF IInv, TypeOK
  <2>1. /\ ~ Committed(n) /\ owner[n] = owner[p] /\ parent[n] = p
        /\ usedAt[n] = Never /\ p \in table
        /\ table' = table \cup {n} /\ UNCHANGED <<minted, logouts>>
        /\ req[r].mark \in Times
        /\ usedAt' = [usedAt EXCEPT ![p] = req[r].mark]
    BY <1>4, InsertFrame DEF CommitRotation
  <2>2. n \notin table /\ \A v \in Users : <<v, n>> \notin logouts
    BY <1>4, InsertFrame
  <2>3. owner[p] \in Users
    BY <2>1 DEF IInv, Consistent, RowsOK
  <2>4. Store!Rotate(p, n)
    <3>1. p \in Store!Live /\ n \in Store!Fresh
      BY <2>1, <2>2, <2>3, NoUserAssumption DEF Store!Fresh, Store!Live
    <3>2. {t \in table : usedAt[t] # Never}' =
            {t \in table : usedAt[t] # Never} \cup {p}
      BY <2>1, <2>2, MaxTimeAssumption DEF IInv, TypeOK
    <3> QED
      BY <2>1, <2>2, <3>1, <3>2 DEF Store!Rotate
  <2> QED
    BY <2>4 DEF Store!StoreNext
<1>5. ASSUME NEW r \in Requests, CommitLogout(r) PROVE Store!StoreNext
  <2> PICK u \in Users, S \in SUBSET Tokens : u = req[r].user /\ S = req[r].rows
    BY <1>5, LogoutFrame DEF IInv, TypeOK
  <2>1. /\ S \subseteq table /\ \A t \in S : owner[t] = u
        /\ table' = table \ S /\ UNCHANGED minted
        /\ usedAt' = [t \in Tokens |-> IF t \in S THEN Never ELSE usedAt[t]]
        /\ logouts' = logouts \cup ({u} \X S)
    BY <1>5, LogoutFrame DEF CommitLogout
  <2>2. Ended' = Ended \cup S
    BY <2>1
  <2>3. Store!Close(u, S)
    BY <2>1, <2>2 DEF Store!Close, IInv, TypeOK
  <2> QED
    BY <2>3 DEF Store!StoreNext
<1> QED
  BY <1>1, <1>2, <1>3, <1>4, <1>5, TableSteps

\* The transactions on refresh_tokens implement the atomic SessionStore.
THEOREM Refinement == Spec => ImplementsSessionStore
<1>1. Init => Store!StoreInit
  BY DEF Init, Store!StoreInit
<1> QED
  BY Invariance, <1>1, StoreStep, PTL DEF Spec, ImplementsSessionStore, Store!StoreSpec

-----------------------------------------------------------------------------
(* Waiting.                                                                *)

\* A request that others of S may wait for, while it waits itself, is a
\* logout_all.
LEMMA WaitingHolder ==
  ASSUME IInv, NEW S \in SUBSET Requests, NEW p \in S, WaitsWithin(p, S),
         NEW t \in Tokens, Holds(p, t)
  PROVE  req[p].kind = "logout_all"
<1>1. req[p].pc \in {"update", "delete"}
  BY DEF WaitsWithin
<1>2. t \in req[p].rows
  BY <1>1 DEF Holds
<1>3. req[p].pc = "delete" /\ req[p].kind \in LogoutKinds
  BY <1>2 DEF IInv, Consistent, TargetsOK, HandlersOK
<1>4. PICK s \in req[p].targets : \E q \in S \ {p} : Holds(q, s)
  BY <1>3 DEF WaitsWithin
<1>5. s # t
  BY <1>2, <1>4 DEF IInv, Consistent, LocksExclude, TypeOK, Holds
<1>6. req[p].kind # "logout"
  BY <1>2, <1>4, <1>5 DEF IInv, Consistent, TargetsOK
<1> QED
  BY <1>3, <1>6

\* Whatever rotations and logouts wait for each other, PostgreSQL finds a circle
\* of logout_alls among them, and nobody else keeps them waiting: the flush of
\* rotate_tokens waits before it has locked a row, logout_one locks its only row.
THEOREM WaitCirclesDetected == Spec => []WaitCirclesAreLogoutAlls
<1>1. IInv => WaitCirclesAreLogoutAlls
  <2> SUFFICES ASSUME IInv, NEW S \in SUBSET Requests, S # {},
                      \A r \in S : WaitsWithin(r, S)
               PROVE  \E r \in S : req[r].kind = "logout_all" /\ Deadlocked(r)
    BY DEF WaitCirclesAreLogoutAlls
  <2> DEFINE D == {r \in S : req[r].kind = "logout_all"}
  <2>1. ASSUME NEW r \in S
        PROVE  \E t \in Tokens : \E p \in S \ {r} : Holds(p, t)
    BY <2>1 DEF WaitsWithin, IInv, Consistent, HandlersOK, TypeOK
  <2>2. PICK r \in D : TRUE
    BY <2>1, WaitingHolder
  <2>3. ASSUME NEW q \in D
        PROVE  /\ req[q].pc = "delete" /\ req[q].targets # {}
               /\ \A t \in req[q].targets : \E p \in D \ {q} : Holds(p, t)
    <3>1. req[q].pc = "delete"
      BY <2>3 DEF IInv, Consistent, HandlersOK
    <3>2. /\ req[q].targets # {}
          /\ \A t \in req[q].targets : \E p \in S \ {q} : Holds(p, t)
      BY <2>3, <3>1 DEF WaitsWithin
    <3>3. req[q].targets \subseteq Tokens
      BY DEF IInv, TypeOK
    <3> QED
      BY <3>1, <3>2, <3>3, WaitingHolder
  <2>4. Deadlocked(r)
    BY <2>2, <2>3 DEF Deadlocked
  <2> QED
    BY <2>2, <2>4
<1> QED
  BY <1>1, Invariance, PTL

-----------------------------------------------------------------------------
(* What SessionStore implies, of the table of tokens.                      *)

Inherited == INSTANCE SessionStoreProofs WITH
  session <- [t \in Tokens |-> IF t \in table THEN owner[t] ELSE NoUser],
  origin <- [t \in Tokens |-> IF t \in table THEN parent[t] ELSE NoToken],
  spent <- {t \in table : usedAt[t] # Never},
  closed <- {t \in Tokens : \E u \in Users : <<u, t>> \in logouts}

\* It is the same store.
LEMMA SameStore ==
  /\ Store!StoreInit <=> Inherited!StoreInit
  /\ [Store!StoreNext]_(Store!storeVars) <=> [Inherited!StoreNext]_(Inherited!storeVars)
  BY DEF Store!StoreInit, Store!StoreNext, Store!storeVars, Store!Open, Store!Rotate,
         Store!Close, Store!Live, Store!Fresh, Inherited!StoreInit, Inherited!StoreNext,
         Inherited!storeVars, Inherited!Open, Inherited!Rotate, Inherited!Close,
         Inherited!Live, Inherited!Fresh

\* A row in the table belongs to the user of the row it was rotated from, which
\* is used, or was logged out; no row that was logged out is in the table
\* (user_id of the new row in rotate_tokens).
THEOREM RefreshKeepsUser == Spec => [](Store!StoreTypes /\ Store!FamiliesHaveOneUser)
<1>1. /\ Store!StoreTypes <=> Inherited!StoreTypes
      /\ Store!FamiliesHaveOneUser <=> Inherited!FamiliesHaveOneUser
  BY DEF Store!StoreTypes, Store!FamiliesHaveOneUser, Store!Live,
         Inherited!StoreTypes, Inherited!FamiliesHaveOneUser, Inherited!Live
<1>2. Inherited!StoreSpec => [](Inherited!StoreTypes /\ Inherited!FamiliesHaveOneUser)
  BY Inherited!Families
<1> QED
  BY <1>1, <1>2, SameStore, Refinement, PTL
  DEF ImplementsSessionStore, Store!StoreSpec, Inherited!StoreSpec

\* Following the rotations back from a row in the table ends at a login, or at a
\* row that was logged out: tokens are fresh, and a row is stored once.
THEOREM FamiliesGoBack == Spec => []Store!FamiliesHaveRoots
<1>1. Store!FamiliesHaveRoots <=> Inherited!FamiliesHaveRoots
  BY DEF Store!FamiliesHaveRoots, Store!Live, Inherited!FamiliesHaveRoots, Inherited!Live
<1>2. Inherited!StoreSpec => []Inherited!FamiliesHaveRoots
  BY NoTokenAssumption, Inherited!Roots
<1> QED
  BY <1>1, <1>2, SameStore, Refinement, PTL
  DEF ImplementsSessionStore, Store!StoreSpec, Inherited!StoreSpec

\* A row leaves the table only by a logout of its user, after which the token is
\* never stored again; until then it stays the same user's (no DELETE but those
\* of logout_one and logout_all, no UPDATE of user_id).
THEOREM RowsAreSteady == Spec => Store!SessionsAreSteady
<1>1. [Inherited!Steady]_(Inherited!storeVars) <=> [Store!Steady]_(Store!storeVars)
  BY DEF Store!Steady, Store!storeVars, Store!Live,
         Inherited!Steady, Inherited!storeVars, Inherited!Live
<1>2. Inherited!StoreSpec => Inherited!SessionsAreSteady
  BY Inherited!Steadiness
<1> QED
  BY <1>1, <1>2, SameStore, Refinement, PTL
  DEF ImplementsSessionStore, Store!StoreSpec, Inherited!StoreSpec,
      Store!SessionsAreSteady, Inherited!SessionsAreSteady
=============================================================================
