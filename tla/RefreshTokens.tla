--------------------------- MODULE RefreshTokens ---------------------------
(***************************************************************************)
(* The refresh-token sessions of the authentication service: the table     *)
(* refresh_tokens and the HTTP requests that open (login, Google sign-in), *)
(* rotate (refresh) and close (logout, logout_all) its rows.               *)
(*                                                                         *)
(* A request runs in one of several workers and yields at every await, so  *)
(* the steps of different requests interleave.  Each of its database       *)
(* transactions runs at READ COMMITTED: a write is invisible until the     *)
(* commit, an UPDATE or a DELETE holds the row until then, and one that    *)
(* waited for a row looks at the row again once it gets it.                *)
(***************************************************************************)
EXTENDS Integers, FiniteSets

CONSTANTS
  Users,     \* rows of the table users
  Tokens,    \* refresh token strings; minting takes a fresh one
  Requests,  \* HTTP requests being served at the same time
  NoUser, NoToken,
  Grace,     \* how long a used token is still accepted (30 s in the code)
  Lifetime,  \* REFRESH_TOKEN_EXPIRE_DAYS
  MaxTime    \* bound on the clock

ASSUME GraceAssumption    == Grace \in Nat
ASSUME LifetimeAssumption == Lifetime \in Nat \ {0}
ASSUME MaxTimeAssumption  == MaxTime \in Nat
ASSUME NoUserAssumption   == NoUser \notin Users
ASSUME NoTokenAssumption  == NoToken \notin Tokens

VARIABLES
  now,        \* the clock
  active,     \* users.is_active, written only by an operator
  owner,      \* token -> its "sub" and its row's user_id; NoUser: not minted
  exp,        \* token -> its "exp" claim
  parent,     \* token -> the token it was rotated from, NoToken after a login
  table,      \* committed rows of refresh_tokens
  usedAt,     \* used and used_at of a committed row; Never: not used
  req,        \* request -> where its handler is, and its local variables
  delivered,  \* tokens some client has received in a cookie
  logouts     \* history: <<user, token>> of the rows deleted by a logout

vars == <<now, active, owner, exp, parent, table, usedAt, req, delivered,
          logouts>>
minted == <<owner, exp, parent>>

-----------------------------------------------------------------------------
Never == -1

Times == 0 .. MaxTime

LogoutKinds == {"logout", "logout_all"}
Kinds       == LogoutKinds \cup {"none", "login", "refresh"}

PCs == {"idle", "generate", "check_user", "find", "mark", "update", "delete",
        "commit", "respond"}

Request == [pc: PCs, kind: Kinds, user: Users \cup {NoUser},
            tok: Tokens \cup {NoToken},   \* the cookie's token
            new: Tokens \cup {NoToken},   \* the token minted for the answer
            mark: Times \cup {Never},     \* used_at about to be written
            targets: SUBSET Tokens,       \* rows a DELETE has still to lock
            rows: SUBSET Tokens]          \* rows it has locked, to be deleted

Idle == [pc |-> "idle", kind |-> "none", user |-> NoUser, tok |-> NoToken,
         new |-> NoToken, mark |-> Never, targets |-> {}, rows |-> {}]

Unminted == {t \in Tokens : owner[t] = NoUser}

\* The requests that still have to mint a token.
Minters == {r \in Requests : req[r].pc \in {"generate", "check_user", "find",
                                            "mark"}}

\* Bound: a request that may mint starts only while a fresh token is left.
TokenLeft == Cardinality(Minters) < Cardinality(Unminted)

\* Mutant: the row is locked from the SELECT on, and shared by its readers.
HoldsFromSelect(r, t) ==
  \/ /\ req[r].pc \in {"update", "commit"}
     /\ req[r].kind = "refresh" /\ req[r].tok = t
  \/ t \in req[r].rows

\* r wrote row t in its open transaction and holds its lock until the end.
Holds(r, t) ==
  \/ req[r].pc = "commit" /\ req[r].kind = "refresh" /\ req[r].tok = t
  \/ t \in req[r].rows

LockedByOther(r, t) == \E q \in Requests \ {r} : Holds(q, t)

Birth(t) == exp[t] - Lifetime

-----------------------------------------------------------------------------
Init ==
  /\ now = 0
  /\ active = [u \in Users |-> TRUE]
  /\ owner = [t \in Tokens |-> NoUser]
  /\ exp = [t \in Tokens |-> 0]
  /\ parent = [t \in Tokens |-> NoToken]
  /\ table = {}
  /\ usedAt = [t \in Tokens |-> Never]
  /\ req = [r \in Requests |-> Idle]
  /\ delivered = {}
  /\ logouts = {}

Goto(r, pc) == req' = [req EXCEPT ![r].pc = pc]

Start(r, request) ==
  /\ req[r] = Idle
  /\ req' = [req EXCEPT ![r] = request]

\* create_refresh_token and the row that goes with it, still uncommitted.
Mint(t, u, from) ==
  /\ t \in Unminted
  /\ owner' = [owner EXCEPT ![t] = u]
  /\ exp' = [exp EXCEPT ![t] = now + Lifetime]
  /\ parent' = [parent EXCEPT ![t] = from]

-----------------------------------------------------------------------------
(* Opening a session.                                                      *)

\* POST /login/ of an account authenticate_user lets through.
Login(r, u) ==
  /\ active[u]
  /\ TokenLeft
  /\ Start(r, [Idle EXCEPT !.pc = "generate", !.kind = "login", !.user = u])
  /\ UNCHANGED <<now, active, minted, table, usedAt, delivered, logouts>>

\* GET /google/callback: get_or_create_user found or made the account.
GoogleLogin(r, u) ==
  /\ TokenLeft
  /\ Start(r, [Idle EXCEPT !.pc = "generate", !.kind = "login", !.user = u])
  /\ UNCHANGED <<now, active, minted, table, usedAt, delivered, logouts>>

\* generate_tokens, up to the commit of its unit of work.
Generate(r) ==
  /\ req[r].pc = "generate"
  /\ \E t \in Tokens :
       /\ Mint(t, req[r].user, NoToken)
       /\ req' = [req EXCEPT ![r].pc = "commit", ![r].new = t]
  /\ UNCHANGED <<now, active, table, usedAt, delivered, logouts>>

CommitLogin(r) ==
  /\ req[r].pc = "commit"
  /\ req[r].kind = "login"
  /\ table' = table \cup {req[r].new}
  /\ Goto(r, "respond")
  /\ UNCHANGED <<now, active, minted, usedAt, delivered, logouts>>

-----------------------------------------------------------------------------
(* Rotating a session.                                                     *)

\* POST /refresh/ with the cookie t: decode_refresh_token checks "exp" only.
Refresh(r, t) ==
  /\ now <= exp[t]
  /\ TokenLeft
  /\ Start(r, [Idle EXCEPT !.pc = "check_user", !.kind = "refresh",
                           !.user = owner[t], !.tok = t])
  /\ UNCHANGED <<now, active, minted, table, usedAt, delivered, logouts>>

\* check_user_by_id, a unit of work of its own; raises if not active.
CheckUser(r) ==
  /\ req[r].pc = "check_user"
  /\ IF active[req[r].user] THEN Goto(r, "find")
                            ELSE req' = [req EXCEPT ![r] = Idle]
  /\ UNCHANGED <<now, active, minted, table, usedAt, delivered, logouts>>

\* The used row t is past its grace period.
Spent(t) == usedAt[t] # Never /\ now - usedAt[t] > Grace

\* Mutant: a used token is accepted whatever its age.
FindTokenOfAnyAge(r) ==
  LET t == req[r].tok IN
  /\ req[r].pc = "find"
  /\ IF t \in table /\ owner[t] = req[r].user
       THEN Goto(r, "mark")
       ELSE req' = [req EXCEPT ![r] = Idle]
  /\ UNCHANGED <<now, active, minted, table, usedAt, delivered, logouts>>

\* find_by_token_and_user and the two checks of rotate_tokens.
FindToken(r) ==
  LET t == req[r].tok IN
  /\ req[r].pc = "find"
  /\ IF t \in table /\ owner[t] = req[r].user /\ ~ Spent(t)
       THEN Goto(r, "mark")
       ELSE req' = [req EXCEPT ![r] = Idle]
  /\ UNCHANGED <<now, active, minted, table, usedAt, delivered, logouts>>

\* _mark_token_as_used, on the object in memory, and the new token's minting.
Mark(r) ==
  /\ req[r].pc = "mark"
  /\ \E t \in Tokens :
       /\ Mint(t, req[r].user, req[r].tok)
       /\ req' = [req EXCEPT ![r].pc = "update", ![r].new = t,
                             ![r].mark = now]
  /\ UNCHANGED <<now, active, table, usedAt, delivered, logouts>>

\* Mutant: an UPDATE that matches no row is taken for a success.
UpdateUnchecked(r) ==
  /\ req[r].pc = "update"
  /\ ~ LockedByOther(r, req[r].tok)
  /\ Goto(r, "commit")
  /\ UNCHANGED <<now, active, minted, table, usedAt, delivered, logouts>>

\* Mutant: the UPDATE does not wait for the row.
UpdateUnlocked(r) ==
  /\ req[r].pc = "update"
  /\ IF req[r].tok \in table THEN Goto(r, "commit")
                             ELSE req' = [req EXCEPT ![r] = Idle]
  /\ UNCHANGED <<now, active, minted, table, usedAt, delivered, logouts>>

\* The flushed UPDATE waits for the row, by primary key, and raises
\* StaleDataError when the row is gone; the INSERT follows it.
Update(r) ==
  /\ req[r].pc = "update"
  /\ ~ LockedByOther(r, req[r].tok)
  /\ IF req[r].tok \in table THEN Goto(r, "commit")
                             ELSE req' = [req EXCEPT ![r] = Idle]
  /\ UNCHANGED <<now, active, minted, table, usedAt, delivered, logouts>>

\* Mutant: the used token is not marked.
CommitUnmarked(r) ==
  /\ req[r].pc = "commit"
  /\ req[r].kind = "refresh"
  /\ table' = table \cup {req[r].new}
  /\ Goto(r, "respond")
  /\ UNCHANGED <<now, active, minted, usedAt, delivered, logouts>>

\* Mutant: used_at receives the expiry of the new token.
CommitWithExpiry(r) ==
  /\ req[r].pc = "commit"
  /\ req[r].kind = "refresh"
  /\ usedAt' = [usedAt EXCEPT ![req[r].tok] = exp[req[r].new]]
  /\ table' = table \cup {req[r].new}
  /\ Goto(r, "respond")
  /\ UNCHANGED <<now, active, minted, delivered, logouts>>

CommitRotation(r) ==
  /\ req[r].pc = "commit"
  /\ req[r].kind = "refresh"
  /\ usedAt' = [usedAt EXCEPT ![req[r].tok] = req[r].mark]
  /\ table' = table \cup {req[r].new}
  /\ Goto(r, "respond")
  /\ UNCHANGED <<now, active, minted, delivered, logouts>>

-----------------------------------------------------------------------------
(* Closing sessions.                                                       *)

\* The caller of an authenticated endpoint has received an access token.
SignedIn(u) == \E t \in delivered : owner[t] = u

\* DELETE /logout/ by u with the cookie t, up to the statement's snapshot.
Logout(r, u, t) ==
  /\ SignedIn(u)
  /\ Start(r, [Idle EXCEPT !.pc = "delete", !.kind = "logout", !.user = u,
                 !.targets = {s \in table : s = t /\ owner[s] = u}])
  /\ UNCHANGED <<now, active, minted, table, usedAt, delivered, logouts>>

\* Mutant: logout_all without the WHERE clause.
LogoutEveryone(r, u) ==
  /\ SignedIn(u)
  /\ Start(r, [Idle EXCEPT !.pc = "delete", !.kind = "logout_all", !.user = u,
                 !.targets = table])
  /\ UNCHANGED <<now, active, minted, table, usedAt, delivered, logouts>>

\* DELETE /logout_all/ by u, up to the statement's snapshot.
LogoutAll(r, u) ==
  /\ SignedIn(u)
  /\ Start(r, [Idle EXCEPT !.pc = "delete", !.kind = "logout_all", !.user = u,
                 !.targets = {s \in table : owner[s] = u}])
  /\ UNCHANGED <<now, active, minted, table, usedAt, delivered, logouts>>

\* Mutant: a row of the snapshot is not looked at again after the wait.
DeleteSnapshot(r) ==
  /\ req[r].pc = "delete"
  /\ \E t \in req[r].targets :
       /\ ~ LockedByOther(r, t)
       /\ req' = [req EXCEPT ![r].targets = @ \ {t}, ![r].rows = @ \cup {t}]
  /\ UNCHANGED <<now, active, minted, table, usedAt, delivered, logouts>>

\* The DELETE locks the next row of its snapshot, or finds it gone.
Delete(r) ==
  /\ req[r].pc = "delete"
  /\ \E t \in req[r].targets :
       /\ ~ LockedByOther(r, t)
       /\ req' = [req EXCEPT ![r].targets = @ \ {t},
                             ![r].rows = @ \cup ({t} \cap table)]
  /\ UNCHANGED <<now, active, minted, table, usedAt, delivered, logouts>>

\* Nothing changes when no row was left: logout_one then raises, and the
\* endpoint ignores it.
CommitLogout(r) ==
  LET rows == req[r].rows IN
  /\ req[r].pc = "delete"
  /\ req[r].targets = {}
  /\ table' = table \ rows
  /\ usedAt' = [t \in Tokens |-> IF t \in rows THEN Never ELSE usedAt[t]]
  /\ logouts' = logouts \cup ({req[r].user} \X rows)
  /\ req' = [req EXCEPT ![r] = Idle]
  /\ UNCHANGED <<now, active, minted, delivered>>

-----------------------------------------------------------------------------
\* The answer sets the cookie.
Respond(r) ==
  /\ req[r].pc = "respond"
  /\ delivered' = delivered \cup {req[r].new}
  /\ req' = [req EXCEPT ![r] = Idle]
  /\ UNCHANGED <<now, active, minted, table, usedAt, logouts>>

\* A database error, a cancelled request, a worker that dies, an answer that
\* is lost: the open transaction, if any, is rolled back.
Abort(r) ==
  /\ req[r] # Idle
  /\ req' = [req EXCEPT ![r] = Idle]
  /\ UNCHANGED <<now, active, minted, table, usedAt, delivered, logouts>>

Tick ==
  /\ now < MaxTime
  /\ now' = now + 1
  /\ UNCHANGED <<active, minted, table, usedAt, req, delivered, logouts>>

\* An operator deactivates or reactivates an account in the database.
SetActive(u) ==
  /\ active' = [active EXCEPT ![u] = ~ @]
  /\ UNCHANGED <<now, minted, table, usedAt, req, delivered, logouts>>

-----------------------------------------------------------------------------
Arrive(r) ==
  \/ \E u \in Users : Login(r, u) \/ GoogleLogin(r, u) \/ LogoutAll(r, u)
  \/ \E t \in delivered : Refresh(r, t) \/ \E u \in Users : Logout(r, u, t)

\* The steps that do not wait for another request.
Work(r) ==
  \/ Generate(r) \/ CheckUser(r) \/ FindToken(r) \/ Mark(r)
  \/ CommitLogin(r) \/ CommitRotation(r) \/ CommitLogout(r) \/ Respond(r)

\* The steps that wait for row locks.
Acquire(r) == Update(r) \/ Delete(r)

Next ==
  \/ \E r \in Requests : Arrive(r) \/ Work(r) \/ Acquire(r) \/ Abort(r)
  \/ Tick
  \/ \E u \in Users : SetActive(u)

Spec == Init /\ [][Next]_vars

\* r waits, in a circle of deletes, for rows that the others have locked.
Deadlocked(r) ==
  \E S \in SUBSET Requests :
    /\ r \in S
    /\ \A q \in S :
         /\ req[q].pc = "delete" /\ req[q].targets # {}
         /\ \A t \in req[q].targets : \E p \in S \ {q} : Holds(p, t)

\* A worker keeps running the handlers it has started; PostgreSQL queues the
\* transactions that wait for a row, and fails one of each deadlock.
Fairness ==
  \A r \in Requests : /\ WF_vars(Work(r))
                       /\ SF_vars(Acquire(r))
                       /\ WF_vars(Deadlocked(r) /\ Abort(r))

FairSpec == Spec /\ Fairness

-----------------------------------------------------------------------------
(* Properties.                                                             *)

\* Every variable, the local variables of the handlers included, has its type.
TypeOK ==
  /\ now \in Times
  /\ active \in [Users -> BOOLEAN]
  /\ owner \in [Tokens -> Users \cup {NoUser}]
  /\ exp \in [Tokens -> 0 .. MaxTime + Lifetime]
  /\ parent \in [Tokens -> Tokens \cup {NoToken}]
  /\ table \subseteq Tokens
  /\ usedAt \in [Tokens -> Times \cup {Never}]
  /\ req \in [Requests -> Request]
  /\ delivered \subseteq Tokens
  /\ logouts \subseteq Users \X Tokens

\* A row deleted by a committed logout is finished: the token is not in the
\* table and no rotation of it is about to commit (logout_one and logout_all
\* against the SELECT, UPDATE and COMMIT of a concurrent rotate_tokens).
LoggedOutIsFinal ==
  \A u \in Users, t \in Tokens :
    <<u, t>> \in logouts =>
      /\ t \notin table
      /\ \A r \in Requests : ~ (req[r].kind = "refresh" /\ Holds(r, t))

\* The row was committed, and is there or was logged out by its user.
Committed(t) == t \in table \/ <<owner[t], t>> \in logouts

\* A session that reached its client lasts until the same user logs it out:
\* no rotation, failure or foreign logout removes the row (the WHERE clauses of
\* the deletes, and an answer sent only after __aexit__ committed).
NoSessionLost ==
  \A t \in delivered : Committed(t)

UsedMatches(t) ==
  /\ usedAt[t] # Never =>
       \E c \in Tokens : /\ parent[c] = t
                         /\ Birth(c) = usedAt[t]
                         /\ Committed(c)
  /\ usedAt[t] = Never =>
       \A c \in Tokens : parent[c] = t => ~ Committed(c)

\* A row is used exactly when a rotation of it committed: its used_at is the
\* birth of one of its successors, and no successor was stored without marking
\* it (_mark_token_as_used and the INSERT are in one unit of work).
UsedIffRotated == \A t \in table : UsedMatches(t)

\* A successor enters the table only while the row it was rotated from is
\* there: a logout of the old token between find_by_token_and_user and the
\* commit of rotate_tokens makes the rotation fail.
RotationNeedsLiveParent ==
  [][\A c \in table' \ table : parent[c] # NoToken => parent[c] \in table]_vars

\* Requests that passed the checks of rotate_tokens on t and are not over.
Rotating(t) ==
  {r \in Requests : /\ req[r].tok = t
                    /\ req[r].pc \in {"mark", "update", "commit"}}

\* A used token that outlived its grace period, with no rotation of it under
\* way, is never accepted again: used_at does not move forward any more (the
\* check of rotate_tokens against the late UPDATEs of other requests).
SpentStaysSpent ==
  [][\A t \in table : Spent(t) /\ Rotating(t) = {}
       => t \notin table' \/ (Spent(t)' /\ Rotating(t)' = {})]_vars

\* Every request is answered or fails: no cycle of row locks and no wait that
\* only the waiter could end (the UPDATE of rotate_tokens, both DELETEs).
RequestsComplete == \A r \in Requests : req[r] # Idle ~> req[r] = Idle

\* All that r waits for is locked by requests of S.
WaitsWithin(r, S) ==
  LET locked(t) == \E q \in S \ {r} : Holds(q, t) IN
  \/ req[r].pc = "update" /\ locked(req[r].tok)
  \/ req[r].pc = "delete" /\ req[r].targets # {} /\ \A t \in req[r].targets : locked(t)

\* Requests that wait for each other only, whatever rotations and logouts are
\* among them, are kept waiting by a circle of logout_alls, one of which
\* PostgreSQL fails: a rotation has locked nothing when it waits, logout_one
\* nothing but its last row (the order of the UPDATE and the INSERT in the flush
\* of rotate_tokens, and DELETEs that lock their rows in no order).
WaitCirclesAreLogoutAlls ==
  \A S \in SUBSET Requests :
    S # {} /\ (\A r \in S : WaitsWithin(r, S)) =>
      \E r \in S : req[r].kind = "logout_all" /\ Deadlocked(r)

\* The transactions on refresh_tokens behave as the atomic operations of
\* SessionStore: each takes effect at its commit and at no other step.
Store == INSTANCE SessionStore WITH
  session <- [t \in Tokens |-> IF t \in table THEN owner[t] ELSE NoUser],
  origin <- [t \in Tokens |-> IF t \in table THEN parent[t] ELSE NoToken],
  spent <- {t \in table : usedAt[t] # Never},
  closed <- {t \in Tokens : \E u \in Users : <<u, t>> \in logouts}

ImplementsSessionStore == Store!StoreSpec

-----------------------------------------------------------------------------
(* What the documentation says and the code does not do.                   *)

\* rotate_tokens: "Maintains a 30 s grace period on the old token, invalidates
\* it thereafter": a rotation is not accepted once a stored successor of the
\* token is older than the grace period.
GraceEnds ==
  [][\A r \in Requests, c \in table :
       req[r].pc = "find" /\ req'[r].pc = "mark" /\ parent[c] = req[r].tok
         => now - Birth(c) <= Grace]_vars

\* logout_all: "All sessions logged out": when it commits, no session of the
\* user that was rotated from one of the rows it deletes is left.
AllSessionsLoggedOut ==
  [][\A r \in Requests :
       CommitLogout(r) /\ req[r].kind = "logout_all"
         => \A c \in table' : parent[c] \notin req[r].rows]_vars

-----------------------------------------------------------------------------
(* The inductive invariant behind the safety properties.                   *)

\* Two transactions never hold the same row.
LocksExclude ==
  \A q, r \in Requests, t \in Tokens : Holds(q, t) /\ Holds(r, t) => q = r

\* A transaction still finds the rows it wrote.
HeldRowsExist ==
  \A r \in Requests, t \in Tokens : Holds(r, t) => t \in table

\* Which handler is at which step, for whom and with which token.
HandlersOK ==
  \A r \in Requests :
    /\ req[r].pc # "idle" => req[r].kind # "none"
    /\ req[r].kind # "none" => req[r].user \in Users
    /\ req[r].pc = "generate" => req[r].kind = "login"
    /\ req[r].pc \in {"check_user", "find", "mark", "update"}
         => req[r].kind = "refresh"
    /\ req[r].pc = "delete" <=> req[r].kind \in LogoutKinds
    /\ req[r].kind = "refresh" =>
         req[r].tok \in Tokens /\ owner[req[r].tok] = req[r].user
    /\ req[r].kind # "refresh" => req[r].tok = NoToken

\* Deletes select and lock only rows of the user who logs out, logout_one a
\* single one.
TargetsOK ==
  \A r \in Requests :
    /\ \A t \in req[r].targets \cup req[r].rows :
         req[r].pc = "delete" /\ owner[t] = req[r].user
    /\ req[r].kind = "logout" =>
         \A s, t \in req[r].targets \cup req[r].rows : s = t

\* r's open transaction is about to insert, or has inserted, its new row.
Inserting(r) == req[r].pc \in {"update", "commit"}

NewRowsOK ==
  \A r \in Requests :
    /\ Inserting(r) =>
         /\ req[r].new \in Tokens
         /\ owner[req[r].new] = req[r].user
         /\ parent[req[r].new] = req[r].tok
         /\ ~ Committed(req[r].new)
         /\ req[r].kind = "refresh" =>
              req[r].mark \in Times /\ Birth(req[r].new) = req[r].mark
         /\ \A q \in Requests : Inserting(q) /\ req[q].new = req[r].new => q = r
    /\ req[r].pc = "respond" =>
         req[r].new \in Tokens /\ Committed(req[r].new)

\* What the table and the history of logouts say of each other.
RowsOK ==
  \A t \in Tokens :
    /\ t \in table => owner[t] \in Users
    /\ t \notin table => usedAt[t] = Never
    /\ Committed(t) /\ parent[t] # NoToken => Committed(parent[t])
    /\ \A u \in Users : <<u, t>> \in logouts => owner[t] = u /\ t \notin table

Consistent ==
  /\ LocksExclude
  /\ HeldRowsExist
  /\ HandlersOK
  /\ TargetsOK
  /\ NewRowsOK
  /\ RowsOK
  /\ NoSessionLost

\* The inductive invariant: TypeOK alone is not, since a committed row is a
\* token only because NewRowsOK says that something was minted.
IInv == TypeOK /\ Consistent
=============================================================================
