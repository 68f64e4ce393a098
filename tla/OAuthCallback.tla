--------------------------- MODULE OAuthCallback ---------------------------
(***************************************************************************)
(* Signing in with Google: the one-time state in Redis, the code that is   *)
(* exchanged for an access token and perhaps a refresh token, the calls to *)
(* Google with them, the account that is found, linked or created, and the *)
(* session that is opened.  Accounts are those of AccountStore, sessions   *)
(* those of SessionStore; UserAccounts and RefreshTokens implement them.   *)
(*                                                                         *)
(* A browser may send a callback more than once (reload, retry), and may   *)
(* finish the consent page of one state more than once: state and code are *)
(* independent parameters of a callback.  Google accepts a code once, and  *)
(* may answer late, with or without a refresh token, or not at all.        *)
(***************************************************************************)
EXTENDS Naturals

CONSTANTS
  States,     \* one for each GET /google/url
  Codes,      \* one for each consent that Google sends back
  Callbacks,  \* GET /google/callback requests being served at the same time
  Accounts, Emails,
  Subs,       \* Google accounts
  StateTtl,   \* the 300 s of the state
  MaxExpiry,  \* bound: expires_in of an access token
  MaxGrants,  \* bound: refresh tokens Google gives for one code
  Null, NoRow

ASSUME BoundsAssumption ==
  StateTtl \in Nat \ {0} /\ MaxExpiry \in Nat /\ MaxGrants \in Nat \ {0}

\* The n-th refresh token given for code k, and the sessions it opens.
Grants == Codes \X (1..MaxGrants)
SessionTokens == Codes \X {1, 2}

ASSUME NullAssumption ==
  Null \notin States \cup Codes \cup Accounts \cup Emails \cup Subs \cup Grants
    \cup SessionTokens

VARIABLES
  issued,    \* the states that have been handed out
  states,    \* state -> remaining time of its oauth:state key, 0 if there is none
  owner,     \* code -> the Google account that consented, and its email, or Null
  via,       \* code -> Null, or the state of the callback for which Google
             \* accepted it
  granted,   \* code -> how many refresh tokens Google gave for it
  rows,      \* the accounts
  session, origin, spent, closed,  \* the sessions
  cb,        \* callback -> where its handler is, and its local variables
  raced,     \* history: states that two callbacks had found before one deleted it
  relinked,  \* history: accounts moved from one Google account to another
  crossed    \* history: accounts a sign-in committed while another one held
             \* their row in memory

vars == <<issued, states, owner, via, granted, rows, session, origin, spent,
          closed, cb, raced, relinked, crossed>>
keys == <<issued, states, raced>>
google == <<owner, via, granted>>
sessions == <<session, origin, spent, closed>>
history == <<relinked, crossed>>

AccountTable == INSTANCE AccountStore WITH Names <- {}
Sessions == INSTANCE SessionStore
  WITH Users <- Accounts, Tokens <- SessionTokens, NoUser <- Null, NoToken <- Null

ASSUME NoRowAssumption == NoRow \notin AccountTable!Row

-----------------------------------------------------------------------------
PCs == {"idle", "get", "delete", "exchange", "userinfo", "drive", "find_sub",
        "find_email", "commit", "session"}

Callback ==
  [pc: PCs,
   state: States \cup {Null},
   code: Codes \cup {Null},
   grant: 0..MaxGrants,           \* its self.refresh_token, 0 for None
   expiry: 0..MaxExpiry,          \* self.token_expiry, from now
   acct: Accounts \cup {Null},    \* the account found, linked or created
   asked: SUBSET {"sub", "token"},  \* the columns it sets
   seen: AccountTable!Row \cup {NoRow}]

Idle == [pc |-> "idle", state |-> Null, code |-> Null, grant |-> 0, expiry |-> 0,
         acct |-> Null, asked |-> {}, seen |-> NoRow]

Exists(a) == rows[a] # NoRow

\* The codes that Google has accepted.
Exchanged == {k \in Codes : via[k] # Null}

\* What Google says of the account that consented.
SubOf(c) == owner[cb[c].code].sub
EmailOf(c) == owner[cb[c].code].email

\* Mutant: None is stored as a string.
TokenText(c) == <<cb[c].code, cb[c].grant>>

TokenOf(c) == IF cb[c].grant = 0 THEN Null ELSE <<cb[c].code, cb[c].grant>>

Init ==
  /\ issued = {}
  /\ states = [s \in States |-> 0]
  /\ owner = [k \in Codes |-> Null]
  /\ via = [k \in Codes |-> Null]
  /\ granted = [k \in Codes |-> 0]
  /\ AccountTable!AccountInit
  /\ Sessions!StoreInit
  /\ cb = [c \in Callbacks |-> Idle]
  /\ raced = {}
  /\ relinked = {}
  /\ crossed = {}

Goto(c, pc) == cb' = [cb EXCEPT ![c].pc = pc]
Finish(c) == cb' = [cb EXCEPT ![c] = Idle]

-----------------------------------------------------------------------------
(* Before the callback.                                                    *)

\* GET /google/url stores a new state and redirects to Google.
Redirect(s) ==
  /\ s \notin issued
  /\ issued' = issued \cup {s}
  /\ states' = [states EXCEPT ![s] = StateTtl]
  /\ UNCHANGED <<google, rows, sessions, cb, raced, history>>

\* Somebody who was redirected there consents and is sent back, with a code:
\* once more for each time the page is finished.
Consent(k, sub, email) ==
  /\ issued # {}
  /\ owner[k] = Null
  /\ owner' = [owner EXCEPT ![k] = [sub |-> sub, email |-> email]]
  /\ UNCHANGED <<keys, via, granted, rows, sessions, cb, history>>

\* GET /google/callback: nothing ties the code to the state.
Receive(c, s, k) ==
  /\ cb[c] = Idle
  /\ s \in issued
  /\ owner[k] # Null
  /\ cb' = [cb EXCEPT ![c] = [Idle EXCEPT !.pc = "get", !.state = s, !.code = k]]
  /\ UNCHANGED <<keys, google, rows, sessions, history>>

\* The callbacks, other than c, that have found the state s and not deleted it.
Finding(s, c) == {d \in Callbacks \ {c} : cb[d].pc = "delete" /\ cb[d].state = s}

\* redis.get(state_key)
GetState(c) ==
  LET s == cb[c].state IN
  /\ cb[c].pc = "get"
  /\ IF states[s] = 0
       THEN Finish(c) /\ UNCHANGED raced
       ELSE /\ Goto(c, "delete")
            /\ raced' = IF Finding(s, c) # {} THEN raced \cup {s} ELSE raced
  /\ UNCHANGED <<issued, states, google, rows, sessions, history>>

\* Mutant: the state is left to expire.
DeleteNothing(c) ==
  /\ cb[c].pc = "delete"
  /\ Goto(c, "exchange")
  /\ UNCHANGED <<keys, google, rows, sessions, history>>

\* redis.delete(state_key)
DeleteState(c) ==
  /\ cb[c].pc = "delete"
  /\ states' = [states EXCEPT ![cb[c].state] = 0]
  /\ Goto(c, "exchange")
  /\ UNCHANGED <<issued, raced, google, rows, sessions, history>>

-----------------------------------------------------------------------------
(* OAuthService.                                                           *)

\* Google's answer: what c holds of it from now on.
Take(c, pc, n, expiry) ==
  cb' = [cb EXCEPT ![c] = [@ EXCEPT !.pc = pc, !.grant = n, !.expiry = expiry]]

\* Mutant: the answer to a code is kept, for callbacks that are sent again.
ExchangeCached(c) ==
  LET k == cb[c].code IN
  /\ cb[c].pc = "exchange"
  /\ \E n \in {0, 1}, expiry \in 0..MaxExpiry :
       /\ k \in Exchanged => n = granted[k]
       /\ via' = [via EXCEPT ![k] = cb[c].state]
       /\ granted' = [granted EXCEPT ![k] = n]
       /\ Take(c, "userinfo", n, expiry)
       /\ UNCHANGED owner
  /\ UNCHANGED <<keys, rows, sessions, history>>

\* _exchange_code_for_tokens: Google answers once, and not always with a
\* refresh token.
Exchange(c) ==
  LET k == cb[c].code IN
  /\ cb[c].pc = "exchange"
  /\ IF k \in Exchanged
       THEN Finish(c) /\ UNCHANGED google
       ELSE \E n \in {0, 1}, expiry \in 0..MaxExpiry :
              /\ via' = [via EXCEPT ![k] = cb[c].state]
              /\ granted' = [granted EXCEPT ![k] = n]
              /\ Take(c, "userinfo", n, expiry)
              /\ UNCHANGED owner
  /\ UNCHANGED <<keys, rows, sessions, history>>

AfterFetch(pc) == IF pc = "userinfo" THEN "drive" ELSE "find_sub"

\* _fetch_user_info, _fetch_drive_files with an access token still valid.
Fetch(c) ==
  /\ cb[c].pc \in {"userinfo", "drive"}
  /\ cb[c].expiry > 0
  /\ Goto(c, AfterFetch(cb[c].pc))
  /\ UNCHANGED <<keys, google, rows, sessions, history>>

\* Mutant: a replaced refresh token is dropped.
RefreshKeeping(c) ==
  LET k == cb[c].code IN
  /\ cb[c].pc \in {"userinfo", "drive"}
  /\ cb[c].expiry = 0
  /\ IF cb[c].grant = 0
       THEN Finish(c) /\ UNCHANGED google
       ELSE \E n \in {cb[c].grant, cb[c].grant + 1}, expiry \in 0..MaxExpiry :
              /\ n <= MaxGrants
              /\ granted' = [granted EXCEPT ![k] = n]
              /\ Take(c, AfterFetch(cb[c].pc), cb[c].grant, expiry)
              /\ UNCHANGED <<owner, via>>
  /\ UNCHANGED <<keys, rows, sessions, history>>

\* _get_valid_access_token: an expired access token is refreshed, once, and
\* then used; Google may replace the refresh token on the way.
RefreshAndFetch(c) ==
  LET k == cb[c].code IN
  /\ cb[c].pc \in {"userinfo", "drive"}
  /\ cb[c].expiry = 0
  /\ IF cb[c].grant = 0
       THEN Finish(c) /\ UNCHANGED google
       ELSE \E n \in {cb[c].grant, cb[c].grant + 1}, expiry \in 0..MaxExpiry :
              /\ n <= MaxGrants
              /\ granted' = [granted EXCEPT ![k] = n]
              /\ Take(c, AfterFetch(cb[c].pc), n, expiry)
              /\ UNCHANGED <<owner, via>>
  /\ UNCHANGED <<keys, rows, sessions, history>>

-----------------------------------------------------------------------------
(* get_or_create_user and generate_tokens.                                 *)

Load(c, a, asked) ==
  cb' = [cb EXCEPT ![c] = [@ EXCEPT !.pc = "commit", !.acct = a,
                                !.asked = asked, !.seen = rows[a]]]

FindSub(c) ==
  LET found == {a \in Accounts : Exists(a) /\ rows[a].sub = SubOf(c)} IN
  /\ cb[c].pc = "find_sub"
  /\ IF found = {} THEN Goto(c, "find_email")
                   ELSE \E a \in found : Load(c, a, {"token"})
  /\ UNCHANGED <<keys, google, rows, sessions, history>>

\* Mutant: the account with the email is signed in without being linked.
FindEmailOnly(c) ==
  LET found == {a \in Accounts : Exists(a) /\ rows[a].email = EmailOf(c)} IN
  /\ cb[c].pc = "find_email"
  /\ IF found = {} THEN Goto(c, "commit")
                   ELSE \E a \in found : Load(c, a, {"token"})
  /\ UNCHANGED <<keys, google, rows, sessions, history>>

FindEmail(c) ==
  LET found == {a \in Accounts : Exists(a) /\ rows[a].email = EmailOf(c)} IN
  /\ cb[c].pc = "find_email"
  /\ IF found = {} THEN Goto(c, "commit")
                   ELSE \E a \in found : Load(c, a, {"sub", "token"})
  /\ UNCHANGED <<keys, google, rows, sessions, history>>

\* Mutant: the stored refresh token is kept if Google sent none.
WrittenKeepingToken(c) ==
  LET old == rows[cb[c].acct]
      seen == cb[c].seen
      asked == cb[c].asked
  IN IF seen = NoRow
       THEN [email |-> EmailOf(c), sub |-> SubOf(c), token |-> TokenOf(c), name |-> Null]
       ELSE [old EXCEPT
               !.sub = IF "sub" \in asked /\ SubOf(c) # seen.sub THEN SubOf(c) ELSE @,
               !.token = IF "token" \in asked /\ TokenOf(c) \notin {seen.token, Null}
                           THEN TokenOf(c) ELSE @]

\* The row that the commit leaves: an INSERT, or an UPDATE of the columns whose
\* value differs from the one read.
Written(c) ==
  LET old == rows[cb[c].acct]
      seen == cb[c].seen
      asked == cb[c].asked
  IN IF seen = NoRow
       THEN [email |-> EmailOf(c), sub |-> SubOf(c), token |-> TokenOf(c), name |-> Null]
       ELSE [old EXCEPT
               !.sub = IF "sub" \in asked /\ SubOf(c) # seen.sub THEN SubOf(c) ELSE @,
               !.token = IF "token" \in asked /\ TokenOf(c) # seen.token
                           THEN TokenOf(c) ELSE @]

\* The sign-ins, other than c, that hold account a in memory.
Holding(a, c) == {d \in Callbacks \ {c} : cb[d].pc = "commit" /\ cb[d].acct = a}

\* Relinking account a to the Google account of c.
Relinks(c, a) == Exists(a) /\ Written(c).sub # rows[a].sub

\* The INSERT or UPDATE and its commit; a unique constraint may fail.
Commit(c) ==
  /\ cb[c].pc = "commit"
  /\ \/ \E a \in Accounts :
          /\ IF cb[c].acct = Null
               THEN AccountTable!Create(a, Written(c))
               ELSE a = cb[c].acct /\ AccountTable!Change(a, cb[c].asked, Written(c))
          /\ cb' = [cb EXCEPT ![c] = [@ EXCEPT !.pc = "session", !.acct = a]]
          /\ relinked' = IF Relinks(c, a) /\ rows[a].sub # Null
                           THEN relinked \cup {a} ELSE relinked
          /\ crossed' = IF Holding(a, c) # {} THEN crossed \cup {a} ELSE crossed
     \/ /\ \A a \in Accounts :
             (a = cb[c].acct \/ (cb[c].acct = Null /\ ~ Exists(a)))
               => ~ AccountTable!Legal(a, Written(c))
        /\ Finish(c)
        /\ UNCHANGED <<rows, history>>
  /\ UNCHANGED <<keys, google, sessions>>

\* generate_tokens, and the answer.
OpenSession(c) ==
  /\ cb[c].pc = "session"
  /\ \E i \in {1, 2} : /\ i = 2 => session[<<cb[c].code, 1>>] # Null
                       /\ Sessions!Open(cb[c].acct, <<cb[c].code, i>>)
  /\ Finish(c)
  /\ UNCHANGED <<keys, google, rows, history>>

\* Any call fails, the answer does not validate, the client disconnects or the
\* worker dies.
Abort(c) ==
  /\ cb[c] # Idle
  /\ Finish(c)
  /\ UNCHANGED <<keys, google, rows, sessions, history>>

-----------------------------------------------------------------------------
(* The rest of the system.                                                 *)

\* POST /register/
Register(a, e) ==
  /\ AccountTable!Create(a, [email |-> e, sub |-> Null, token |-> Null, name |-> Null])
  /\ UNCHANGED <<keys, google, sessions, cb, history>>

\* PATCH /profile with a new email.
UpdateProfile(a, e) ==
  /\ Exists(a)
  /\ AccountTable!Change(a, {"email", "name"}, [rows[a] EXCEPT !.email = e])
  /\ UNCHANGED <<keys, google, sessions, cb, history>>

Less(n) == IF n = 0 THEN 0 ELSE n - 1

Tick ==
  /\ states' = [s \in States |-> Less(states[s])]
  /\ cb' = [c \in Callbacks |-> [cb[c] EXCEPT !.expiry = Less(@)]]
  /\ UNCHANGED <<issued, raced, google, rows, sessions, history>>

-----------------------------------------------------------------------------
Handle(c) ==
  \/ GetState(c) \/ DeleteState(c) \/ Exchange(c) \/ Fetch(c) \/ RefreshAndFetch(c)
  \/ FindSub(c) \/ FindEmail(c) \/ Commit(c) \/ OpenSession(c)

Next ==
  \/ \E s \in States : Redirect(s)
  \/ \E k \in Codes, sub \in Subs, email \in Emails : Consent(k, sub, email)
  \/ \E c \in Callbacks : \/ \E s \in States, k \in Codes : Receive(c, s, k)
                          \/ Handle(c)
                          \/ Abort(c)
  \/ \E a \in Accounts, e \in Emails : Register(a, e) \/ UpdateProfile(a, e)
  \/ Tick

Spec == Init /\ [][Next]_vars

-----------------------------------------------------------------------------
\* The states, the tables and the local variables have their types.
TypeOK ==
  /\ issued \subseteq States
  /\ states \in [States -> 0..StateTtl]
  /\ owner \in [Codes -> [sub: Subs, email: Emails] \cup {Null}]
  /\ via \in [Codes -> States \cup {Null}]
  /\ granted \in [Codes -> 0..MaxGrants]
  /\ rows \in [Accounts -> AccountTable!Row \cup {NoRow}]
  /\ session \in [SessionTokens -> Accounts \cup {Null}]
  /\ cb \in [Callbacks -> Callback]
  /\ raced \subseteq States
  /\ relinked \subseteq Accounts
  /\ crossed \subseteq Accounts

\* A callback that is sent again signs nobody in a second time, not even with
\* another state or while the first one is being served.
OneSignInPerCode == \A k \in Codes : session[<<k, 2>>] = Null

\* The sessions opened by callbacks with the state s.
OpenedWith(s) == {t \in SessionTokens : session[t] # Null /\ via[t[1]] = s}

\* "Invalid or expired state parameter": a state is good for one sign-in, unless
\* two callbacks had found it before either of them deleted it (redis.get and
\* redis.delete are two commands).
OneSignInPerState ==
  \A s \in States \ raced : \A t, u \in OpenedWith(s) : t = u

\* A session that Google vouched for is one of the account linked to that
\* Google account, unless the account has been linked to another one since.
SignedInAsThemselves ==
  \A t \in SessionTokens : session[t] # Null =>
    \/ rows[session[t]].sub = owner[t[1]].sub
    \/ session[t] \in relinked

\* The stored refresh token is one of the account's own Google account, unless
\* two sign-ins crossed.
TokensBelong ==
  \A a \in Accounts : Exists(a) /\ rows[a].token # Null =>
    \/ owner[rows[a].token[1]].sub = rows[a].sub
    \/ a \in crossed

\* It is the last one that Google gave for its code, also when it was replaced
\* while the access token was refreshed.
TokensAreNewest ==
  \A a \in Accounts : Exists(a) /\ rows[a].token # Null =>
    rows[a].token[2] = granted[rows[a].token[1]]

-----------------------------------------------------------------------------
(* The inductive invariant behind the safety properties.                   *)

\* The handlers for whom Google has accepted the code.
Past == {"userinfo", "drive", "find_sub", "find_email", "commit", "session"}

\* The refresh token stored for account a is one of code k.
TokenFrom(a, k) == Exists(a) /\ rows[a].token # Null /\ rows[a].token[1] = k

\* The account that c read is as it was then, in the columns that matter,
\* unless another sign-in committed or linked it meanwhile.
HoldsAccount(c) ==
  LET a == cb[c].acct
      seen == cb[c].seen
  IN
  /\ seen # NoRow
  /\ Exists(a)
  /\ \/ cb[c].asked = {"token"} /\ seen.sub = SubOf(c)
     \/ cb[c].asked = {"sub", "token"}
  /\ a \notin crossed => rows[a].sub = seen.sub /\ rows[a].token = seen.token
  /\ a \notin relinked /\ seen.sub # Null => rows[a].sub = seen.sub

HandlerOK(c) ==
  LET k == cb[c].code
      a == cb[c].acct
  IN
  /\ cb[c].pc # "idle" => cb[c].state \in States /\ k \in Codes /\ owner[k] # Null
  /\ cb[c].pc \notin {"commit", "session"} => a = Null /\ cb[c].seen = NoRow
  /\ cb[c].pc \in Past =>
       /\ k \in Exchanged
       /\ granted[k] = cb[c].grant
       /\ session[<<k, 1>>] = Null
  /\ cb[c].pc \in Past \ {"session"} => \A b \in Accounts : ~ TokenFrom(b, k)
  /\ cb[c].pc = "commit" => IF a = Null THEN cb[c].seen = NoRow ELSE HoldsAccount(c)
  /\ cb[c].pc = "session" =>
       /\ a # Null /\ Exists(a)
       /\ rows[a].sub = SubOf(c) \/ a \in relinked

\* Google accepts a code once.
OneHandlerPerCode ==
  \A c, d \in Callbacks :
    cb[c].pc \in Past /\ cb[d].pc \in Past /\ cb[c].code = cb[d].code => c = d

\* What a code leaves behind comes after its exchange.
CodesOK ==
  /\ \A k \in Exchanged : owner[k] # Null
  /\ \A a \in Accounts, k \in Codes : TokenFrom(a, k) => k \in Exchanged
  /\ \A t \in SessionTokens :
       session[t] # Null => t[1] \in Exchanged /\ Exists(session[t])

\* The inductive invariant.
IInv ==
  /\ TypeOK
  /\ OneSignInPerCode
  /\ SignedInAsThemselves
  /\ TokensBelong
  /\ TokensAreNewest
  /\ CodesOK
  /\ OneHandlerPerCode
  /\ \A c \in Callbacks : HandlerOK(c)

\* The callbacks that have found the state s.
Admitted(s) ==
  {c \in Callbacks : cb[c].state = s /\ cb[c].pc \in Past \cup {"delete", "exchange"}}

\* Unless callbacks raced for it, a state has admitted one of them at most, which
\* has not opened its session yet, and is gone once that one deleted it.
StateOK(s) ==
  /\ \A c, d \in Admitted(s) : c = d
  /\ \A t, u \in OpenedWith(s) : t = u
  /\ OpenedWith(s) # {} => Admitted(s) = {}
  /\ states[s] > 0 =>
       OpenedWith(s) = {} /\ \A c \in Admitted(s) : cb[c].pc = "delete"
  /\ s \notin issued => OpenedWith(s) = {}

\* The invariant behind OneSignInPerState, beside IInv.
StatesOK ==
  /\ \A c \in Callbacks : cb[c].pc # "idle" => cb[c].state \in issued
  /\ \A c \in Callbacks : cb[c].pc \in Past => via[cb[c].code] = cb[c].state
  /\ \A s \in States \ raced : StateOK(s)
=============================================================================
