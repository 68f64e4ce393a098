------------------------ MODULE OAuthCallbackProofs ------------------------
(* Theorems about OAuthCallback, for any states, codes, callbacks and     *)
(* accounts, in two layers: IInv is about what a code leaves behind, and   *)
(* rests on Google accepting a code once; StatesOK is about whom a state   *)
(* admits, and rests on Redis alone.                                       *)
EXTENDS OAuthCallback, TLAPS

USE DEF PCs, Past

-----------------------------------------------------------------------------
(* What a step does to the record of its callback.                         *)

\* Nothing but c's own record changes, and only in a way its type allows.
Own(c) == /\ cb' \in [Callbacks -> Callback]
          /\ \A d \in Callbacks \ {c} : cb'[d] = cb[d]

\* c goes on to another step, and nothing else of it changes.
Moved(c, pc) ==
  /\ Own(c)
  /\ cb'[c].pc = pc
  /\ cb'[c].state = cb[c].state /\ cb'[c].code = cb[c].code
  /\ cb'[c].grant = cb[c].grant /\ cb'[c].acct = cb[c].acct
  /\ cb'[c].asked = cb[c].asked /\ cb'[c].seen = cb[c].seen

\* A callback that is over has the type of one.
LEMMA IdleType == Idle \in Callback
  BY BoundsAssumption DEF Idle, Callback

\* The end of a callback touches no other.
LEMMA FinishType ==
  ASSUME TypeOK, NEW c \in Callbacks, Finish(c)
  PROVE  Own(c) /\ cb'[c] = Idle
  BY IdleType DEF TypeOK, Finish, Own

\* A step of the program counter changes nothing else.
LEMMA GotoType ==
  ASSUME TypeOK, NEW c \in Callbacks, NEW pc \in PCs, Goto(c, pc)
  PROVE  Moved(c, pc)
<1> DEFINE new == [cb[c] EXCEPT !.pc = pc]
<1>1. cb[c] \in Callback
  BY DEF TypeOK
<1>2. /\ new \in Callback /\ new.pc = pc
      /\ new.state = cb[c].state /\ new.code = cb[c].code
      /\ new.grant = cb[c].grant /\ new.acct = cb[c].acct
      /\ new.asked = cb[c].asked /\ new.seen = cb[c].seen
  BY <1>1 DEF Callback
<1>3. cb' = [cb EXCEPT ![c] = new]
  BY DEF Goto
<1> HIDE DEF new
<1> QED
  BY <1>2, <1>3 DEF TypeOK, Own, Moved

\* A callback arrives without touching another.
LEMMA ReceiveType ==
  ASSUME TypeOK, NEW c \in Callbacks, NEW s \in States, NEW k \in Codes,
         Receive(c, s, k)
  PROVE  /\ Own(c)
         /\ cb'[c].pc = "get" /\ cb'[c].state = s /\ cb'[c].code = k
         /\ cb'[c].acct = Null /\ cb'[c].seen = NoRow
<1> DEFINE new == [Idle EXCEPT !.pc = "get", !.state = s, !.code = k]
<1>1. new \in Callback /\ new.pc = "get" /\ new.state = s /\ new.code = k
  BY IdleType DEF Callback
<1>3. new.acct = Null /\ new.seen = NoRow
  BY DEF Idle
<1>2. cb' = [cb EXCEPT ![c] = new]
  BY DEF Receive
<1> HIDE DEF new
<1> QED
  BY <1>1, <1>2, <1>3 DEF TypeOK, Own

\* A handler that writes its own record writes no other.
LEMMA WriteType ==
  ASSUME TypeOK, NEW c \in Callbacks, NEW new \in Callback,
         cb' = [cb EXCEPT ![c] = new]
  PROVE  Own(c) /\ cb'[c] = new
  BY DEF TypeOK, Own

\* Google answers to a code or a refresh.
LEMMA TakeType ==
  ASSUME TypeOK, NEW c \in Callbacks, NEW pc \in PCs, NEW n \in 0..MaxGrants,
         NEW expiry \in 0..MaxExpiry, Take(c, pc, n, expiry)
  PROVE  /\ Own(c)
         /\ cb'[c].pc = pc
         /\ cb'[c].state = cb[c].state /\ cb'[c].code = cb[c].code
         /\ cb'[c].grant = n /\ cb'[c].acct = cb[c].acct /\ cb'[c].seen = cb[c].seen
<1> DEFINE new == [cb[c] EXCEPT !.pc = pc, !.grant = n, !.expiry = expiry]
<1>1. cb[c] \in Callback
  BY DEF TypeOK
<1>2. /\ new \in Callback /\ new.pc = pc
      /\ new.state = cb[c].state /\ new.code = cb[c].code
      /\ new.grant = n /\ new.acct = cb[c].acct /\ new.seen = cb[c].seen
  BY <1>1 DEF Callback
<1>3. cb' = [cb EXCEPT ![c] = new]
  BY DEF Take
<1> HIDE DEF new
<1> QED
  BY <1>2, <1>3, WriteType

\* The account that a SELECT found.
LEMMA LoadType ==
  ASSUME TypeOK, NEW c \in Callbacks, NEW a \in Accounts, Exists(a),
         NEW asked \in SUBSET {"sub", "token"}, Load(c, a, asked)
  PROVE  /\ Own(c)
         /\ cb'[c].pc = "commit"
         /\ cb'[c].state = cb[c].state /\ cb'[c].code = cb[c].code
         /\ cb'[c].grant = cb[c].grant /\ cb'[c].acct = a
         /\ cb'[c].asked = asked /\ cb'[c].seen = rows[a]
<1> DEFINE new == [cb[c] EXCEPT !.pc = "commit", !.acct = a, !.asked = asked,
                                !.seen = rows[a]]
<1>1. cb[c] \in Callback /\ rows[a] \in AccountTable!Row
  BY DEF TypeOK, Exists
<1>2. /\ new \in Callback /\ new.pc = "commit"
      /\ new.state = cb[c].state /\ new.code = cb[c].code
      /\ new.grant = cb[c].grant /\ new.acct = a
      /\ new.asked = asked /\ new.seen = rows[a]
  BY <1>1 DEF Callback
<1>3. cb' = [cb EXCEPT ![c] = new]
  BY DEF Load
<1> HIDE DEF new
<1> QED
  BY <1>2, <1>3, WriteType

\* A sign-in that has committed goes on with the account's id.
LEMMA CommitType ==
  ASSUME TypeOK, NEW c \in Callbacks, NEW a \in Accounts,
         cb' = [cb EXCEPT ![c] = [@ EXCEPT !.pc = "session", !.acct = a]]
  PROVE  /\ Own(c)
         /\ cb'[c].pc = "session"
         /\ cb'[c].state = cb[c].state /\ cb'[c].code = cb[c].code
         /\ cb'[c].grant = cb[c].grant /\ cb'[c].acct = a
<1> DEFINE new == [cb[c] EXCEPT !.pc = "session", !.acct = a]
<1>1. cb[c] \in Callback
  BY DEF TypeOK
<1>2. /\ new \in Callback /\ new.pc = "session"
      /\ new.state = cb[c].state /\ new.code = cb[c].code
      /\ new.grant = cb[c].grant /\ new.acct = a
  BY <1>1 DEF Callback
<1>3. cb' = [cb EXCEPT ![c] = new]
  OBVIOUS
<1> HIDE DEF new
<1> QED
  BY <1>2, <1>3, WriteType

-----------------------------------------------------------------------------
(* Each step keeps the invariant.                                          *)

others == <<via, Exchanged, granted, rows, session, relinked, crossed>>

\* The part of TypeOK about the states, which the rest of IInv does not mention.
KeysTyped ==
  /\ issued \subseteq States
  /\ states \in [States -> 0..StateTtl]
  /\ raced \subseteq States

\* Nothing happens to the states.
LEMMA KeysKept == ASSUME IInv, UNCHANGED keys PROVE KeysTyped'
  BY DEF IInv, TypeOK, KeysTyped, keys

\* A step that only moves c, and not past the exchange, keeps the invariant if
\* it leaves c as it should be.
LEMMA QuietStep ==
  ASSUME IInv, NEW c \in Callbacks, Own(c), UNCHANGED <<owner, others>>,
         cb'[c].pc \in Past => cb[c].pc \in Past /\ cb'[c].code = cb[c].code,
         KeysTyped',
         HandlerOK(c)'
  PROVE  IInv'
<1> USE DEF others
<1>1. TypeOK'
  BY DEF IInv, TypeOK, Own, KeysTyped
<1>2. OneHandlerPerCode'
  BY DEF IInv, OneHandlerPerCode, Own
<1>3. ASSUME NEW d \in Callbacks PROVE HandlerOK(d)'
  <2>1. CASE d = c
    BY <2>1
  <2>2. CASE d # c
    <3>1. cb'[d] = cb[d] /\ HandlerOK(d)
      BY <2>2 DEF Own, IInv
    <3> QED
      BY <3>1 DEF HandlerOK, HoldsAccount, TokenFrom, Exists, SubOf
  <2> QED
    BY <2>1, <2>2
<1>4. /\ OneSignInPerCode' /\ SignedInAsThemselves' /\ TokensBelong'
      /\ TokensAreNewest' /\ CodesOK'
  BY DEF IInv, OneSignInPerCode, SignedInAsThemselves, TokensBelong,
     TokensAreNewest, CodesOK, TokenFrom, Exists
<1> QED
  BY <1>1, <1>2, <1>3, <1>4 DEF IInv

\* The end of a callback leaves nothing to hold.
LEMMA FinishStep ==
  ASSUME IInv, NEW c \in Callbacks, Finish(c), UNCHANGED <<keys, owner, others>>
  PROVE  IInv'
<1>1. Own(c) /\ cb'[c] = Idle
  BY FinishType DEF IInv
<1>2. cb'[c].pc = "idle" /\ cb'[c].acct = Null /\ cb'[c].seen = NoRow
  BY <1>1 DEF Idle
<1>3. HandlerOK(c)'
  BY <1>2 DEF HandlerOK
<1>4. KeysTyped'
  BY KeysKept
<1> QED
  BY <1>1, <1>2, <1>3, <1>4, QuietStep

\* Requests before the exchange hold nothing.
LEMMA EarlyStep ==
  ASSUME IInv, NEW c \in Callbacks, NEW k \in Codes,
         UNCHANGED <<owner, others>>, KeysTyped',
         Own(c), owner[k] # Null,
         cb'[c].pc \in {"get", "delete", "exchange"}, cb'[c].code = k,
         cb'[c].state \in States,
         cb'[c].acct = Null, cb'[c].seen = NoRow
  PROVE  IInv'
<1>1. HandlerOK(c)'
  BY DEF HandlerOK
<1> QED
  BY <1>1, QuietStep

\* A callback arrives with a code somebody consented to.
LEMMA ReceiveStep ==
  ASSUME IInv, NEW c \in Callbacks, NEW s \in States, NEW k \in Codes,
         Receive(c, s, k)
  PROVE  IInv'
<1>1. UNCHANGED <<keys, owner, others>> /\ owner[k] # Null
  BY DEF Receive, google, sessions, history, others, Exchanged
<1>2. KeysTyped'
  BY <1>1, KeysKept
<1>3. TypeOK
  BY DEF IInv
<1> QED
  BY <1>1, <1>2, <1>3, ReceiveType, EarlyStep

\* A state that is not in Redis ends the callback.
LEMMA GetStateStep ==
  ASSUME IInv, NEW c \in Callbacks, GetState(c)
  PROVE  IInv'
<1>1. UNCHANGED <<issued, states, owner, others>> /\ cb[c].pc = "get"
  BY DEF GetState, google, sessions, history, others, Exchanged
<1>2. CASE states[cb[c].state] = 0
  BY <1>1, <1>2, FinishStep DEF GetState, keys
<1>3. CASE states[cb[c].state] # 0
  <2>1. Moved(c, "delete")
    BY <1>3, GotoType DEF GetState, IInv
  <2>2. /\ cb[c].code \in Codes /\ owner[cb[c].code] # Null
        /\ cb[c].state \in States /\ cb[c].acct = Null /\ cb[c].seen = NoRow
    BY <1>1 DEF IInv, HandlerOK
  <2>3. KeysTyped'
    <3>1. cb[c].state \in States
      BY <1>1 DEF IInv, HandlerOK
    <3> QED
      BY <1>1, <1>3, <3>1 DEF GetState, KeysTyped, IInv, TypeOK
  <2> QED
    BY <1>1, <2>1, <2>2, <2>3, EarlyStep DEF Moved
<1> QED
  BY <1>2, <1>3

\* The state goes.
LEMMA DeleteStateStep ==
  ASSUME IInv, NEW c \in Callbacks, DeleteState(c)
  PROVE  IInv'
<1>1. UNCHANGED <<issued, raced, owner, others>> /\ cb[c].pc = "delete"
  BY DEF DeleteState, google, sessions, history, others, Exchanged
<1>2. Moved(c, "exchange")
  BY GotoType DEF DeleteState, IInv
<1>3. /\ cb[c].code \in Codes /\ owner[cb[c].code] # Null
      /\ cb[c].state \in States /\ cb[c].acct = Null /\ cb[c].seen = NoRow
  BY <1>1 DEF IInv, HandlerOK
<1>4. KeysTyped'
  <2>1. states \in [States -> 0..StateTtl] /\ 0 \in 0..StateTtl
    BY BoundsAssumption DEF IInv, TypeOK
  <2>2. states' = [states EXCEPT ![cb[c].state] = 0]
    BY DEF DeleteState
  <2> QED
    BY <1>1, <2>1, <2>2 DEF IInv, TypeOK, KeysTyped
<1> QED
  BY <1>1, <1>2, <1>3, <1>4, EarlyStep DEF Moved

\* A call to Google with a valid access token.
LEMMA FetchStep ==
  ASSUME IInv, NEW c \in Callbacks, Fetch(c)
  PROVE  IInv'
<1>1. UNCHANGED <<keys, owner, others>> /\ cb[c].pc \in {"userinfo", "drive"}
  BY DEF Fetch, google, sessions, history, others, Exchanged
<1>2. PICK pc \in {"drive", "find_sub"} : Moved(c, pc)
  BY <1>1, GotoType DEF Fetch, AfterFetch, IInv
<1>3. HandlerOK(c)'
  <2>1. HandlerOK(c)
    BY DEF IInv
  <2> QED
    BY <1>1, <1>2, <2>1 DEF Moved, HandlerOK, TokenFrom, Exists, others
<1>4. KeysTyped'
  BY <1>1, KeysKept
<1> QED
  BY <1>1, <1>2, <1>3, <1>4, QuietStep DEF Moved

\* An account that was just read is as it was read.
LEMMA LoadStep ==
  ASSUME IInv, NEW c \in Callbacks, cb[c].pc \in {"find_sub", "find_email"},
         NEW a \in Accounts, Exists(a), NEW asked \in SUBSET {"sub", "token"},
         Load(c, a, asked), UNCHANGED <<keys, owner, others>>,
         \/ asked = {"token"} /\ rows[a].sub = SubOf(c)
         \/ asked = {"sub", "token"}
  PROVE  IInv'
<1>1. /\ Own(c)
      /\ cb'[c].pc = "commit"
      /\ cb'[c].state = cb[c].state /\ cb'[c].code = cb[c].code
      /\ cb'[c].grant = cb[c].grant /\ cb'[c].acct = a
      /\ cb'[c].asked = asked /\ cb'[c].seen = rows[a]
  BY LoadType DEF IInv
<1>2. HandlerOK(c) /\ a # Null
  BY NullAssumption DEF IInv
<1>3. HoldsAccount(c)'
  BY <1>1 DEF HoldsAccount, SubOf, Exists, others
<1>4. HandlerOK(c)'
  BY <1>1, <1>2, <1>3 DEF HandlerOK, TokenFrom, Exists, others
<1>5. KeysTyped'
  BY KeysKept
<1> QED
  BY <1>1, <1>4, <1>5, QuietStep

\* The SELECT by google_sub.
LEMMA FindSubStep ==
  ASSUME IInv, NEW c \in Callbacks, FindSub(c)
  PROVE  IInv'
<1>1. UNCHANGED <<keys, owner, others>> /\ cb[c].pc = "find_sub"
  BY DEF FindSub, google, sessions, history, others, Exchanged
<1>2. CASE Goto(c, "find_email")
  <2>1. Moved(c, "find_email")
    BY <1>2, GotoType DEF IInv
  <2>2. HandlerOK(c)
    BY DEF IInv
  <2>3. HandlerOK(c)'
    BY <1>1, <2>1, <2>2 DEF Moved, HandlerOK, TokenFrom, Exists, others
  <2>4. KeysTyped'
    BY <1>1, KeysKept
  <2> QED
    BY <1>1, <2>1, <2>3, <2>4, QuietStep DEF Moved
<1>3. CASE ~ Goto(c, "find_email")
  <2>1. PICK a \in Accounts : Exists(a) /\ rows[a].sub = SubOf(c) /\ Load(c, a, {"token"})
    BY <1>3 DEF FindSub
  <2> QED
    BY <1>1, <2>1, LoadStep
<1> QED
  BY <1>2, <1>3

\* The SELECT by email.
LEMMA FindEmailStep ==
  ASSUME IInv, NEW c \in Callbacks, FindEmail(c)
  PROVE  IInv'
<1>1. UNCHANGED <<keys, owner, others>> /\ cb[c].pc = "find_email"
  BY DEF FindEmail, google, sessions, history, others, Exchanged
<1>2. CASE Goto(c, "commit")
  <2>1. Moved(c, "commit")
    BY <1>2, GotoType DEF IInv
  <2>2. HandlerOK(c)
    BY DEF IInv
  <2>3. HandlerOK(c)'
    BY <1>1, <2>1, <2>2 DEF Moved, HandlerOK, TokenFrom, Exists, others
  <2>4. KeysTyped'
    BY <1>1, KeysKept
  <2> QED
    BY <1>1, <2>1, <2>3, <2>4, QuietStep DEF Moved
<1>3. CASE ~ Goto(c, "commit")
  <2>1. PICK a \in Accounts : Exists(a) /\ Load(c, a, {"sub", "token"})
    BY <1>3 DEF FindEmail
  <2> QED
    BY <1>1, <2>1, LoadStep
<1> QED
  BY <1>2, <1>3

\* Any handler may end at any time.
LEMMA AbortStep ==
  ASSUME IInv, NEW c \in Callbacks, Abort(c)
  PROVE  IInv'
<1>1. UNCHANGED <<keys, owner, others>>
  BY DEF Abort, google, sessions, history, others, Exchanged
<1> QED
  BY <1>1, FinishStep DEF Abort

-----------------------------------------------------------------------------
(* The steps that change the tables or what Google has given.              *)

\* A new state is handed out.
LEMMA RedirectStep ==
  ASSUME IInv, NEW s \in States, Redirect(s)
  PROVE  IInv'
<1>1. UNCHANGED <<owner, others, cb, raced>>
  BY DEF Redirect, google, sessions, history, others, Exchanged
<1>2. TypeOK'
  <2>1. StateTtl \in 0..StateTtl
    BY BoundsAssumption
  <2>2. states' \in [States -> 0..StateTtl] /\ issued' \subseteq States
    BY <2>1 DEF Redirect, IInv, TypeOK
  <2> QED
    BY <1>1, <2>2 DEF IInv, TypeOK, others
<1>3. \A c \in Callbacks : HandlerOK(c)'
  BY <1>1 DEF IInv, HandlerOK, HoldsAccount, TokenFrom, Exists, SubOf, others
<1> QED
  BY <1>1, <1>2, <1>3 DEF IInv, OneSignInPerCode, SignedInAsThemselves, TokensBelong,
     TokensAreNewest, CodesOK, OneHandlerPerCode, TokenFrom, Exists, others

\* Somebody consents, and Google makes a code that nobody has yet.
LEMMA ConsentStep ==
  ASSUME IInv, NEW k \in Codes, NEW s \in Subs, NEW e \in Emails, Consent(k, s, e)
  PROVE  IInv'
<1>1. /\ UNCHANGED <<keys, others, cb>>
      /\ owner[k] = Null
      /\ owner' = [owner EXCEPT ![k] = [sub |-> s, email |-> e]]
  BY DEF Consent, sessions, history, others, Exchanged
<1>2. TypeOK'
  <2>1. owner' \in [Codes -> [sub: Subs, email: Emails] \cup {Null}]
    BY <1>1 DEF IInv, TypeOK
  <2> QED
    BY <1>1, <2>1, KeysKept DEF IInv, TypeOK, others, KeysTyped
<1>3. \A j \in Codes \ {k} : owner'[j] = owner[j]
  BY <1>1 DEF IInv, TypeOK
<1>4. k \notin Exchanged
  BY <1>1 DEF IInv, CodesOK
<1>5. \A t \in SessionTokens : session[t] # Null => t[1] # k
  BY <1>4 DEF IInv, CodesOK
<1>6. \A a \in Accounts : ~ TokenFrom(a, k)
  BY <1>4 DEF IInv, CodesOK
<1>7. \A c \in Callbacks : cb[c].pc # "idle" => cb[c].code \in Codes \ {k}
  BY <1>1 DEF IInv, HandlerOK
<1>8. OneSignInPerCode' /\ TokensAreNewest' /\ OneHandlerPerCode'
  BY <1>1 DEF IInv, OneSignInPerCode, TokensAreNewest, OneHandlerPerCode, Exists,
     others
<1>9. SignedInAsThemselves'
  <2> SUFFICES ASSUME NEW t \in SessionTokens, session[t] # Null
               PROVE  \/ rows[session[t]].sub = owner'[t[1]].sub
                      \/ session[t] \in relinked
    BY <1>1 DEF SignedInAsThemselves, others
  <2>1. owner'[t[1]] = owner[t[1]]
    BY <1>3, <1>5 DEF SessionTokens
  <2> QED
    BY <2>1 DEF IInv, SignedInAsThemselves
<1>10. TokensBelong'
  <2> SUFFICES ASSUME NEW a \in Accounts, Exists(a), rows[a].token # Null
               PROVE  \/ owner'[rows[a].token[1]].sub = rows[a].sub
                      \/ a \in crossed
    BY <1>1 DEF TokensBelong, Exists, others
  <2>1. rows[a].token[1] \in Codes \ {k}
    BY <1>6 DEF TokenFrom, IInv, TypeOK, Exists, AccountTable!Row, Grants
  <2> QED
    BY <1>3, <2>1 DEF IInv, TokensBelong
<1>11. CodesOK'
  <2>1. \A j \in Exchanged : owner'[j] # Null
    BY <1>3, <1>4 DEF IInv, CodesOK, TypeOK, Exchanged
  <2>2. UNCHANGED <<Exchanged, rows, session>>
    BY <1>1 DEF others
  <2>3. \A a \in Accounts, j \in Codes : TokenFrom(a, j)' <=> TokenFrom(a, j)
    BY <2>2 DEF TokenFrom, Exists
  <2>4. CodesOK
    BY DEF IInv
  <2> QED
    BY <2>1, <2>2, <2>3, <2>4 DEF CodesOK, Exists
<1>12. ASSUME NEW c \in Callbacks PROVE HandlerOK(c)'
  <2>1. CASE cb[c].pc = "idle"
    BY <1>1, <2>1 DEF IInv, HandlerOK
  <2>2. CASE cb[c].pc # "idle"
    <3>1. owner'[cb[c].code] = owner[cb[c].code] /\ HandlerOK(c)
      BY <1>3, <1>7, <2>2 DEF IInv
    <3> QED
      BY <1>1, <3>1 DEF HandlerOK, HoldsAccount, TokenFrom, Exists, SubOf, others
  <2> QED
    BY <2>1, <2>2
<1> QED
  BY <1>2, <1>8, <1>9, <1>10, <1>11, <1>12 DEF IInv

\* Google gives a refresh token for a code that no account has stored yet.
LEMMA GrantStep ==
  ASSUME IInv, NEW c \in Callbacks, NEW k \in Codes, k = cb[c].code,
         NEW n \in 0..MaxGrants, Own(c),
         UNCHANGED <<keys, owner, rows, session, relinked, crossed>>,
         granted' = [granted EXCEPT ![k] = n],
         NEW s \in States, via' = [via EXCEPT ![k] = s], owner[k] # Null,
         session[<<k, 1>>] = Null, \A a \in Accounts : ~ TokenFrom(a, k),
         \A d \in Callbacks \ {c} : cb[d].pc \in Past => cb[d].code # k,
         cb'[c].pc \in {"userinfo", "drive", "find_sub"}, cb'[c].code = k,
         cb'[c].state \in States,
         cb'[c].grant = n, cb'[c].acct = Null, cb'[c].seen = NoRow
  PROVE  IInv'
<1> Exchanged' = Exchanged \cup {k}
  BY NullAssumption DEF Exchanged, IInv, TypeOK
<1>1. TypeOK'
  BY KeysKept DEF IInv, TypeOK, Own, KeysTyped
<1>2. /\ granted'[k] = n
      /\ \A j \in Codes \ {k} : granted'[j] = granted[j]
  BY DEF IInv, TypeOK
<1>3. OneSignInPerCode' /\ SignedInAsThemselves' /\ TokensBelong' /\ CodesOK'
  BY DEF IInv, OneSignInPerCode, SignedInAsThemselves, TokensBelong, CodesOK,
     TokenFrom, Exists
<1>4. TokensAreNewest'
  <2> SUFFICES ASSUME NEW a \in Accounts, Exists(a), rows[a].token # Null
               PROVE  rows[a].token[2] = granted'[rows[a].token[1]]
    BY DEF TokensAreNewest, Exists
  <2>1. rows[a].token[1] \in Codes \ {k}
    BY DEF TokenFrom, IInv, TypeOK, Exists, AccountTable!Row, Grants
  <2> QED
    BY <1>2, <2>1 DEF IInv, TokensAreNewest
<1>5. OneHandlerPerCode'
  BY DEF IInv, OneHandlerPerCode, Own
<1>6. HandlerOK(c)'
  BY <1>2 DEF HandlerOK, TokenFrom, Exists
<1>7. ASSUME NEW d \in Callbacks, d # c PROVE HandlerOK(d)'
  <2>1. cb'[d] = cb[d] /\ HandlerOK(d)
    BY <1>7 DEF Own, IInv
  <2>2. cb[d].pc \in Past => granted'[cb[d].code] = granted[cb[d].code]
    BY <1>2, <1>7, <2>1 DEF HandlerOK
  <2> QED
    BY <2>1, <2>2 DEF HandlerOK, HoldsAccount, TokenFrom, Exists, SubOf
<1> QED
  BY <1>1, <1>3, <1>4, <1>5, <1>6, <1>7 DEF IInv

\* _exchange_code_for_tokens
LEMMA ExchangeStep ==
  ASSUME IInv, NEW c \in Callbacks, Exchange(c)
  PROVE  IInv'
<1> DEFINE k == cb[c].code
<1>1. /\ UNCHANGED <<keys, owner, rows, session, relinked, crossed>>
      /\ cb[c].pc = "exchange"
  BY DEF Exchange, google, sessions, history
<1>2. CASE k \in Exchanged
  BY <1>1, <1>2, FinishStep DEF Exchange, google, others, Exchanged
<1>3. CASE k \notin Exchanged
  <2>1. PICK n \in {0, 1}, expiry \in 0..MaxExpiry :
          /\ via' = [via EXCEPT ![k] = cb[c].state]
          /\ granted' = [granted EXCEPT ![k] = n]
          /\ Take(c, "userinfo", n, expiry)
    BY <1>3 DEF Exchange
  <2>2. n \in 0..MaxGrants
    BY BoundsAssumption
  <2>3. /\ Own(c)
        /\ cb'[c].pc = "userinfo" /\ cb'[c].state = cb[c].state /\ cb'[c].code = k
        /\ cb'[c].grant = n /\ cb'[c].acct = cb[c].acct /\ cb'[c].seen = cb[c].seen
    BY <2>1, <2>2, TakeType DEF IInv
  <2>4. /\ k \in Codes /\ owner[k] # Null
        /\ cb[c].acct = Null /\ cb[c].seen = NoRow
        /\ cb[c].state \in States
    BY <1>1 DEF IInv, HandlerOK
  <2>5. session[<<k, 1>>] = Null /\ \A a \in Accounts : ~ TokenFrom(a, k)
    BY <1>3, <2>4 DEF IInv, CodesOK, SessionTokens
  <2>6. \A d \in Callbacks \ {c} : cb[d].pc \in Past => cb[d].code # k
    BY <1>3 DEF IInv, HandlerOK
  <2> HIDE DEF k
  <2> QED
    BY <1>1, <2>1, <2>2, <2>3, <2>4, <2>5, <2>6, GrantStep DEF k
<1> QED
  BY <1>2, <1>3

\* _get_valid_access_token
LEMMA RefreshStep ==
  ASSUME IInv, NEW c \in Callbacks, RefreshAndFetch(c)
  PROVE  IInv'
<1> DEFINE k == cb[c].code
<1>1. /\ UNCHANGED <<keys, owner, rows, session, relinked, crossed>>
      /\ cb[c].pc \in {"userinfo", "drive"}
  BY DEF RefreshAndFetch, google, sessions, history
<1>2. CASE cb[c].grant = 0
  BY <1>1, <1>2, FinishStep DEF RefreshAndFetch, google, others, Exchanged
<1>3. CASE cb[c].grant # 0
  <2>1. PICK n \in {cb[c].grant, cb[c].grant + 1}, expiry \in 0..MaxExpiry :
          /\ n <= MaxGrants
          /\ granted' = [granted EXCEPT ![k] = n] /\ UNCHANGED via
          /\ Take(c, AfterFetch(cb[c].pc), n, expiry)
    BY <1>3 DEF RefreshAndFetch
  <2>2. n \in 0..MaxGrants
    BY <2>1, BoundsAssumption DEF IInv, TypeOK, Callback
  <2>3. /\ Own(c)
        /\ cb'[c].pc \in {"drive", "find_sub"}
        /\ cb'[c].state = cb[c].state /\ cb'[c].code = k
        /\ cb'[c].grant = n /\ cb'[c].acct = cb[c].acct /\ cb'[c].seen = cb[c].seen
    BY <1>1, <2>1, <2>2, TakeType DEF IInv, AfterFetch
  <2>4. /\ k \in Codes /\ owner[k] # Null /\ k \in Exchanged /\ cb[c].state \in States
        /\ cb[c].acct = Null /\ cb[c].seen = NoRow
        /\ session[<<k, 1>>] = Null /\ \A a \in Accounts : ~ TokenFrom(a, k)
    BY <1>1 DEF IInv, HandlerOK
  <2>5. PICK s \in States : via' = [via EXCEPT ![k] = s]
    BY <2>1, <2>4 DEF IInv, TypeOK, Exchanged
  <2>6. \A d \in Callbacks \ {c} : cb[d].pc \in Past => cb[d].code # k
    BY <1>1 DEF IInv, OneHandlerPerCode
  <2>7. /\ cb'[c].pc \in {"userinfo", "drive", "find_sub"} /\ cb'[c].code = k
        /\ cb'[c].state \in States
        /\ cb'[c].grant = n /\ cb'[c].acct = Null /\ cb'[c].seen = NoRow
    BY <2>3, <2>4
  <2>8. granted' = [granted EXCEPT ![k] = n]
    BY <2>1
  <2> HIDE DEF k
  <2> QED
    BY <1>1, <2>2, <2>3, <2>4, <2>5, <2>6, <2>7, <2>8, GrantStep DEF k
<1> QED
  BY <1>2, <1>3

\* What c knows of its Google account at the commit.
LEMMA Answers ==
  ASSUME IInv, NEW c \in Callbacks, cb[c].pc = "commit"
  PROVE  /\ SubOf(c) \in Subs /\ EmailOf(c) \in Emails
         /\ TokenOf(c) \in Grants \cup {Null}
         /\ TokenOf(c) # Null =>
              TokenOf(c)[1] = cb[c].code /\ TokenOf(c)[2] = granted[cb[c].code]
<1>1. /\ cb[c].code \in Codes /\ owner[cb[c].code] # Null
      /\ granted[cb[c].code] = cb[c].grant
  BY DEF IInv, HandlerOK
<1>2. owner[cb[c].code] \in [sub: Subs, email: Emails]
  BY <1>1 DEF IInv, TypeOK
<1>3. cb[c].grant \in 0..MaxGrants
  BY DEF IInv, TypeOK, Callback
<1>4. cb[c].grant # 0 => cb[c].grant \in 1..MaxGrants
  BY <1>3, BoundsAssumption
<1> QED
  BY <1>1, <1>2, <1>4 DEF SubOf, EmailOf, TokenOf, Grants

\* The row that an INSERT leaves.
LEMMA InsertedRow ==
  ASSUME IInv, NEW c \in Callbacks, cb[c].pc = "commit", cb[c].acct = Null
  PROVE  /\ Written(c) \in AccountTable!Row
         /\ Written(c).sub = SubOf(c) /\ Written(c).token = TokenOf(c)
<1>1. cb[c].seen = NoRow
  BY DEF IInv, HandlerOK
<1>2. Written(c) = [email |-> EmailOf(c), sub |-> SubOf(c), token |-> TokenOf(c),
                    name |-> Null]
  BY <1>1 DEF Written
<1> QED
  BY <1>2, Answers DEF AccountTable!Row

\* The row that an UPDATE leaves.
LEMMA UpdatedRow ==
  ASSUME IInv, NEW c \in Callbacks, cb[c].pc = "commit",
         NEW a \in Accounts, cb[c].acct = a
  PROVE  /\ Written(c) \in AccountTable!Row
         /\ rows[a] \in AccountTable!Row
         /\ Written(c).sub = IF "sub" \in cb[c].asked /\ SubOf(c) # cb[c].seen.sub
                               THEN SubOf(c) ELSE rows[a].sub
         /\ Written(c).token = IF TokenOf(c) # cb[c].seen.token
                                 THEN TokenOf(c) ELSE rows[a].token
<1> DEFINE old == rows[a]
           sub == IF "sub" \in cb[c].asked /\ SubOf(c) # cb[c].seen.sub
                    THEN SubOf(c) ELSE old.sub
           token == IF "token" \in cb[c].asked /\ TokenOf(c) # cb[c].seen.token
                      THEN TokenOf(c) ELSE old.token
<1>1. HoldsAccount(c)
  BY NullAssumption DEF IInv, HandlerOK
<1>2. old \in AccountTable!Row
  BY <1>1 DEF HoldsAccount, Exists, IInv, TypeOK
<1>3. Written(c) = [old EXCEPT !.sub = sub, !.token = token]
  BY <1>1 DEF Written, HoldsAccount
<1>4. sub \in Subs \cup {Null} /\ token \in Grants \cup {Null}
  BY <1>2, Answers DEF AccountTable!Row
<1>5. "token" \in cb[c].asked
  BY <1>1 DEF HoldsAccount
<1> HIDE DEF old, sub, token
<1>6. Written(c) \in AccountTable!Row /\ Written(c).sub = sub /\ Written(c).token = token
  BY <1>2, <1>3, <1>4 DEF AccountTable!Row
<1> QED
  BY <1>2, <1>5, <1>6 DEF old, sub, token

\* Whichever way the row was written: its token is the one of the callback or
\* the one it had; it is linked to the Google account of the callback, unless
\* it was relinked; and the two fit, unless sign-ins crossed.
LEMMA WrittenRow ==
  ASSUME IInv, NEW c \in Callbacks, cb[c].pc = "commit", NEW a \in Accounts,
         \/ cb[c].acct = Null /\ ~ Exists(a)
         \/ cb[c].acct = a
  PROVE  LET row == Written(c) IN
         /\ row \in AccountTable!Row
         /\ row.token = TokenOf(c) \/ (Exists(a) /\ row.token = rows[a].token)
         /\ row.sub = SubOf(c) \/ a \in relinked
         /\ a \notin crossed => row.token = TokenOf(c) /\ row.sub = SubOf(c)
<1>1. CASE cb[c].acct = Null
  BY <1>1, InsertedRow
<1>2. CASE cb[c].acct = a
  <2>1. HoldsAccount(c)
    BY <1>2, NullAssumption DEF IInv, HandlerOK
  <2>2. SubOf(c) # Null
    BY Answers, NullAssumption
  <2>3. /\ Exists(a)
        /\ \/ cb[c].asked = {"token"} /\ cb[c].seen.sub = SubOf(c)
           \/ cb[c].asked = {"sub", "token"}
        /\ a \notin crossed =>
             rows[a].sub = cb[c].seen.sub /\ rows[a].token = cb[c].seen.token
        /\ a \notin relinked /\ cb[c].seen.sub # Null => rows[a].sub = cb[c].seen.sub
    BY <1>2, <2>1 DEF HoldsAccount
  <2> QED
    BY <1>2, <2>2, <2>3, UpdatedRow
<1> QED
  BY <1>1, <1>2

\* A sign-in commits its row of account a.
Writes(c, a) ==
  /\ cb[c].pc = "commit"
  /\ (cb[c].acct = Null /\ ~ Exists(a)) \/ cb[c].acct = a
  /\ rows' = [rows EXCEPT ![a] = Written(c)]
  /\ cb' = [cb EXCEPT ![c] = [@ EXCEPT !.pc = "session", !.acct = a]]
  /\ relinked' = IF Relinks(c, a) /\ rows[a].sub # Null
                   THEN relinked \cup {a} ELSE relinked
  /\ crossed' = IF Holding(a, c) # {} THEN crossed \cup {a} ELSE crossed
  /\ UNCHANGED <<keys, owner, via, Exchanged, granted, session>>

\* The heart of the proof: what one commit does to rows that others hold.
LEMMA WritesStep ==
  ASSUME IInv, NEW c \in Callbacks, NEW a \in Accounts, Writes(c, a)
  PROVE  IInv'
<1> DEFINE row == Written(c)
           k == cb[c].code
<1>1. /\ row \in AccountTable!Row
      /\ row.token = TokenOf(c) \/ (Exists(a) /\ row.token = rows[a].token)
      /\ row.sub = SubOf(c) \/ a \in relinked
      /\ a \notin crossed => row.token = TokenOf(c) /\ row.sub = SubOf(c)
  BY WrittenRow DEF Writes
<1>2. /\ SubOf(c) \in Subs
      /\ TokenOf(c) # Null => TokenOf(c)[1] = k /\ TokenOf(c)[2] = granted[k]
  BY Answers DEF Writes
<1>3. /\ Own(c)
      /\ cb'[c].pc = "session" /\ cb'[c].state = cb[c].state /\ cb'[c].code = k
      /\ cb'[c].grant = cb[c].grant /\ cb'[c].acct = a
  BY CommitType DEF Writes, IInv
<1>4. /\ k \in Codes /\ owner[k] # Null /\ k \in Exchanged /\ cb[c].state \in States
      /\ granted[k] = cb[c].grant /\ session[<<k, 1>>] = Null
      /\ \A b \in Accounts : ~ TokenFrom(b, k)
  BY DEF IInv, HandlerOK, Writes
<1>5. \A d \in Callbacks \ {c} : cb[d].pc \in Past => cb[d].code # k
  BY DEF IInv, OneHandlerPerCode, Writes
<1>6. /\ relinked \subseteq relinked' /\ crossed \subseteq crossed'
      /\ relinked' \subseteq Accounts /\ crossed' \subseteq Accounts
  BY DEF Writes, IInv, TypeOK
<1>7. Exists(a) /\ rows[a].sub # Null /\ row.sub # rows[a].sub => a \in relinked'
  BY DEF Writes, Relinks
<1>8. \A d \in Callbacks \ {c} :
        cb[d].pc = "commit" /\ cb[d].acct = a => a \in crossed'
  BY DEF Writes, Holding
<1>9. /\ rows'[a] = row /\ row # NoRow
      /\ \A b \in Accounts \ {a} : rows'[b] = rows[b]
      /\ rows' \in [Accounts -> AccountTable!Row \cup {NoRow}]
      /\ UNCHANGED <<keys, owner, via, Exchanged, granted, session>>
  BY <1>1, NoRowAssumption DEF Writes, IInv, TypeOK
<1> HIDE DEF row, k
<1>10. \A b \in Accounts : Exists(b) => Exists(b)'
  BY <1>9 DEF Exists
<1>11. \A b \in Accounts, j \in Codes :
         TokenFrom(b, j)' => TokenFrom(b, j) \/ j = k
  BY <1>1, <1>2, <1>9 DEF TokenFrom, Exists
<1>12. \A b \in Accounts :
         Exists(b) /\ rows[b].sub # Null => rows'[b].sub = rows[b].sub \/ b \in relinked'
  BY <1>7, <1>9
<1>13. TypeOK'
  BY <1>3, <1>6, <1>9, KeysKept DEF Own, IInv, TypeOK, KeysTyped
<1>14. OneSignInPerCode' /\ OneHandlerPerCode'
  BY <1>3, <1>5, <1>9 DEF IInv, OneSignInPerCode, OneHandlerPerCode, Own
<1>15. CodesOK'
  BY <1>4, <1>9, <1>10, <1>11 DEF IInv, CodesOK, TypeOK
<1>16. SignedInAsThemselves'
  <2> SUFFICES ASSUME NEW t \in SessionTokens, session[t] # Null
               PROVE  \/ rows'[session[t]].sub = owner[t[1]].sub
                      \/ session[t] \in relinked'
    BY <1>9 DEF SignedInAsThemselves
  <2> DEFINE b == session[t]
  <2>1. b \in Accounts /\ Exists(b) /\ t[1] \in Codes /\ owner[t[1]] # Null
    BY DEF IInv, TypeOK, CodesOK, SessionTokens
  <2>2. owner[t[1]].sub # Null
    BY <2>1, NullAssumption DEF IInv, TypeOK
  <2>3. rows[b].sub = owner[t[1]].sub \/ b \in relinked
    BY DEF IInv, SignedInAsThemselves
  <2> QED
    BY <1>6, <1>12, <2>1, <2>2, <2>3
<1>17. TokensBelong'
  <2> SUFFICES ASSUME NEW b \in Accounts, Exists(b)', rows'[b].token # Null,
                      b \notin crossed'
               PROVE  owner[rows'[b].token[1]].sub = rows'[b].sub
    BY <1>9 DEF TokensBelong
  <2>1. CASE b = a
    BY <1>1, <1>2, <1>6, <1>9, <2>1 DEF SubOf, k
  <2>2. CASE b # a
    BY <1>6, <1>9, <2>2 DEF IInv, TokensBelong, Exists
  <2> QED
    BY <2>1, <2>2
<1>18. TokensAreNewest'
  <2> SUFFICES ASSUME NEW b \in Accounts, Exists(b)', rows'[b].token # Null
               PROVE  rows'[b].token[2] = granted[rows'[b].token[1]]
    BY <1>9 DEF TokensAreNewest
  <2>1. CASE b = a
    BY <1>1, <1>2, <1>9, <2>1 DEF IInv, TokensAreNewest
  <2>2. CASE b # a
    BY <1>9, <2>2 DEF IInv, TokensAreNewest, Exists
  <2> QED
    BY <2>1, <2>2
<1>19. HandlerOK(c)'
  <2>1. a # Null /\ Exists(a)'
    BY <1>9, NullAssumption DEF Exists
  <2>2. rows'[a].sub = SubOf(c)' \/ a \in relinked'
    BY <1>1, <1>3, <1>6, <1>9 DEF SubOf, k
  <2> QED
    BY <1>3, <1>4, <1>9, <2>1, <2>2 DEF HandlerOK
<1>20. ASSUME NEW d \in Callbacks, d # c PROVE HandlerOK(d)'
  <2>1. cb'[d] = cb[d] /\ HandlerOK(d)
    BY <1>3, <1>20 DEF Own, IInv
  <2>2. cb[d].pc \in Past \ {"session"} =>
          \A b \in Accounts : ~ TokenFrom(b, cb[d].code)'
    BY <1>5, <1>11, <1>20, <2>1 DEF HandlerOK
  <2>3. cb[d].pc \in Past => cb[d].acct \in Accounts \cup {Null}
    BY DEF IInv, TypeOK, Callback
  <2>4. cb[d].pc = "commit" /\ cb[d].acct # Null => HoldsAccount(d)'
    <3> SUFFICES ASSUME cb[d].pc = "commit", cb[d].acct # Null
                 PROVE  HoldsAccount(d)'
      OBVIOUS
    <3>1. HoldsAccount(d) /\ cb[d].acct \in Accounts
      BY <2>1, <2>3 DEF HandlerOK
    <3>2. CASE cb[d].acct = a
      BY <1>6, <1>8, <1>9, <1>10, <1>12, <1>20, <2>1, <3>1, <3>2 DEF HoldsAccount, SubOf
    <3>3. CASE cb[d].acct # a
      BY <1>6, <1>9, <1>10, <2>1, <3>1, <3>3 DEF HoldsAccount, SubOf
    <3> QED
      BY <3>2, <3>3
  <2>5. cb[d].pc = "session" =>
          /\ Exists(cb[d].acct)'
          /\ rows'[cb[d].acct].sub = SubOf(d) \/ cb[d].acct \in relinked'
    <3> SUFFICES ASSUME cb[d].pc = "session"
                 PROVE  /\ Exists(cb[d].acct)'
                        /\ \/ rows'[cb[d].acct].sub = SubOf(d)
                           \/ cb[d].acct \in relinked'
      OBVIOUS
    <3>1. /\ cb[d].acct \in Accounts /\ Exists(cb[d].acct)
          /\ rows[cb[d].acct].sub = SubOf(d) \/ cb[d].acct \in relinked
          /\ cb[d].code \in Codes /\ owner[cb[d].code] # Null
      BY <2>1, <2>3 DEF HandlerOK
    <3>2. SubOf(d) # Null
      BY <3>1, NullAssumption DEF SubOf, IInv, TypeOK
    <3> QED
      BY <1>6, <1>10, <1>12, <2>1, <3>1, <3>2 DEF Exists
  <2> QED
    BY <1>9, <2>1, <2>2, <2>4, <2>5 DEF HandlerOK, SubOf
<1> QED
  BY <1>13, <1>14, <1>15, <1>16, <1>17, <1>18, <1>19, <1>20 DEF IInv

\* The INSERT or UPDATE of get_or_create_user, or its failure.
LEMMA CommitStep ==
  ASSUME IInv, NEW c \in Callbacks, Commit(c)
  PROVE  IInv'
<1>1. /\ UNCHANGED <<keys, owner, via, Exchanged, granted, session>>
      /\ cb[c].pc = "commit"
  BY DEF Commit, google, sessions, Exchanged
<1>2. CASE Finish(c) /\ UNCHANGED <<rows, history>>
  BY <1>1, <1>2, FinishStep DEF history, others
<1>3. CASE ~ (Finish(c) /\ UNCHANGED <<rows, history>>)
  <2>1. PICK a \in Accounts :
          /\ IF cb[c].acct = Null
               THEN AccountTable!Create(a, Written(c))
               ELSE a = cb[c].acct /\ AccountTable!Change(a, cb[c].asked, Written(c))
          /\ cb' = [cb EXCEPT ![c] = [@ EXCEPT !.pc = "session", !.acct = a]]
          /\ relinked' = IF Relinks(c, a) /\ rows[a].sub # Null
                           THEN relinked \cup {a} ELSE relinked
          /\ crossed' = IF Holding(a, c) # {} THEN crossed \cup {a} ELSE crossed
    BY <1>3 DEF Commit
  <2>2. /\ (cb[c].acct = Null /\ ~ Exists(a)) \/ cb[c].acct = a
        /\ rows' = [rows EXCEPT ![a] = Written(c)]
    BY <2>1 DEF AccountTable!Create, AccountTable!Change, Exists
  <2> QED
    BY <1>1, <2>1, <2>2, WritesStep DEF Writes
<1> QED
  BY <1>2, <1>3

\* generate_tokens: the first session that a code opens.
LEMMA OpenSessionStep ==
  ASSUME IInv, NEW c \in Callbacks, OpenSession(c)
  PROVE  IInv'
<1> DEFINE k == cb[c].code
           a == cb[c].acct
<1>1. /\ UNCHANGED <<keys, owner, via, Exchanged, granted, rows, relinked, crossed>>
      /\ cb[c].pc = "session" /\ Finish(c)
  BY DEF OpenSession, google, history, Exchanged
<1>2. Own(c) /\ cb'[c].pc = "idle" /\ cb'[c].acct = Null /\ cb'[c].seen = NoRow
  BY <1>1, FinishType DEF IInv, Idle
<1>3. /\ k \in Codes /\ k \in Exchanged /\ session[<<k, 1>>] = Null
      /\ a \in Accounts /\ Exists(a)
      /\ rows[a].sub = owner[k].sub \/ a \in relinked
  BY <1>1 DEF IInv, HandlerOK, TypeOK, Callback, SubOf
<1>4. session' = [session EXCEPT ![<<k, 1>>] = a]
  <2>1. PICK i \in {1, 2} : /\ i = 2 => session[<<k, 1>>] # Null
                            /\ Sessions!Open(a, <<k, i>>)
    BY DEF OpenSession
  <2>2. i = 1
    BY <1>3, <2>1
  <2> QED
    BY <2>1, <2>2 DEF Sessions!Open
<1>5. \A d \in Callbacks \ {c} : cb[d].pc \in Past => cb[d].code # k
  BY <1>1 DEF IInv, OneHandlerPerCode
<1> HIDE DEF k, a
<1>6. <<k, 1>> \in SessionTokens
  BY <1>3 DEF SessionTokens
<1>7. /\ session'[<<k, 1>>] = a
      /\ \A t \in SessionTokens : t # <<k, 1>> => session'[t] = session[t]
      /\ session' \in [SessionTokens -> Accounts \cup {Null}]
  BY <1>3, <1>4, <1>6 DEF IInv, TypeOK
<1>8. TypeOK'
  BY <1>1, <1>2, <1>7, KeysKept DEF Own, IInv, TypeOK, KeysTyped
<1>9. OneSignInPerCode'
  <2> SUFFICES ASSUME NEW j \in Codes PROVE session'[<<j, 2>>] = Null
    BY DEF OneSignInPerCode
  <2>1. <<j, 2>> \in SessionTokens /\ <<j, 2>> # <<k, 1>>
    BY DEF SessionTokens
  <2> QED
    BY <1>7, <2>1 DEF IInv, OneSignInPerCode
<1>10. SignedInAsThemselves'
  BY <1>1, <1>3, <1>7 DEF IInv, SignedInAsThemselves
<1>11. TokensBelong' /\ TokensAreNewest' /\ OneHandlerPerCode'
  BY <1>1, <1>2 DEF IInv, TokensBelong, TokensAreNewest, OneHandlerPerCode, Exists, Own
<1>12. CodesOK'
  BY <1>1, <1>3, <1>7 DEF IInv, CodesOK, TokenFrom, Exists
<1>13. HandlerOK(c)'
  BY <1>2 DEF HandlerOK
<1>14. ASSUME NEW d \in Callbacks, d # c PROVE HandlerOK(d)'
  <2>1. cb'[d] = cb[d] /\ HandlerOK(d)
    BY <1>2, <1>14 DEF Own, IInv
  <2>2. cb[d].pc \in Past => session'[<<cb[d].code, 1>>] = session[<<cb[d].code, 1>>]
    BY <1>5, <1>7, <1>14, <2>1 DEF HandlerOK, SessionTokens
  <2> QED
    BY <1>1, <2>1, <2>2 DEF HandlerOK, HoldsAccount, TokenFrom, Exists, SubOf
<1> QED
  BY <1>8, <1>9, <1>10, <1>11, <1>12, <1>13, <1>14 DEF IInv

\* A step of others that creates an account without a Google account, or changes
\* only the email of one.
LEMMA PlainRowStep ==
  ASSUME IInv, NEW a \in Accounts, NEW row \in AccountTable!Row,
         rows' = [rows EXCEPT ![a] = row],
         \/ ~ Exists(a) /\ row.token = Null
         \/ Exists(a) /\ row.sub = rows[a].sub /\ row.token = rows[a].token,
         UNCHANGED <<keys, owner, via, Exchanged, granted, session, cb, relinked, crossed>>
  PROVE  IInv'
<1>1. /\ rows'[a] = row /\ row # NoRow
      /\ \A b \in Accounts \ {a} : rows'[b] = rows[b]
      /\ rows' \in [Accounts -> AccountTable!Row \cup {NoRow}]
  BY NoRowAssumption DEF IInv, TypeOK
<1>2. \A b \in Accounts : Exists(b) =>
        /\ Exists(b)'
        /\ rows'[b].sub = rows[b].sub /\ rows'[b].token = rows[b].token
  BY <1>1 DEF Exists
<1>3. \A b \in Accounts : Exists(b)' /\ rows'[b].token # Null => Exists(b)
  BY <1>1 DEF Exists
<1>4. \A b \in Accounts, k \in Codes : TokenFrom(b, k)' <=> TokenFrom(b, k)
  BY <1>2, <1>3 DEF TokenFrom
<1>5. TypeOK' /\ OneSignInPerCode' /\ OneHandlerPerCode'
  BY <1>1, KeysKept DEF KeysTyped, IInv, TypeOK, OneSignInPerCode, OneHandlerPerCode
<1>6. SignedInAsThemselves' /\ CodesOK'
  BY <1>2, <1>4 DEF IInv, TypeOK, SignedInAsThemselves, CodesOK
<1>7. TokensBelong' /\ TokensAreNewest'
  BY <1>2, <1>3 DEF IInv, TokensBelong, TokensAreNewest
<1>8. ASSUME NEW c \in Callbacks PROVE HandlerOK(c)'
  <2>1. HandlerOK(c) /\ cb[c].acct \in Accounts \cup {Null}
    BY DEF IInv, TypeOK, Callback
  <2>2. HoldsAccount(c) /\ cb[c].acct \in Accounts => HoldsAccount(c)'
    BY <1>2 DEF HoldsAccount, SubOf
  <2> QED
    BY <1>2, <1>4, <2>1, <2>2 DEF HandlerOK, SubOf
<1> QED
  BY <1>5, <1>6, <1>7, <1>8 DEF IInv

\* A registration has no Google account.
LEMMA RegisterStep ==
  ASSUME IInv, NEW a \in Accounts, NEW e \in Emails, Register(a, e)
  PROVE  IInv'
<1> DEFINE row == [email |-> e, sub |-> Null, token |-> Null, name |-> Null]
<1>1. row \in AccountTable!Row /\ row.token = Null
  BY DEF AccountTable!Row
<1>2. /\ ~ Exists(a) /\ rows' = [rows EXCEPT ![a] = row]
      /\ UNCHANGED <<keys, owner, via, Exchanged, granted, session, cb, relinked, crossed>>
  BY DEF Register, AccountTable!Create, Exists, google, sessions, history, Exchanged
<1> HIDE DEF row
<1> QED
  BY <1>1, <1>2, PlainRowStep

\* A PATCH keeps the Google account.
LEMMA UpdateProfileStep ==
  ASSUME IInv, NEW a \in Accounts, NEW e \in Emails, UpdateProfile(a, e)
  PROVE  IInv'
<1> DEFINE row == [rows[a] EXCEPT !.email = e]
<1>1. Exists(a) /\ rows[a] \in AccountTable!Row
  BY DEF UpdateProfile, Exists, IInv, TypeOK
<1>2. /\ row \in AccountTable!Row
      /\ row.sub = rows[a].sub /\ row.token = rows[a].token
  BY <1>1 DEF AccountTable!Row
<1>3. /\ rows' = [rows EXCEPT ![a] = row]
      /\ UNCHANGED <<keys, owner, via, Exchanged, granted, session, cb, relinked, crossed>>
  BY DEF UpdateProfile, AccountTable!Change, google, sessions, history, Exchanged
<1> HIDE DEF row
<1> QED
  BY <1>1, <1>2, <1>3, PlainRowStep

\* Time takes states and access tokens, and nothing the invariant is about.
LEMMA TickStep ==
  ASSUME IInv, Tick
  PROVE  IInv'
<1>1. UNCHANGED <<owner, others>>
  BY DEF Tick, google, sessions, history, others, Exchanged
<1>2. KeysTyped'
  <2>1. \A n \in 0..StateTtl : Less(n) \in 0..StateTtl
    BY BoundsAssumption DEF Less
  <2>2. states \in [States -> 0..StateTtl]
    BY DEF IInv, TypeOK
  <2>3. states' = [s \in States |-> Less(states[s])] /\ UNCHANGED <<issued, raced>>
    BY DEF Tick
  <2> HIDE DEF Less
  <2> QED
    BY <2>1, <2>2, <2>3 DEF KeysTyped, IInv, TypeOK
<1>3. ASSUME NEW c \in Callbacks
      PROVE  /\ cb'[c] \in Callback
             /\ cb'[c].pc = cb[c].pc
             /\ cb'[c].state = cb[c].state /\ cb'[c].code = cb[c].code
             /\ cb'[c].grant = cb[c].grant /\ cb'[c].acct = cb[c].acct
             /\ cb'[c].asked = cb[c].asked /\ cb'[c].seen = cb[c].seen
  <2> DEFINE expiry == Less(cb[c].expiry)
             new == [cb[c] EXCEPT !.expiry = expiry]
  <2>1. cb[c] \in Callback
    BY DEF IInv, TypeOK
  <2>2. cb'[c] = new
    BY DEF Tick
  <2>3. expiry \in 0..MaxExpiry
    BY <2>1, BoundsAssumption DEF Callback, Less
  <2> HIDE DEF expiry
  <2> QED
    BY <2>1, <2>2, <2>3 DEF Callback
<1>4. cb' \in [Callbacks -> Callback]
  BY <1>3 DEF Tick
<1>5. TypeOK'
  BY <1>1, <1>2, <1>4 DEF IInv, TypeOK, others, KeysTyped
<1>6. OneHandlerPerCode'
  BY <1>3 DEF IInv, OneHandlerPerCode
<1>7. ASSUME NEW c \in Callbacks PROVE HandlerOK(c)'
  <2>1. HandlerOK(c)
    BY DEF IInv
  <2> QED
    BY <1>1, <1>3, <2>1 DEF HandlerOK, HoldsAccount, TokenFrom, Exists, SubOf, others
<1>8. /\ OneSignInPerCode' /\ SignedInAsThemselves' /\ TokensBelong'
      /\ TokensAreNewest' /\ CodesOK'
  BY <1>1 DEF IInv, OneSignInPerCode, SignedInAsThemselves, TokensBelong,
     TokensAreNewest, CodesOK, TokenFrom, Exists, others
<1> QED
  BY <1>5, <1>6, <1>7, <1>8 DEF IInv

\* At first there is nothing.
LEMMA InitInv == Init => IInv
<1> SUFFICES ASSUME Init PROVE IInv
  OBVIOUS
<1>1. /\ rows = [a \in Accounts |-> NoRow]
      /\ session = [t \in SessionTokens |-> Null]
      /\ cb = [c \in Callbacks |-> Idle]
      /\ Exchanged = {} /\ relinked = {} /\ crossed = {}
  BY DEF Init, AccountTable!AccountInit, Sessions!StoreInit, Exchanged
<1>2. TypeOK
  BY <1>1, IdleType, BoundsAssumption DEF Init, TypeOK
<1>3. \A c \in Callbacks :
        cb[c].pc = "idle" /\ cb[c].acct = Null /\ cb[c].seen = NoRow
  BY <1>1 DEF Idle
<1>4. OneHandlerPerCode /\ \A c \in Callbacks : HandlerOK(c)
  BY <1>3 DEF OneHandlerPerCode, HandlerOK
<1>5. /\ OneSignInPerCode /\ SignedInAsThemselves /\ TokensBelong
      /\ TokensAreNewest /\ CodesOK
  BY <1>1 DEF OneSignInPerCode, SignedInAsThemselves, TokensBelong,
     TokensAreNewest, CodesOK, TokenFrom, Exists, SessionTokens
<1> QED
  BY <1>2, <1>4, <1>5 DEF IInv

\* Every step keeps the invariant.
LEMMA StepInv == IInv /\ [Next]_vars => IInv'
<1> SUFFICES ASSUME IInv, [Next]_vars PROVE IInv'
  OBVIOUS
<1>1. ASSUME NEW c \in Callbacks, Handle(c) PROVE IInv'
  BY <1>1, GetStateStep, DeleteStateStep, ExchangeStep, FetchStep, RefreshStep,
     FindSubStep, FindEmailStep, CommitStep, OpenSessionStep DEF Handle
<1>2. CASE UNCHANGED vars
  BY <1>2 DEF vars, IInv, TypeOK, OneSignInPerCode, SignedInAsThemselves,
     TokensBelong, TokensAreNewest, CodesOK, OneHandlerPerCode, HandlerOK,
     HoldsAccount, TokenFrom, Exists, SubOf, Exchanged
<1> QED
  BY <1>1, <1>2, RedirectStep, ConsentStep, ReceiveStep, AbortStep, RegisterStep,
     UpdateProfileStep, TickStep DEF Next

-----------------------------------------------------------------------------
(* The second layer: whom a state admits.                                  *)

SInv == IInv /\ StatesOK

\* A callback that has found s is admitted by it, and not idle.
LEMMA AdmittedFacts ==
  ASSUME StatesOK, NEW s \in States, NEW c \in Admitted(s)
  PROVE  c \in Callbacks /\ cb[c].pc # "idle" /\ cb[c].state = s /\ s \in issued
  BY DEF Admitted, StatesOK

\* A step after which c is over, has not found its state yet, or is still past
\* the exchange, admits nobody.
LEMMA QuietStates ==
  ASSUME StatesOK, NEW c \in Callbacks, Own(c),
         UNCHANGED <<issued, states, raced, via, session>>,
         \/ cb'[c].pc = "idle"
         \/ cb'[c].pc = "get" /\ cb'[c].state \in issued
         \/ /\ cb[c].pc \in Past /\ cb'[c].pc \in Past
            /\ cb'[c].state = cb[c].state /\ cb'[c].code = cb[c].code
  PROVE  StatesOK'
<1>1. \A d \in Callbacks \ {c} : cb'[d] = cb[d]
  BY DEF Own
<1>2. \A d \in Callbacks : cb'[d].pc # "idle" => cb'[d].state \in issued'
  BY <1>1 DEF StatesOK
<1>3. \A d \in Callbacks : cb'[d].pc \in Past => via'[cb'[d].code] = cb'[d].state
  BY <1>1 DEF StatesOK
<1>4. ASSUME NEW s \in States \ raced' PROVE StateOK(s)'
  <2>1. StateOK(s) /\ OpenedWith(s)' = OpenedWith(s)
    BY DEF StatesOK, OpenedWith
  <2>2. Admitted(s)' \subseteq Admitted(s)
    BY <1>1 DEF Admitted
  <2>3. \A d \in Admitted(s)' : d # c => cb'[d].pc = cb[d].pc
    BY <1>1, <2>2 DEF Admitted
  <2>4. c \in Admitted(s)' => cb[c].pc \in Past
    BY DEF Admitted
  <2> QED
    BY <2>1, <2>2, <2>3, <2>4 DEF StateOK
<1> QED
  BY <1>2, <1>3, <1>4 DEF StatesOK

\* A step that has nothing to do with callbacks keeps the states as they are.
LEMMA OtherStates ==
  ASSUME StatesOK, UNCHANGED <<issued, raced, via, session>>,
         \A s \in States : states'[s] > 0 => states[s] > 0,
         \A c \in Callbacks : /\ cb'[c].pc = cb[c].pc
                              /\ cb'[c].state = cb[c].state
                              /\ cb'[c].code = cb[c].code
  PROVE  StatesOK'
<1>1. ASSUME NEW s \in States \ raced' PROVE StateOK(s)'
  <2>1. StateOK(s) /\ OpenedWith(s)' = OpenedWith(s) /\ Admitted(s)' = Admitted(s)
    BY DEF StatesOK, OpenedWith, Admitted
  <2>2. \A c \in Admitted(s) : cb'[c].pc = cb[c].pc
    BY DEF Admitted
  <2> QED
    BY <2>1, <2>2 DEF StateOK
<1> QED
  BY <1>1 DEF StatesOK

\* A new state has no callbacks.
LEMMA RedirectStates ==
  ASSUME SInv, NEW s \in States, Redirect(s)
  PROVE  StatesOK'
<1>1. /\ UNCHANGED <<raced, via, session, cb>>
      /\ s \notin issued /\ issued' = issued \cup {s}
      /\ \A r \in States \ {s} : states'[r] = states[r]
  BY DEF Redirect, google, sessions, SInv, IInv, TypeOK
<1>2. ASSUME NEW r \in States \ raced' PROVE StateOK(r)'
  <2>1. StateOK(r) /\ OpenedWith(r)' = OpenedWith(r) /\ Admitted(r)' = Admitted(r)
    BY <1>1 DEF SInv, StatesOK, OpenedWith, Admitted
  <2>2. CASE r # s
    BY <1>1, <2>1, <2>2 DEF StateOK
  <2>3. CASE r = s
    <3>1. Admitted(s) = {}
      BY <1>1, AdmittedFacts DEF SInv
    <3> QED
      BY <1>1, <2>1, <2>3, <3>1 DEF StateOK
  <2> QED
    BY <2>2, <2>3
<1> QED
  BY <1>1, <1>2 DEF SInv, StatesOK

\* The first callback to find a state is the only one it admits; a second one
\* that finds it has raced for it.
LEMMA GetStates ==
  ASSUME SInv, NEW c \in Callbacks, GetState(c)
  PROVE  StatesOK'
<1> DEFINE s == cb[c].state
<1>1. UNCHANGED <<issued, states, via, session>> /\ cb[c].pc = "get"
  BY DEF GetState, google, sessions
<1>2. CASE states[s] = 0
  <2>1. Own(c) /\ cb'[c].pc = "idle"
    BY <1>2, FinishType DEF GetState, SInv, IInv, Idle
  <2> QED
    BY <1>1, <1>2, <2>1, QuietStates DEF GetState, SInv
<1>3. CASE states[s] # 0
  <2>1. Moved(c, "delete")
    BY <1>3, GotoType DEF GetState, SInv, IInv
  <2>2. /\ \A d \in Callbacks \ {c} : cb'[d] = cb[d]
        /\ cb'[c].pc = "delete" /\ cb'[c].state = s
    BY <2>1 DEF Moved, Own
  <2>3. s \in States /\ states[s] > 0
    <3>1. s \in States /\ states \in [States -> 0..StateTtl]
      BY <1>1 DEF SInv, IInv, HandlerOK, TypeOK
    <3> QED
      BY <1>3, <3>1, BoundsAssumption
  <2>4. raced' = IF Finding(s, c) # {} THEN raced \cup {s} ELSE raced
    BY <1>3 DEF GetState
  <2> HIDE DEF s
  <2>5. ASSUME NEW r \in States \ raced' PROVE StateOK(r)'
    <3>1. StateOK(r) /\ OpenedWith(r)' = OpenedWith(r)
      BY <1>1, <2>4 DEF SInv, StatesOK, OpenedWith
    <3>2. CASE r # s
      <4>1. Admitted(r)' = Admitted(r) /\ c \notin Admitted(r)
        BY <1>1, <2>2, <3>2 DEF Admitted, s
      <4> QED
        BY <1>1, <2>2, <3>1, <4>1 DEF StateOK, Admitted
    <3>3. CASE r = s
      <4>1. Finding(s, c) = {}
        BY <2>4, <3>3
      <4>2. \A d \in Admitted(r) : cb[d].pc = "delete"
        BY <2>3, <3>1, <3>3 DEF StateOK
      <4>3. Admitted(r) \subseteq {c}
        BY <3>3, <4>1, <4>2 DEF Admitted, Finding
      <4>4. Admitted(r)' \subseteq {c}
        BY <2>2, <4>3 DEF Admitted
      <4>5. OpenedWith(r) = {}
        BY <2>3, <3>1, <3>3 DEF StateOK
      <4> QED
        BY <1>1, <2>2, <3>1, <3>3, <4>4, <4>5 DEF StateOK
    <3> QED
      BY <3>2, <3>3
  <2> QED
    BY <1>1, <2>1, <2>2, <2>5 DEF SInv, StatesOK, s
<1> QED
  BY <1>2, <1>3

\* The state goes, and nobody finds it any more.
LEMMA DeleteStates ==
  ASSUME SInv, NEW c \in Callbacks, DeleteState(c)
  PROVE  StatesOK'
<1> DEFINE s == cb[c].state
<1>1. UNCHANGED <<issued, raced, via, session>> /\ cb[c].pc = "delete"
  BY DEF DeleteState, google, sessions
<1>2. Moved(c, "exchange")
  BY GotoType DEF DeleteState, SInv, IInv
<1>3. /\ \A d \in Callbacks \ {c} : cb'[d] = cb[d]
      /\ cb'[c].pc = "exchange" /\ cb'[c].state = s
  BY <1>2 DEF Moved, Own
<1>4. ~ states'[s] > 0 /\ \A r \in States \ {s} : states'[r] = states[r]
  <2>1. s \in States /\ states \in [States -> 0..StateTtl]
    BY <1>1 DEF SInv, IInv, HandlerOK, TypeOK
  <2>2. states' = [states EXCEPT ![s] = 0]
    BY DEF DeleteState
  <2> QED
    BY <2>1, <2>2
<1> HIDE DEF s
<1>5. ASSUME NEW r \in States \ raced' PROVE StateOK(r)'
  <2>1. StateOK(r) /\ OpenedWith(r)' = OpenedWith(r) /\ Admitted(r)' = Admitted(r)
    BY <1>1, <1>3 DEF SInv, StatesOK, OpenedWith, Admitted, s
  <2>2. CASE r = s
    BY <1>1, <1>4, <2>1, <2>2 DEF StateOK
  <2>3. CASE r # s
    <3>1. \A d \in Admitted(r) : cb'[d] = cb[d]
      BY <1>3, <2>3 DEF Admitted, s
    <3> QED
      BY <1>1, <1>4, <2>1, <2>3, <3>1 DEF StateOK
  <2> QED
    BY <2>2, <2>3
<1> QED
  BY <1>1, <1>3, <1>5 DEF SInv, StatesOK, s

\* The code that Google accepts has opened no session yet.
LEMMA ExchangeStates ==
  ASSUME SInv, NEW c \in Callbacks, Exchange(c)
  PROVE  StatesOK'
<1> DEFINE k == cb[c].code
           s == cb[c].state
<1>1. UNCHANGED <<issued, states, raced, session>> /\ cb[c].pc = "exchange"
  BY DEF Exchange, keys, sessions
<1>2. CASE k \in Exchanged
  <2>1. Own(c) /\ cb'[c].pc = "idle" /\ UNCHANGED via
    BY <1>2, FinishType DEF Exchange, google, SInv, IInv, Idle
  <2> QED
    BY <1>1, <2>1, QuietStates DEF SInv
<1>3. CASE k \notin Exchanged
  <2>1. PICK n \in {0, 1}, expiry \in 0..MaxExpiry :
          via' = [via EXCEPT ![k] = s] /\ Take(c, "userinfo", n, expiry)
    BY <1>3 DEF Exchange
  <2>2. n \in 0..MaxGrants
    BY BoundsAssumption
  <2>3. /\ \A d \in Callbacks \ {c} : cb'[d] = cb[d]
        /\ cb'[c].pc = "userinfo" /\ cb'[c].state = s /\ cb'[c].code = k
    BY <2>1, <2>2, TakeType DEF SInv, IInv, Own
  <2>4. k \in Codes /\ via'[k] = s /\ \A j \in Codes \ {k} : via'[j] = via[j]
    BY <1>1, <2>1 DEF SInv, IInv, HandlerOK, TypeOK
  <2>5. \A t \in SessionTokens : session[t] # Null => t[1] \in Codes \ {k}
    BY <1>3 DEF SInv, IInv, CodesOK, Exchanged
  <2>6. \A d \in Callbacks \ {c} : cb[d].pc \in Past => cb[d].code \in Codes \ {k}
    BY <1>3 DEF SInv, IInv, HandlerOK
  <2> HIDE DEF k, s
  <2>7. ASSUME NEW r \in States \ raced' PROVE StateOK(r)'
    <3>1. StateOK(r) /\ OpenedWith(r)' = OpenedWith(r)
      BY <1>1, <2>4, <2>5 DEF SInv, StatesOK, OpenedWith
    <3>2. Admitted(r)' = Admitted(r)
      BY <1>1, <2>3 DEF Admitted, s
    <3>3. \A d \in Admitted(r) : cb[d].pc = "delete" => cb'[d].pc = "delete"
      BY <1>1, <2>3 DEF Admitted
    <3> QED
      BY <1>1, <3>1, <3>2, <3>3 DEF StateOK
  <2> QED
    BY <1>1, <2>3, <2>4, <2>6, <2>7 DEF SInv, StatesOK, s
<1> QED
  BY <1>2, <1>3

\* The one callback that a state has admitted opens the one session.
LEMMA OpenStates ==
  ASSUME SInv, NEW c \in Callbacks, OpenSession(c)
  PROVE  StatesOK'
<1> DEFINE k == cb[c].code
           s == cb[c].state
<1>1. UNCHANGED <<issued, states, raced, via>> /\ cb[c].pc = "session" /\ Finish(c)
  BY DEF OpenSession, keys, google
<1>2. Own(c) /\ cb'[c] = Idle
  BY <1>1, FinishType DEF SInv, IInv
<1>3. (\A d \in Callbacks \ {c} : cb'[d] = cb[d]) /\ cb'[c].pc = "idle"
  BY <1>2 DEF Own, Idle
<1>4. k \in Codes /\ via[k] = s /\ s \in States
  BY <1>1 DEF SInv, IInv, HandlerOK, StatesOK
<1>5. PICK t \in SessionTokens :
        /\ t[1] = k
        /\ \A u \in SessionTokens \ {t} : session'[u] = session[u]
  <2>1. PICK i \in {1, 2} : Sessions!Open(cb[c].acct, <<k, i>>)
    BY DEF OpenSession
  <2>2. <<k, i>> \in SessionTokens /\ <<k, i>>[1] = k
    BY <1>4 DEF SessionTokens
  <2>3. \A u \in SessionTokens \ {<<k, i>>} : session'[u] = session[u]
    BY <2>1, <2>2 DEF Sessions!Open, SInv, IInv, TypeOK
  <2> QED
    BY <2>2, <2>3
<1> HIDE DEF k, s
<1>6. ASSUME NEW r \in States \ raced' PROVE StateOK(r)'
  <2>1. StateOK(r)
    BY <1>1 DEF SInv, StatesOK
  <2>2. Admitted(r)' \subseteq Admitted(r) \ {c}
    BY <1>3 DEF Admitted
  <2>3. \A d \in Admitted(r)' : cb'[d] = cb[d]
    BY <1>3, <2>2 DEF Admitted
  <2>4. CASE r # s
    <3>1. OpenedWith(r)' = OpenedWith(r)
      BY <1>1, <1>4, <1>5, <2>4 DEF OpenedWith
    <3> QED
      BY <1>1, <2>1, <2>2, <2>3, <3>1 DEF StateOK
  <2>5. CASE r = s
    <3>1. c \in Admitted(r) /\ r \in issued
      BY <1>1, <2>5 DEF Admitted, SInv, StatesOK, s
    <3>2. OpenedWith(r) = {} /\ Admitted(r) \subseteq {c} /\ ~ states[r] > 0
      BY <1>1, <2>1, <2>5, <3>1 DEF StateOK
    <3>3. Admitted(r)' = {}
      BY <2>2, <2>5, <3>2
    <3>4. OpenedWith(r)' \subseteq {t}
      BY <1>1, <1>5, <3>2 DEF OpenedWith
    <3> QED
      BY <1>1, <2>5, <3>1, <3>2, <3>3, <3>4 DEF StateOK
  <2> QED
    BY <2>4, <2>5
<1> QED
  BY <1>1, <1>3, <1>6 DEF SInv, StatesOK

\* At first no state is out.
LEMMA InitStates == Init => StatesOK
<1> SUFFICES ASSUME Init PROVE StatesOK
  OBVIOUS
<1>1. /\ cb = [c \in Callbacks |-> Idle]
      /\ session = [t \in SessionTokens |-> Null]
      /\ states = [s \in States |-> 0]
  BY DEF Init, Sessions!StoreInit
<1>2. \A c \in Callbacks : cb[c].pc = "idle"
  BY <1>1 DEF Idle
<1>3. ASSUME NEW s \in States PROVE StateOK(s)
  <2>1. Admitted(s) = {}
    BY <1>2 DEF Admitted
  <2>2. OpenedWith(s) = {}
    BY <1>1 DEF OpenedWith
  <2>3. ~ states[s] > 0
    BY <1>1
  <2> QED
    BY <2>1, <2>2, <2>3 DEF StateOK
<1> QED
  BY <1>2, <1>3 DEF StatesOK

\* Every step keeps the second layer, above the first.
LEMMA StepStates == SInv /\ [Next]_vars => StatesOK'
<1> SUFFICES ASSUME SInv, [Next]_vars PROVE StatesOK'
  OBVIOUS
<1> USE DEF SInv
<1>1. ASSUME NEW c \in Callbacks, Handle(c) PROVE StatesOK'
  <2>1. CASE GetState(c) \/ DeleteState(c) \/ Exchange(c) \/ OpenSession(c)
    BY <2>1, GetStates, DeleteStates, ExchangeStates, OpenStates
  <2>2. CASE Fetch(c)
    <3>1. /\ cb[c].pc \in {"userinfo", "drive"}
          /\ UNCHANGED <<issued, states, raced, via, session>>
      BY <2>2 DEF Fetch, keys, google, sessions
    <3>2. PICK pc \in {"drive", "find_sub"} : Moved(c, pc)
      BY <2>2, <3>1, GotoType DEF Fetch, AfterFetch, IInv
    <3> QED
      BY <3>1, <3>2, QuietStates DEF Moved
  <2>3. CASE RefreshAndFetch(c)
    <3>1. /\ cb[c].pc \in {"userinfo", "drive"}
          /\ UNCHANGED <<issued, states, raced, via, session>>
      BY <2>3 DEF RefreshAndFetch, keys, google, sessions
    <3>2. CASE Finish(c)
      <4>1. Own(c) /\ cb'[c].pc = "idle"
        BY <3>2, FinishType DEF Idle, IInv
      <4> QED
        BY <3>1, <4>1, QuietStates
    <3>3. CASE ~ Finish(c)
      <4>1. PICK n \in {cb[c].grant, cb[c].grant + 1}, expiry \in 0..MaxExpiry :
              n <= MaxGrants /\ Take(c, AfterFetch(cb[c].pc), n, expiry)
        BY <2>3, <3>3 DEF RefreshAndFetch
      <4>2. n \in 0..MaxGrants /\ AfterFetch(cb[c].pc) \in {"drive", "find_sub"}
        BY <4>1, BoundsAssumption DEF IInv, TypeOK, Callback, AfterFetch
      <4>3. /\ Own(c) /\ cb'[c].pc \in Past
            /\ cb'[c].state = cb[c].state /\ cb'[c].code = cb[c].code
        BY <4>1, <4>2, TakeType DEF IInv
      <4> QED
        BY <3>1, <4>3, QuietStates
    <3> QED
      BY <3>2, <3>3
  <2>4. CASE FindSub(c) \/ FindEmail(c)
    <3>1. /\ cb[c].pc \in {"find_sub", "find_email"}
          /\ UNCHANGED <<issued, states, raced, via, session>>
      BY <2>4 DEF FindSub, FindEmail, keys, google, sessions
    <3>2. CASE \E pc \in {"find_email", "commit"} : Goto(c, pc)
      <4>1. PICK pc \in {"find_email", "commit"} : Moved(c, pc)
        BY <3>2, GotoType DEF IInv
      <4> QED
        BY <3>1, <4>1, QuietStates DEF Moved
    <3>3. CASE ~ \E pc \in {"find_email", "commit"} : Goto(c, pc)
      <4>1. PICK a \in Accounts, asked \in SUBSET {"sub", "token"} :
              Exists(a) /\ Load(c, a, asked)
        BY <2>4, <3>3 DEF FindSub, FindEmail
      <4>2. /\ Own(c) /\ cb'[c].pc \in Past
            /\ cb'[c].state = cb[c].state /\ cb'[c].code = cb[c].code
        BY <4>1, LoadType DEF IInv
      <4> QED
        BY <3>1, <4>2, QuietStates
    <3> QED
      BY <3>2, <3>3
  <2>5. CASE Commit(c)
    <3>1. cb[c].pc = "commit" /\ UNCHANGED <<issued, states, raced, via, session>>
      BY <2>5 DEF Commit, keys, google, sessions
    <3>2. CASE Finish(c)
      <4>1. Own(c) /\ cb'[c].pc = "idle"
        BY <3>2, FinishType DEF Idle, IInv
      <4> QED
        BY <3>1, <4>1, QuietStates
    <3>3. CASE ~ Finish(c)
      <4>1. PICK a \in Accounts :
              cb' = [cb EXCEPT ![c] = [@ EXCEPT !.pc = "session", !.acct = a]]
        BY <2>5, <3>3 DEF Commit
      <4>2. /\ Own(c) /\ cb'[c].pc \in Past
            /\ cb'[c].state = cb[c].state /\ cb'[c].code = cb[c].code
        BY <4>1, CommitType DEF IInv
      <4> QED
        BY <3>1, <4>2, QuietStates
    <3> QED
      BY <3>2, <3>3
  <2> QED
    BY <1>1, <2>1, <2>2, <2>3, <2>4, <2>5 DEF Handle
<1>2. ASSUME NEW c \in Callbacks, NEW s \in States, NEW k \in Codes, Receive(c, s, k)
      PROVE  StatesOK'
  <2>1. s \in issued /\ UNCHANGED <<issued, states, raced, via, session>>
    BY <1>2 DEF Receive, keys, google, sessions
  <2>2. Own(c) /\ cb'[c].pc = "get" /\ cb'[c].state = s
    BY <1>2, ReceiveType DEF IInv
  <2> QED
    BY <2>1, <2>2, QuietStates
<1>3. ASSUME NEW c \in Callbacks, Abort(c) PROVE StatesOK'
  <2>1. UNCHANGED <<issued, states, raced, via, session>>
    BY <1>3 DEF Abort, keys, google, sessions
  <2>2. Own(c) /\ cb'[c].pc = "idle"
    BY <1>3, FinishType DEF Abort, Idle, IInv
  <2> QED
    BY <2>1, <2>2, QuietStates
<1>4. ASSUME Tick PROVE StatesOK'
  <2>1. UNCHANGED <<issued, raced, via, session>>
    BY <1>4 DEF Tick, google, sessions
  <2>2. \A n \in Nat : Less(n) > 0 => n > 0
    BY DEF Less
  <2>3. \A s \in States : states'[s] > 0 => states[s] > 0
    BY <1>4, <2>2, BoundsAssumption DEF Tick, IInv, TypeOK
  <2>4. \A c \in Callbacks : /\ cb'[c].pc = cb[c].pc
                             /\ cb'[c].state = cb[c].state
                             /\ cb'[c].code = cb[c].code
    <3> SUFFICES ASSUME NEW c \in Callbacks
                 PROVE  /\ cb'[c].pc = cb[c].pc /\ cb'[c].state = cb[c].state
                        /\ cb'[c].code = cb[c].code
      OBVIOUS
    <3>1. cb[c] \in Callback /\ cb'[c] = [cb[c] EXCEPT !.expiry = Less(cb[c].expiry)]
      BY <1>4 DEF Tick, IInv, TypeOK
    <3> QED
      BY <3>1 DEF Callback
  <2> QED
    BY <2>1, <2>3, <2>4, OtherStates
<1>5. ASSUME NEW a \in Accounts, NEW e \in Emails, Register(a, e) \/ UpdateProfile(a, e)
      PROVE  StatesOK'
  <2>1. UNCHANGED <<issued, states, raced, via, session, cb>>
    BY <1>5 DEF Register, UpdateProfile, keys, google, sessions
  <2> QED
    BY <2>1, OtherStates
<1>6. ASSUME NEW k \in Codes, NEW s \in Subs, NEW e \in Emails, Consent(k, s, e)
      PROVE  StatesOK'
  <2>1. UNCHANGED <<issued, states, raced, via, session, cb>>
    BY <1>6 DEF Consent, keys, sessions
  <2> QED
    BY <2>1, OtherStates
<1>7. CASE UNCHANGED vars
  <2>1. UNCHANGED <<issued, states, raced, via, session, cb>>
    BY <1>7 DEF vars
  <2> QED
    BY <2>1, OtherStates
<1> QED
  BY <1>1, <1>2, <1>3, <1>4, <1>5, <1>6, <1>7, RedirectStates DEF Next

-----------------------------------------------------------------------------
(* The theorems.                                                           *)

\* However callbacks, registrations and profile updates interleave, what the
\* handlers of handle_google_callback hold stays true of Google and the tables.
THEOREM Invariance == Spec => []IInv
  BY InitInv, StepInv, PTL DEF Spec

\* The states, the tables and the local variables of OAuthService have their
\* types, refresh tokens that are None included.
THEOREM TypesHold == Spec => []TypeOK
<1>1. IInv => TypeOK
  BY DEF IInv
<1> QED
  BY <1>1, Invariance, PTL

\* No callback that is sent again opens a second session with its code, whichever
\* state it brings (_exchange_code_for_tokens: Google accepts a code once).
THEOREM CodesSignInOnce == Spec => []OneSignInPerCode
<1>1. IInv => OneSignInPerCode
  BY DEF IInv
<1> QED
  BY <1>1, Invariance, PTL

\* A state signs in once, with whatever codes callbacks bring it, unless one of them
\* found it between another's redis.get and redis.delete in handle_google_callback.
THEOREM StatesSignInOnce == Spec => []OneSignInPerState
<1>1. Init => StatesOK
  BY InitStates
<1>2. IInv /\ StatesOK /\ [Next]_vars => StatesOK'
  BY StepStates DEF SInv
<1>3. StatesOK => OneSignInPerState
  BY DEF StatesOK, StateOK, OneSignInPerState
<1> QED
  BY <1>1, <1>2, <1>3, Invariance, PTL DEF Spec

\* A session is one of the account linked to the Google account that consented,
\* until a sign-in relinks it (get_or_create_user, by sub and by email).
THEOREM SessionsAreTheirs == Spec => []SignedInAsThemselves
<1>1. IInv => SignedInAsThemselves
  BY DEF IInv
<1> QED
  BY <1>1, Invariance, PTL

\* The refresh token in a row is one of its Google account, unless one sign-in
\* committed while another held the row (the UPDATEs of get_or_create_user).
THEOREM StoredTokensBelong == Spec => []TokensBelong
<1>1. IInv => TokensBelong
  BY DEF IInv
<1> QED
  BY <1>1, Invariance, PTL

\* And it is the last of its code, although OAuthService may replace it while it
\* refreshes the access token.
THEOREM StoredTokensAreNewest == Spec => []TokensAreNewest
<1>1. IInv => TokensAreNewest
  BY DEF IInv
<1> QED
  BY <1>1, Invariance, PTL

-----------------------------------------------------------------------------
(* The tables of the other components.                                     *)

\* What a sign-in writes into an account is within the columns that
\* get_or_create_user may set.
LEMMA CommitWrites ==
  ASSUME IInv, NEW c \in Callbacks, Commit(c), rows' # rows
  PROVE  AccountTable!AccountNext
<1>1. cb[c].pc = "commit" /\ \E a \in Accounts :
        IF cb[c].acct = Null
          THEN AccountTable!Create(a, Written(c))
          ELSE a = cb[c].acct /\ AccountTable!Change(a, cb[c].asked, Written(c))
  BY DEF Commit
<1>2. CASE cb[c].acct = Null
  BY <1>1, <1>2, InsertedRow DEF AccountTable!AccountNext
<1>3. CASE cb[c].acct # Null
  <2>1. PICK a \in Accounts :
          a = cb[c].acct /\ AccountTable!Change(a, cb[c].asked, Written(c))
    BY <1>1, <1>3
  <2>2. HoldsAccount(c)
    BY <1>1, <1>3 DEF IInv, HandlerOK
  <2>3. cb[c].asked \in AccountTable!ColumnSets
    BY <2>2 DEF HoldsAccount, AccountTable!ColumnSets
  <2>4. Written(c) \in AccountTable!Row
    BY <1>1, <2>1, UpdatedRow
  <2> QED
    BY <2>1, <2>3, <2>4 DEF AccountTable!AccountNext
<1> QED
  BY <1>2, <1>3

\* Sign-ins, registrations and profile updates change the accounts only as
\* AccountStore lets them, so UserAccounts and this module speak of one table.
THEOREM AccountsComposed == Spec => AccountTable!AccountSpec
<1>1. Init => AccountTable!AccountInit
  BY DEF Init
<1>2. IInv /\ [Next]_vars => [AccountTable!AccountNext]_rows
  <2> SUFFICES ASSUME IInv, Next, rows' # rows PROVE AccountTable!AccountNext
    BY DEF vars
  <2>1. ASSUME NEW a \in Accounts, NEW e \in Emails, Register(a, e)
        PROVE  AccountTable!AccountNext
    BY <2>1 DEF Register, AccountTable!AccountNext, AccountTable!Row
  <2>2. ASSUME NEW a \in Accounts, NEW e \in Emails, UpdateProfile(a, e)
        PROVE  AccountTable!AccountNext
    <3>1. rows[a] \in AccountTable!Row
      BY <2>2 DEF UpdateProfile, Exists, IInv, TypeOK
    <3>2. [rows[a] EXCEPT !.email = e] \in AccountTable!Row
      BY <3>1 DEF AccountTable!Row
    <3> QED
      BY <2>2, <3>2
      DEF UpdateProfile, AccountTable!AccountNext, AccountTable!ColumnSets
  <2>3. ASSUME NEW c \in Callbacks, Commit(c)
        PROVE  AccountTable!AccountNext
    BY <2>3, CommitWrites
  <2>4. ASSUME NEW c \in Callbacks, Handle(c), ~ Commit(c)
        PROVE  rows' = rows
    BY <2>4 DEF Handle, GetState, DeleteState, Exchange, Fetch, RefreshAndFetch,
       FindSub, FindEmail, OpenSession
  <2> QED
    BY <2>1, <2>2, <2>3, <2>4 DEF Next, Redirect, Consent, Receive, Abort, Tick
<1> QED
  BY <1>1, <1>2, Invariance, PTL DEF Spec, AccountTable!AccountSpec

\* A sign-in opens a session as SessionStore lets it, and touches no other, so
\* RefreshTokens can rotate and close what it opened.
THEOREM SessionsComposed == Spec => Sessions!StoreSpec
<1>1. Init => Sessions!StoreInit
  BY DEF Init
<1>2. IInv /\ [Next]_vars => [Sessions!StoreNext]_(Sessions!storeVars)
  <2> SUFFICES ASSUME IInv, Next, ~ UNCHANGED sessions PROVE Sessions!StoreNext
    BY DEF vars, sessions, Sessions!storeVars
  <2>1. PICK c \in Callbacks : OpenSession(c)
    BY DEF Next, Redirect, Consent, Receive, Abort, Tick, Register, UpdateProfile, Handle,
       GetState, DeleteState, Exchange, Fetch, RefreshAndFetch, FindSub, FindEmail,
       Commit
  <2>2. cb[c].acct \in Accounts
    BY <2>1 DEF OpenSession, IInv, HandlerOK, TypeOK, Callback
  <2>3. PICK i \in {1, 2} : Sessions!Open(cb[c].acct, <<cb[c].code, i>>)
    BY <2>1 DEF OpenSession
  <2> QED
    BY <2>2, <2>3 DEF Sessions!StoreNext, Sessions!Open, Sessions!Fresh
<1> QED
  BY <1>1, <1>2, Invariance, PTL DEF Spec, Sessions!StoreSpec

Inherited == INSTANCE AccountStoreProofs WITH Names <- {}

\* Whoever signs in: find_by_google_sub and find_by_email find one account at
\* most, and an account stays for good, its email untouched by the step that
\* links it to a Google account.
THEOREM OneAccountEach == Spec => []AccountTable!KeysUnique /\ AccountTable!AccountsLast
<1>1. /\ AccountTable!AccountInit <=> Inherited!AccountInit
      /\ AccountTable!AccountNext <=> Inherited!AccountNext
  BY DEF AccountTable!AccountInit, AccountTable!AccountNext, AccountTable!Create,
     AccountTable!Change, AccountTable!Legal, AccountTable!Row, AccountTable!ColumnSets,
     Inherited!AccountInit, Inherited!AccountNext, Inherited!Create,
     Inherited!Change, Inherited!Legal, Inherited!Row, Inherited!ColumnSets
<1>2. /\ AccountTable!KeysUnique <=> Inherited!KeysUnique
      /\ AccountTable!Lasting <=> Inherited!Lasting
  BY DEF AccountTable!KeysUnique, AccountTable!Lasting, Inherited!KeysUnique,
     Inherited!Lasting
<1>3. Inherited!AccountSpec => [](Inherited!RowTypes /\ Inherited!KeysUnique)
  BY Inherited!Uniqueness
<1>4. NoRow \notin Inherited!Row
  BY NoRowAssumption DEF AccountTable!Row, Inherited!Row
<1>5. Inherited!AccountSpec => Inherited!AccountsLast
  BY <1>4, Inherited!Lastingness
<1> QED
  BY <1>1, <1>2, <1>3, <1>5, AccountsComposed, PTL
  DEF AccountTable!AccountSpec, Inherited!AccountSpec, AccountTable!AccountsLast,
      Inherited!AccountsLast
=============================================================================
