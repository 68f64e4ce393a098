-------------------------- MODULE MCOAuthCallback --------------------------
(* OAuthCallback with few states, codes, requests and accounts.            *)
EXTENDS OAuthCallback, TLC

Symmetry ==
  Permutations(States) \cup Permutations(Codes) \cup Permutations(Callbacks)
    \cup Permutations(Accounts) \cup Permutations(Subs)

\* What later steps of a callback read of its record.
Live(r) ==
  CASE r.pc = "idle" -> <<>>
    [] r.pc \in {"get", "delete", "exchange"} -> <<r.pc, r.state, r.code>>
    [] r.pc \in {"userinfo", "drive"} -> <<r.pc, r.code, r.grant, r.expiry>>
    [] r.pc \in {"find_sub", "find_email"} -> <<r.pc, r.code, r.grant>>
    [] r.pc = "commit" ->
         <<r.code, r.grant, r.acct, r.asked,
           IF r.seen = NoRow THEN NoRow ELSE <<r.seen.sub, r.seen.token>> >>
    [] r.pc = "session" -> <<r.code, r.acct>>

\* Bound: a Google account has one email throughout, which no other one has.  The
\* two are named alike.
OneEmailEach == \A k \in Codes : owner[k] # Null => owner[k].email = owner[k].sub

\* Only Open acts on the sessions.
View ==
  <<issued, states, owner, via, granted, session, raced, relinked, crossed,
    [a \in Accounts |->
       IF rows[a] = NoRow THEN NoRow ELSE <<rows[a].email, rows[a].sub, rows[a].token>>],
    [c \in Callbacks |-> Live(cb[c])]>>
=============================================================================
