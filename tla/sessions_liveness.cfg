CONSTANTS
  Users = {u1}
  Tokens = {t1, t2, t3}
  Requests = {r1, r2}
  NoUser = NoUser
  NoToken = NoToken
  Grace = 0
  Lifetime = 1
  MaxTime = 0
SPECIFICATION FairSpec
INVARIANTS IInv WaitCirclesAreLogoutAlls
PROPERTIES RequestsComplete ImplementsSessionStore
