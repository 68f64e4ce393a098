CONSTANTS
  Users = {u1}
  Tokens = {t1, t2, t3}
  Requests = {r1, r2}
  NoUser = NoUser
  NoToken = NoToken
  Grace = 1
  Lifetime = 1
  MaxTime = 1
SPECIFICATION Spec
PROPERTY AllSessionsLoggedOut
