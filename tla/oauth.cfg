CONSTANTS
  States = {t1, t2}
  Codes = {k1, k2}
  Callbacks = {c1, c2}
  Accounts = {a1, a2}
  Emails = {g1, g2}
  Subs = {g1, g2}
  StateTtl = 1
  MaxExpiry = 1
  MaxGrants = 2
  Null = Null
  NoRow = NoRow
SYMMETRY Symmetry
VIEW View
CONSTRAINT OneEmailEach
SPECIFICATION Spec
INVARIANTS TypeOK OneSignInPerCode OneSignInPerState SignedInAsThemselves TokensBelong TokensAreNewest
