CONSTANTS
  Accounts = {a1, a2}
  Emails = {e1, e2}
  Subs = {s1}
  Names = {}
  ShortNames = {}
  Requests = {r1, r2}
  Null = Null
  NoRow = NoRow
SYMMETRY Symmetry
VIEW View
SPECIFICATION Spec
INVARIANTS TypeOK KeysOK AnnouncedIffCreated EventsMatchRows
PROPERTIES OnlyOwnColumns ImplementsAccountStore
