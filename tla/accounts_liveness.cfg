CONSTANTS
  Accounts = {a1, a2}
  Emails = {e1}
  Subs = {s1}
  Names = {}
  ShortNames = {}
  Requests = {r1, r2}
  Null = Null
  NoRow = NoRow
VIEW View
SPECIFICATION FairSpec
PROPERTY RequestsComplete
