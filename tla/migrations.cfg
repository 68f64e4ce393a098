CONSTANTS
  Users = {u1, u2}
  Emails = {e1, e2}
  Names = {n1}
  Migrators = {m1, m2}
  Targets = {0, 1, 6, 7, 8}
  Null = Null
  NoRow = NoRow
SPECIFICATION FairSpec
INVARIANTS TypeOK SchemaMatchesVersion PrivilegesNest AccountsHaveRoles RowsFitSchema
PROPERTIES ImplementsDeployment FailuresExplained CommandsEnd
