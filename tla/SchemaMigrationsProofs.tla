----------------------- MODULE SchemaMigrationsProofs -----------------------
(* Theorems about SchemaMigrations, for any users, rows and commands.      *)
EXTENDS SchemaMigrations, TLAPS

USE DEF Base, Revisions

-----------------------------------------------------------------------------
(* What each migration makes of the schema of the revision before it.      *)

\* The seven tables that the initial migration lists, by name.
LEMMA TableNames ==
  Tables = {"permissions", "roles", "users", "addresses", "refresh_tokens",
            "roles_permissions", "users_roles"}
<1>1. 1..7 = {1, 2, 3, 4, 5, 6, 7}
  OBVIOUS
<1>2. Tables = {InitialTables[i] : i \in {1, 2, 3, 4, 5, 6, 7}}
  BY <1>1 DEF Tables
<1> QED
  BY <1>2 DEF InitialTables

\* The tables change with revisions 1 and 6 only.
LEMMA TablesOf ==
  /\ TablesAt(0) = {}
  /\ TablesAt(1) = Tables /\ TablesAt(2) = Tables /\ TablesAt(3) = Tables
  /\ TablesAt(4) = Tables /\ TablesAt(5) = Tables
  /\ TablesAt(6) = Tables \ {"addresses"}
  /\ TablesAt(7) = TablesAt(6) /\ TablesAt(8) = TablesAt(6)
  BY DEF TablesAt

\* Which resource a permission is about tells which migration inserted it.
LEMMA Resources ==
  /\ \A p \in SeededPermissions : p.resource # "address"
  /\ \A p \in AddressPermissions : p.resource = "address"
<1>1. \A p \in SeededPermissions : p.resource # "address"
  BY DEF SeededPermissions, Permissions
<1>2. \A p \in AddressPermissions : p.resource = "address"
  BY DEF AddressPermissions, Permissions
<1> QED
  BY <1>1, <1>2

\* The permissions change with revisions 2 and 4 only.
LEMMA PermissionsOf ==
  /\ PermissionsAt(0) = {} /\ PermissionsAt(1) = {}
  /\ PermissionsAt(2) = SeededPermissions /\ PermissionsAt(3) = SeededPermissions
  /\ PermissionsAt(4) = SeededPermissions \cup AddressPermissions
  /\ PermissionsAt(5) = PermissionsAt(4) /\ PermissionsAt(6) = PermissionsAt(4)
  /\ PermissionsAt(7) = PermissionsAt(4) /\ PermissionsAt(8) = PermissionsAt(4)
  /\ SeededPermissions \cap AddressPermissions = {}
<1>1. PermissionsAt(0) = {} /\ PermissionsAt(1) = {}
  BY DEF PermissionsAt
<1>2. PermissionsAt(2) = SeededPermissions /\ PermissionsAt(3) = SeededPermissions
  BY Resources DEF PermissionsAt
<1>3. \A v \in 4..8 : PermissionsAt(v) = SeededPermissions \cup AddressPermissions
  BY DEF PermissionsAt
<1>4. SeededPermissions \cap AddressPermissions = {}
  BY Resources
<1> QED
  BY <1>1, <1>2, <1>3, <1>4

\* The schema of a revision is a schema.
LEMMA SchemaOf ==
  ASSUME NEW v \in Revisions
  PROVE  /\ SchemaAt(v) \in Schema
         /\ SchemaAt(v).version = v
<1>1. TablesAt(v) \subseteq Tables
  BY DEF TablesAt
<1>2. PermissionsAt(v) \subseteq SeededPermissions \cup AddressPermissions
  BY DEF PermissionsAt
<1>3. GrantsAt(v) \subseteq Roles \X (SeededPermissions \cup AddressPermissions)
  BY <1>2 DEF GrantsAt
<1> QED
  BY <1>1, <1>2, <1>3 DEF SchemaAt, Schema

\* Records with the fields of a schema: their field sets play no part here.
Schemas(V, T, C, N, U, P, R, G) ==
  [version: V, tables: T, columns: C, nullable: N, unique: U, perms: P,
   roles: R, grants: G]

Has(s, v, t, c, n, u, p, r, g) ==
  /\ s.version = v /\ s.tables = t /\ s.columns = c /\ s.nullable = n
  /\ s.unique = u /\ s.perms = p /\ s.roles = r /\ s.grants = g

\* Two schemas with the same fields are the same.
LEMMA SameFields ==
  ASSUME NEW V, NEW T, NEW C, NEW N, NEW U, NEW P, NEW R, NEW G,
         NEW s \in Schemas(V, T, C, N, U, P, R, G),
         NEW d \in Schemas(V, T, C, N, U, P, R, G),
         Has(s, d.version, d.tables, d.columns, d.nullable, d.unique, d.perms,
             d.roles, d.grants)
  PROVE  s = d
  BY DEF Schemas, Has

\* What EXCEPT makes of one field of a record, without its type.
LEMMA Altered ==
  ASSUME NEW V, NEW T, NEW C, NEW N, NEW U, NEW P, NEW R, NEW G,
         NEW s \in Schemas(V, T, C, N, U, P, R, G)
  PROVE  LET S == Schemas(V, T, C, N, U, P, R, G) IN
         /\ \A v \in V : LET d == [s EXCEPT !.version = v] IN
              /\ d \in S
              /\ Has(d, v, s.tables, s.columns, s.nullable, s.unique, s.perms, s.roles,
                     s.grants)
         /\ \A t \in T : LET d == [s EXCEPT !.tables = t] IN
              /\ d \in S
              /\ Has(d, s.version, t, s.columns, s.nullable, s.unique, s.perms,
                     s.roles, s.grants)
         /\ \A p \in P, r \in R : LET d == [s EXCEPT !.perms = p, !.roles = r] IN
              /\ d \in S
              /\ Has(d, s.version, s.tables, s.columns, s.nullable, s.unique, p, r,
                     s.grants)
         /\ \A p \in P : LET d == [s EXCEPT !.perms = p] IN
              /\ d \in S
              /\ Has(d, s.version, s.tables, s.columns, s.nullable, s.unique, p,
                     s.roles, s.grants)
         /\ \A g \in G : LET d == [s EXCEPT !.grants = g] IN
              /\ d \in S
              /\ Has(d, s.version, s.tables, s.columns, s.nullable, s.unique, s.perms,
                     s.roles, g)
         /\ \A c \in C, n \in N, u \in U :
              LET d == [s EXCEPT !.columns = c, !.nullable = n, !.unique = u] IN
              /\ d \in S
              /\ Has(d, s.version, s.tables, c, n, u, s.perms, s.roles, s.grants)
         /\ \A n \in N : LET d == [s EXCEPT !.nullable = n] IN
              /\ d \in S
              /\ Has(d, s.version, s.tables, s.columns, n, s.unique, s.perms,
                     s.roles, s.grants)
  BY DEF Schemas, Has

\* s has the fields of revision v, its version apart.
FieldsOf(s, v) ==
  Has(s, s.version, TablesAt(v),
      IF v >= 7 THEN Columns ELSE {},
      IF v >= 8 THEN {"first_name", "hashed_password"}
      ELSE IF v = 7 THEN {"hashed_password"} ELSE {},
      IF v >= 7 THEN {"email", "google_sub"} ELSE {},
      PermissionsAt(v),
      IF v >= 2 THEN Roles ELSE {},
      GrantsAt(v))

Fieldwise ==
  Schemas(Revisions, SUBSET Tables, SUBSET Columns,
          SUBSET {"first_name", "hashed_password"}, SUBSET {"email", "google_sub"},
          SUBSET (SeededPermissions \cup AddressPermissions), SUBSET Roles,
          SUBSET (Roles \X (SeededPermissions \cup AddressPermissions)))

\* A database is that of its revision when its fields are.
LEMMA SchemaFields ==
  ASSUME NEW v \in Revisions
  PROVE  /\ SchemaAt(v) \in Schema
         /\ SchemaAt(v).version = v
         /\ FieldsOf(SchemaAt(v), v)
<1>1. SchemaAt(v).version = v /\ FieldsOf(SchemaAt(v), v)
  BY DEF SchemaAt, FieldsOf, Has
<1> QED
  BY <1>1, SchemaOf

\* The UPDATE of the version row is all that is left to do.
LEMMA Stamp ==
  ASSUME NEW s \in Schema, NEW v \in Revisions, FieldsOf(s, v)
  PROVE  [s EXCEPT !.version = v] = SchemaAt(v)
<1> DEFINE d == [s EXCEPT !.version = v]
           e == SchemaAt(v)
<1>1. s \in Fieldwise /\ e \in Fieldwise
  BY SchemaFields DEF Fieldwise, Schemas, Schema
<1>2. /\ d \in Fieldwise
      /\ Has(d, v, s.tables, s.columns, s.nullable, s.unique, s.perms, s.roles,
             s.grants)
  BY <1>1, Altered, ZenonT(120) DEF Fieldwise
<1>3. e.version = v /\ FieldsOf(e, v)
  BY SchemaFields
<1> HIDE DEF d, e
<1>4. Has(d, e.version, e.tables, e.columns, e.nullable, e.unique, e.perms, e.roles,
          e.grants)
  BY <1>2, <1>3 DEF FieldsOf, Has
<1>5. d = e
  BY <1>1, <1>2, <1>4, SameFields DEF Fieldwise
<1> QED
  BY <1>5 DEF d, e

\* The grants change with revisions 3 and 5 only.
LEMMA GrantsOf ==
  /\ GrantsAt(0) = {} /\ GrantsAt(1) = {} /\ GrantsAt(2) = {}
  /\ GrantsAt(3) = GrantsAt(4)
  /\ GrantsAt(6) = GrantsAt(5) /\ GrantsAt(7) = GrantsAt(5) /\ GrantsAt(8) = GrantsAt(5)
<1>1. GrantsAt(0) = {} /\ GrantsAt(1) = {} /\ GrantsAt(2) = {}
  BY DEF GrantsAt
<1>2. GrantsAt(3) = GrantsAt(4)
  BY Resources, PermissionsOf DEF GrantsAt
<1>3. \A v \in 5..8 : GrantsAt(v) = GrantsAt(5)
  BY PermissionsOf DEF GrantsAt
<1> QED
  BY <1>1, <1>2, <1>3

\* A new database is at the base revision.
LEMMA EmptyIsBase == Empty = SchemaAt(0)
<1>1. TablesAt(0) = {} /\ PermissionsAt(0) = {} /\ GrantsAt(0) = {}
  BY TablesOf, PermissionsOf, GrantsOf
<1>2. /\ \A S : {c \in S : FALSE} = {}
      /\ SchemaAt(0) = [version |-> 0, tables |-> {}, columns |-> {}, nullable |-> {},
                        unique |-> {}, perms |-> {}, roles |-> {}, grants |-> {}]
  BY <1>1 DEF SchemaAt
<1> QED
  BY <1>2 DEF Empty

-----------------------------------------------------------------------------
(* Each migration makes of the schema of one revision that of the next.    *)

\* What each migration's EXCEPT leaves of the other fields.
LEMMA AlteredSchema ==
  ASSUME NEW s \in Schema
  PROVE  /\ \A t \in SUBSET Tables : LET d == [s EXCEPT !.tables = t] IN
              /\ d \in Schema
              /\ Has(d, s.version, t, s.columns, s.nullable, s.unique, s.perms,
                     s.roles, s.grants)
         /\ \A p \in SUBSET (SeededPermissions \cup AddressPermissions),
               r \in SUBSET Roles :
              LET d == [s EXCEPT !.perms = p, !.roles = r] IN
              /\ d \in Schema
              /\ Has(d, s.version, s.tables, s.columns, s.nullable, s.unique, p, r,
                     s.grants)
         /\ \A p \in SUBSET (SeededPermissions \cup AddressPermissions) :
              LET d == [s EXCEPT !.perms = p] IN
              /\ d \in Schema
              /\ Has(d, s.version, s.tables, s.columns, s.nullable, s.unique, p,
                     s.roles, s.grants)
         /\ \A g \in SUBSET (Roles \X (SeededPermissions \cup AddressPermissions)) :
              LET d == [s EXCEPT !.grants = g] IN
              /\ d \in Schema
              /\ Has(d, s.version, s.tables, s.columns, s.nullable, s.unique, s.perms,
                     s.roles, g)
         /\ \A c \in SUBSET Columns, n \in SUBSET {"first_name", "hashed_password"},
               u \in SUBSET {"email", "google_sub"} :
              LET d == [s EXCEPT !.columns = c, !.nullable = n, !.unique = u] IN
              /\ d \in Schema
              /\ Has(d, s.version, s.tables, c, n, u, s.perms, s.roles, s.grants)
         /\ \A n \in SUBSET {"first_name", "hashed_password"} :
              LET d == [s EXCEPT !.nullable = n] IN
              /\ d \in Schema
              /\ Has(d, s.version, s.tables, s.columns, n, s.unique, s.perms,
                     s.roles, s.grants)
<1>1. Schema = Fieldwise
  BY DEF Schema, Fieldwise, Schemas
<1>2. \A t \in SUBSET Tables : LET d == [s EXCEPT !.tables = t] IN
        /\ d \in Schema
        /\ Has(d, s.version, t, s.columns, s.nullable, s.unique, s.perms, s.roles,
               s.grants)
  BY <1>1, Altered, ZenonT(120) DEF Fieldwise
<1>3. \A p \in SUBSET (SeededPermissions \cup AddressPermissions), r \in SUBSET Roles :
        LET d == [s EXCEPT !.perms = p, !.roles = r] IN
        /\ d \in Schema
        /\ Has(d, s.version, s.tables, s.columns, s.nullable, s.unique, p, r,
               s.grants)
  BY <1>1, Altered, ZenonT(120) DEF Fieldwise
<1>4. \A p \in SUBSET (SeededPermissions \cup AddressPermissions) :
        LET d == [s EXCEPT !.perms = p] IN
        /\ d \in Schema
        /\ Has(d, s.version, s.tables, s.columns, s.nullable, s.unique, p, s.roles,
               s.grants)
  BY <1>1, Altered, ZenonT(120) DEF Fieldwise
<1>5. \A g \in SUBSET (Roles \X (SeededPermissions \cup AddressPermissions)) :
        LET d == [s EXCEPT !.grants = g] IN
        /\ d \in Schema
        /\ Has(d, s.version, s.tables, s.columns, s.nullable, s.unique, s.perms,
               s.roles, g)
  BY <1>1, Altered, ZenonT(120) DEF Fieldwise
<1>6. \A c \in SUBSET Columns, n \in SUBSET {"first_name", "hashed_password"},
         u \in SUBSET {"email", "google_sub"} :
        LET d == [s EXCEPT !.columns = c, !.nullable = n, !.unique = u] IN
        /\ d \in Schema
        /\ Has(d, s.version, s.tables, c, n, u, s.perms, s.roles, s.grants)
  <2> DEFINE d(c, n, u) == [s EXCEPT !.columns = c, !.nullable = n, !.unique = u]
  <2>1. \A c \in SUBSET Columns, n \in SUBSET {"first_name", "hashed_password"},
           u \in SUBSET {"email", "google_sub"} :
          /\ d(c, n, u) \in Fieldwise
          /\ Has(d(c, n, u), s.version, s.tables, c, n, u, s.perms, s.roles,
                 s.grants)
    BY <1>1, Altered, ZenonT(120) DEF Fieldwise
  <2> QED
    BY <1>1, <2>1
<1>7. \A n \in SUBSET {"first_name", "hashed_password"} :
        LET d == [s EXCEPT !.nullable = n] IN
        /\ d \in Schema
        /\ Has(d, s.version, s.tables, s.columns, n, s.unique, s.perms, s.roles,
               s.grants)
  BY <1>1, Altered, ZenonT(120) DEF Fieldwise
<1> QED
  BY <1>2, <1>3, <1>4, <1>5, <1>6, <1>7

\* Create makes of revision 0 revision 1.
LEMMA CreateIs ==
  ASSUME NEW s \in Schema, FieldsOf(s, 0)
  PROVE  LET d == [s EXCEPT !.tables = Tables] IN
         d \in Schema /\ FieldsOf(d, 1)
<1> DEFINE d == [s EXCEPT !.tables = Tables]
<1>1. /\ d \in Schema
      /\ Has(d, s.version, Tables, s.columns, s.nullable, s.unique, s.perms,
             s.roles, s.grants)
  BY AlteredSchema
<1> HIDE DEF d
<1>2. FieldsOf(d, 1)
  BY <1>1, TablesOf, PermissionsOf, GrantsOf, SMTT(60) DEF FieldsOf, Has
<1> QED
  BY <1>1, <1>2 DEF d

\* DropAll makes of revision 1 revision 0.
LEMMA DropAllIs ==
  ASSUME NEW s \in Schema, FieldsOf(s, 1)
  PROVE  LET d == [s EXCEPT !.tables = {}] IN
         d \in Schema /\ FieldsOf(d, 0)
<1> DEFINE d == [s EXCEPT !.tables = {}]
<1>1. /\ d \in Schema
      /\ Has(d, s.version, {}, s.columns, s.nullable, s.unique, s.perms,
             s.roles, s.grants)
  BY AlteredSchema
<1> HIDE DEF d
<1>2. FieldsOf(d, 0)
  BY <1>1, TablesOf, PermissionsOf, GrantsOf, SMTT(60) DEF FieldsOf, Has
<1> QED
  BY <1>1, <1>2 DEF d

\* Seed makes of revision 1 revision 2.
LEMMA SeedIs ==
  ASSUME NEW s \in Schema, FieldsOf(s, 1)
  PROVE  LET d == [s EXCEPT !.perms = @ \cup SeededPermissions, !.roles = @ \cup Roles] IN
         d \in Schema /\ FieldsOf(d, 2)
<1> DEFINE d == [s EXCEPT !.perms = @ \cup SeededPermissions, !.roles = @ \cup Roles]
<1>0. /\ s.perms \cup SeededPermissions \subseteq SeededPermissions \cup AddressPermissions
      /\ s.roles \cup Roles \subseteq Roles
  BY PermissionsOf DEF FieldsOf, Has
<1>1. /\ d \in Schema
      /\ Has(d, s.version, s.tables, s.columns, s.nullable, s.unique,
             s.perms \cup SeededPermissions, s.roles \cup Roles, s.grants)
  BY AlteredSchema, <1>0
<1> HIDE DEF d
<1>2. FieldsOf(d, 2)
  BY <1>1, TablesOf, PermissionsOf, GrantsOf, SMTT(60) DEF FieldsOf, Has
<1> QED
  BY <1>1, <1>2 DEF d

\* Unseed makes of revision 2 revision 1.
LEMMA UnseedIs ==
  ASSUME NEW s \in Schema, FieldsOf(s, 2)
  PROVE  LET d == [s EXCEPT !.perms = {}, !.roles = @ \ Roles] IN
         d \in Schema /\ FieldsOf(d, 1)
<1> DEFINE d == [s EXCEPT !.perms = {}, !.roles = @ \ Roles]
<1>0. s.roles \ Roles \subseteq Roles
  BY DEF FieldsOf, Has
<1>1. /\ d \in Schema
      /\ Has(d, s.version, s.tables, s.columns, s.nullable, s.unique, {},
             s.roles \ Roles, s.grants)
  BY AlteredSchema, <1>0
<1> HIDE DEF d
<1>2. FieldsOf(d, 1)
  BY <1>1, TablesOf, PermissionsOf, GrantsOf, SMTT(60) DEF FieldsOf, Has
<1> QED
  BY <1>1, <1>2 DEF d

\* SeedAddresses makes of revision 3 revision 4.
LEMMA SeedAddressesIs ==
  ASSUME NEW s \in Schema, FieldsOf(s, 3)
  PROVE  LET d == [s EXCEPT !.perms = @ \cup AddressPermissions] IN
         d \in Schema /\ FieldsOf(d, 4)
<1> DEFINE d == [s EXCEPT !.perms = @ \cup AddressPermissions]
<1>0. s.perms \cup AddressPermissions \subseteq SeededPermissions \cup AddressPermissions
  BY PermissionsOf DEF FieldsOf, Has
<1>1. /\ d \in Schema
      /\ Has(d, s.version, s.tables, s.columns, s.nullable, s.unique,
             s.perms \cup AddressPermissions, s.roles, s.grants)
  BY AlteredSchema, <1>0
<1> HIDE DEF d
<1>2. FieldsOf(d, 4)
  BY <1>1, TablesOf, PermissionsOf, GrantsOf, SMTT(60) DEF FieldsOf, Has
<1> QED
  BY <1>1, <1>2 DEF d

\* UnseedAddresses makes of revision 4 revision 3.
LEMMA UnseedAddressesIs ==
  ASSUME NEW s \in Schema, FieldsOf(s, 4)
  PROVE  LET d == [s EXCEPT !.perms = @ \ AddressPermissions] IN
         d \in Schema /\ FieldsOf(d, 3)
<1> DEFINE d == [s EXCEPT !.perms = @ \ AddressPermissions]
<1>0. s.perms \ AddressPermissions \subseteq SeededPermissions \cup AddressPermissions
  BY PermissionsOf DEF FieldsOf, Has
<1>1. /\ d \in Schema
      /\ Has(d, s.version, s.tables, s.columns, s.nullable, s.unique,
             s.perms \ AddressPermissions, s.roles, s.grants)
  BY AlteredSchema, <1>0
<1> HIDE DEF d
<1>2. FieldsOf(d, 3)
  BY <1>1, TablesOf, PermissionsOf, GrantsOf, SMTT(60) DEF FieldsOf, Has
<1> QED
  BY <1>1, <1>2 DEF d

\* DropAddresses makes of revision 5 revision 6.
LEMMA DropAddressesIs ==
  ASSUME NEW s \in Schema, FieldsOf(s, 5)
  PROVE  LET d == [s EXCEPT !.tables = @ \ {"addresses"}] IN
         d \in Schema /\ FieldsOf(d, 6)
<1> DEFINE d == [s EXCEPT !.tables = @ \ {"addresses"}]
<1>0. s.tables \ {"addresses"} \subseteq Tables
  BY TablesOf DEF FieldsOf, Has
<1>1. /\ d \in Schema
      /\ Has(d, s.version, s.tables \ {"addresses"}, s.columns, s.nullable,
             s.unique, s.perms, s.roles, s.grants)
  BY AlteredSchema, <1>0
<1> HIDE DEF d
<1>2. FieldsOf(d, 6)
  BY <1>1, TablesOf, PermissionsOf, GrantsOf, SMTT(60) DEF FieldsOf, Has
<1> QED
  BY <1>1, <1>2 DEF d

\* CreateAddresses makes of revision 6 revision 5.
LEMMA CreateAddressesIs ==
  ASSUME NEW s \in Schema, FieldsOf(s, 6)
  PROVE  LET d == [s EXCEPT !.tables = @ \cup {"addresses"}] IN
         d \in Schema /\ FieldsOf(d, 5)
<1> DEFINE d == [s EXCEPT !.tables = @ \cup {"addresses"}]
<1>0. s.tables \cup {"addresses"} \subseteq Tables
  BY TablesOf, TableNames DEF FieldsOf, Has
<1>1. /\ d \in Schema
      /\ Has(d, s.version, s.tables \cup {"addresses"}, s.columns, s.nullable,
             s.unique, s.perms, s.roles, s.grants)
  BY AlteredSchema, <1>0
<1> HIDE DEF d
<1>2. FieldsOf(d, 5)
  BY <1>1, TablesOf, PermissionsOf, GrantsOf, TableNames DEF FieldsOf, Has
<1> QED
  BY <1>1, <1>2 DEF d

\* AddGoogle makes of revision 6 revision 7.
LEMMA AddGoogleIs ==
  ASSUME NEW s \in Schema, FieldsOf(s, 6)
  PROVE  LET d == [s EXCEPT !.columns = @ \cup {"google_sub", "google_refresh_token"},
            !.nullable = @ \cup {"hashed_password"},
            !.unique = @ \cup {"email", "google_sub"}] IN
         d \in Schema /\ FieldsOf(d, 7)
<1> DEFINE d == [s EXCEPT !.columns = @ \cup {"google_sub", "google_refresh_token"},
            !.nullable = @ \cup {"hashed_password"},
            !.unique = @ \cup {"email", "google_sub"}]
<1>0. /\ s.columns \cup {"google_sub", "google_refresh_token"} = Columns
      /\ s.nullable \cup {"hashed_password"} \subseteq {"first_name", "hashed_password"}
      /\ s.unique \cup {"email", "google_sub"} \subseteq {"email", "google_sub"}
  BY DEF FieldsOf, Has, Columns
<1>1. /\ d \in Schema
      /\ Has(d, s.version, s.tables,
             s.columns \cup {"google_sub", "google_refresh_token"},
             s.nullable \cup {"hashed_password"},
             s.unique \cup {"email", "google_sub"}, s.perms, s.roles, s.grants)
  BY AlteredSchema, <1>0
<1> HIDE DEF d
<1>2. FieldsOf(d, 7)
  BY <1>1, TablesOf, PermissionsOf, GrantsOf, <1>0 DEF FieldsOf, Has
<1> QED
  BY <1>1, <1>2 DEF d

\* AllowNoName makes of revision 7 revision 8.
LEMMA AllowNoNameIs ==
  ASSUME NEW s \in Schema, FieldsOf(s, 7)
  PROVE  LET d == [s EXCEPT !.nullable = @ \cup {"first_name"}] IN
         d \in Schema /\ FieldsOf(d, 8)
<1> DEFINE d == [s EXCEPT !.nullable = @ \cup {"first_name"}]
<1>0. s.nullable \cup {"first_name"} \subseteq {"first_name", "hashed_password"}
  BY DEF FieldsOf, Has
<1>1. /\ d \in Schema
      /\ Has(d, s.version, s.tables, s.columns, s.nullable \cup {"first_name"},
             s.unique, s.perms, s.roles, s.grants)
  BY AlteredSchema, <1>0
<1> HIDE DEF d
<1>2. FieldsOf(d, 8)
  BY <1>1, TablesOf, PermissionsOf, GrantsOf, SMTT(60) DEF FieldsOf, Has
<1> QED
  BY <1>1, <1>2 DEF d

\* RequireName makes of revision 8 revision 7.
LEMMA RequireNameIs ==
  ASSUME NEW s \in Schema, FieldsOf(s, 8)
  PROVE  LET d == [s EXCEPT !.nullable = @ \ {"first_name"}] IN
         d \in Schema /\ FieldsOf(d, 7)
<1> DEFINE d == [s EXCEPT !.nullable = @ \ {"first_name"}]
<1>0. s.nullable \ {"first_name"} \subseteq {"first_name", "hashed_password"}
  BY DEF FieldsOf, Has
<1>1. /\ d \in Schema
      /\ Has(d, s.version, s.tables, s.columns, s.nullable \ {"first_name"},
             s.unique, s.perms, s.roles, s.grants)
  BY AlteredSchema, <1>0
<1> HIDE DEF d
<1>2. FieldsOf(d, 7)
  BY <1>1, TablesOf, PermissionsOf, GrantsOf, SMTT(60) DEF FieldsOf, Has
<1> QED
  BY <1>1, <1>2 DEF d

\* d has the fields of s, but for the grants.
LEMMA GrantsAltered ==
  ASSUME NEW s \in Schema, NEW v \in 2..5, NEW w \in 2..5, FieldsOf(s, v),
         PermissionsAt(v) = PermissionsAt(w)
  PROVE  LET d == [s EXCEPT !.grants = GrantsAt(w)] IN
         d \in Schema /\ FieldsOf(d, w)
<1> DEFINE d == [s EXCEPT !.grants = GrantsAt(w)]
<1>1. GrantsAt(w) \in SUBSET (Roles \X (SeededPermissions \cup AddressPermissions))
  BY DEF GrantsAt, PermissionsAt
<1>2. /\ d \in Schema
      /\ Has(d, s.version, s.tables, s.columns, s.nullable, s.unique, s.perms,
             s.roles, GrantsAt(w))
  BY <1>1, AlteredSchema
<1> HIDE DEF d
<1>3. TablesAt(v) = TablesAt(w)
  BY DEF TablesAt
<1>4. FieldsOf(d, w)
  BY <1>2, <1>3 DEF FieldsOf, Has
<1> QED
  BY <1>2, <1>4 DEF d

\* What GrantSeeded inserts are the grants of revision 3.
LEMMA SeededGrants ==
  {g \in Roles \X SeededPermissions :
     \/ g[1] = "admin" /\ LikeAny(g[2])
     \/ g[1] = "moderator" /\ ModeratorMay(g[2])
     \/ g[1] = "customer" /\ CustomerMay(g[2])}
    = GrantsAt(3)
<1>1. ASSUME NEW role \in Roles, NEW p \in SeededPermissions
      PROVE  /\ p.resource # "address"
             /\ Entitled(role, p) <=> \/ role = "admin" /\ LikeAny(p)
                                      \/ role = "moderator" /\ ModeratorMay(p)
                                      \/ role = "customer" /\ CustomerMay(p)
  <2>1. p.resource # "address"
    BY Resources
  <2> QED
    BY <2>1 DEF Entitled, LikeAny, ModeratorMay, Roles
<1>2. GrantsAt(3) = {g \in Roles \X SeededPermissions :
                       /\ 3 >= (IF g[2].resource = "address" THEN 5 ELSE 3)
                       /\ Entitled(g[1], g[2])}
  BY PermissionsOf DEF GrantsAt
<1> QED
  BY <1>1, <1>2

\* What GrantAddresses inserts is what revision 5 adds.
LEMMA AddressGrants ==
  GrantsAt(4) \cup
    {g \in Roles \X PermissionsAt(4) :
       \/ g[1] = "admin" /\ LikeAddressAny(g[2])
       \/ g[1] = "moderator" /\ LikeAddressAny(g[2])
       \/ g[1] = "customer" /\ LikeAddressOwn(g[2])}
    = GrantsAt(5)
<1>1. ASSUME NEW role \in Roles, NEW p, p.resource = "address"
      PROVE  Entitled(role, p) <=> \/ role = "admin" /\ LikeAddressAny(p)
                                   \/ role = "moderator" /\ LikeAddressAny(p)
                                   \/ role = "customer" /\ LikeAddressOwn(p)
  BY <1>1 DEF Entitled, CustomerMay, LikeAddressAny, LikeAddressOwn, LikeAny, LikeOwn,
     Roles
<1>2. /\ GrantsAt(4) = {g \in Roles \X PermissionsAt(4) :
                          g[2].resource # "address" /\ Entitled(g[1], g[2])}
      /\ GrantsAt(5) = {g \in Roles \X PermissionsAt(4) : Entitled(g[1], g[2])}
  BY PermissionsOf DEF GrantsAt
<1>3. \A p : LikeAddressAny(p) \/ LikeAddressOwn(p) => p.resource = "address"
  BY DEF LikeAddressAny, LikeAddressOwn
<1> QED
  BY <1>1, <1>2, <1>3

\* Every permission has a scope.
LEMMA Scopes ==
  \A p \in SeededPermissions \cup AddressPermissions : LikeOwn(p) \/ LikeAny(p)
  BY DEF SeededPermissions, AddressPermissions, Permissions, LikeOwn, LikeAny

\* GrantSeeded makes of revision 2 revision 3.
LEMMA GrantSeededIs ==
  ASSUME NEW s \in Schema, FieldsOf(s, 2)
  PROVE  LET new == Grant(s, "admin", LikeAny) \cup Grant(s, "moderator", ModeratorMay)
                      \cup Grant(s, "customer", CustomerMay)
             d == [s EXCEPT !.grants = @ \cup new]
         IN d \in Schema /\ FieldsOf(d, 3)
<1> DEFINE new == Grant(s, "admin", LikeAny) \cup Grant(s, "moderator", ModeratorMay)
                    \cup Grant(s, "customer", CustomerMay)
<1>1. s.perms = SeededPermissions /\ s.roles = Roles /\ s.grants = {}
  BY PermissionsOf, GrantsOf DEF FieldsOf, Has
<1>2. new = GrantsAt(3)
  <2>1. new = {g \in Roles \X SeededPermissions :
                 \/ g[1] = "admin" /\ LikeAny(g[2])
                 \/ g[1] = "moderator" /\ ModeratorMay(g[2])
                 \/ g[1] = "customer" /\ CustomerMay(g[2])}
    <3>1. s.perms = SeededPermissions /\ s.roles = Roles
      BY <1>1
    <3> QED
      BY <3>1 DEF Grant, Roles
  <2> HIDE DEF new
  <2> QED
    BY <2>1, SeededGrants
<1>3. s.grants \cup new = GrantsAt(3)
  BY <1>1, <1>2
<1> HIDE DEF new
<1>4. LET d == [s EXCEPT !.grants = GrantsAt(3)] IN d \in Schema /\ FieldsOf(d, 3)
  <2>1. 2 \in 2..5 /\ 3 \in 2..5 /\ PermissionsAt(2) = PermissionsAt(3)
    BY PermissionsOf
  <2> QED
    BY <2>1, GrantsAltered
<1> QED
  BY <1>3, <1>4 DEF new

\* RevokeSeeded makes of revision 3 revision 2.
LEMMA RevokeSeededIs ==
  ASSUME NEW s \in Schema, FieldsOf(s, 3)
  PROVE  LET d == [s EXCEPT !.grants =
                     {g \in @ : ~ (g[1] \in Roles /\ (LikeOwn(g[2]) \/ LikeAny(g[2])))}]
         IN d \in Schema /\ FieldsOf(d, 2)
<1>1. \A g \in s.grants : g[1] \in Roles /\ (LikeOwn(g[2]) \/ LikeAny(g[2]))
  BY Scopes, PermissionsOf DEF FieldsOf, Has, GrantsAt
<1>2. {g \in s.grants : ~ (g[1] \in Roles /\ (LikeOwn(g[2]) \/ LikeAny(g[2])))}
        = GrantsAt(2)
  BY <1>1, GrantsOf
<1>3. LET d == [s EXCEPT !.grants = GrantsAt(2)] IN d \in Schema /\ FieldsOf(d, 2)
  <2>1. 2 \in 2..5 /\ 3 \in 2..5 /\ PermissionsAt(3) = PermissionsAt(2)
    BY PermissionsOf
  <2> QED
    BY <2>1, GrantsAltered
<1> QED
  BY <1>2, <1>3

\* GrantAddresses makes of revision 4 revision 5.
LEMMA GrantAddressesIs ==
  ASSUME NEW s \in Schema, FieldsOf(s, 4)
  PROVE  LET new == Grant(s, "admin", LikeAddressAny)
                      \cup Grant(s, "moderator", LikeAddressAny)
                      \cup Grant(s, "customer", LikeAddressOwn)
             d == [s EXCEPT !.grants = @ \cup new]
         IN /\ s.grants \cap new = {}
            /\ d \in Schema /\ FieldsOf(d, 5)
<1> DEFINE new == Grant(s, "admin", LikeAddressAny)
                    \cup Grant(s, "moderator", LikeAddressAny)
                    \cup Grant(s, "customer", LikeAddressOwn)
<1>1. s.perms = PermissionsAt(4) /\ s.roles = Roles /\ s.grants = GrantsAt(4)
  BY DEF FieldsOf, Has
<1>2. new = {g \in Roles \X PermissionsAt(4) :
               \/ g[1] = "admin" /\ LikeAddressAny(g[2])
               \/ g[1] = "moderator" /\ LikeAddressAny(g[2])
               \/ g[1] = "customer" /\ LikeAddressOwn(g[2])}
  BY <1>1 DEF Grant, Roles
<1>3. s.grants \cup new = GrantsAt(5)
  BY <1>1, <1>2, AddressGrants
<1>4. s.grants \cap new = {}
  <2>1. \A g \in GrantsAt(4) : g[2].resource # "address"
    BY DEF GrantsAt
  <2>2. \A g \in new : g[2].resource = "address"
    BY <1>2 DEF LikeAddressAny, LikeAddressOwn
  <2> QED
    BY <1>1, <2>1, <2>2
<1> HIDE DEF new
<1>5. LET d == [s EXCEPT !.grants = GrantsAt(5)] IN d \in Schema /\ FieldsOf(d, 5)
  <2>1. 4 \in 2..5 /\ 5 \in 2..5 /\ PermissionsAt(4) = PermissionsAt(5)
    BY PermissionsOf
  <2> QED
    BY <2>1, GrantsAltered
<1> QED
  BY <1>3, <1>4, <1>5 DEF new

\* RevokeAddresses makes of revision 5 revision 4.
LEMMA RevokeAddressesIs ==
  ASSUME NEW s \in Schema, FieldsOf(s, 5)
  PROVE  LET d == [s EXCEPT !.grants =
                     {g \in @ : ~ (/\ g[1] \in Roles
                                   /\ LikeAddressOwn(g[2]) \/ LikeAddressAny(g[2]))}]
         IN d \in Schema /\ FieldsOf(d, 4)
<1>1. s.grants = GrantsAt(5)
  BY DEF FieldsOf, Has
<1>2. ASSUME NEW g \in GrantsAt(5)
      PROVE  /\ g[1] \in Roles
             /\ LikeAddressOwn(g[2]) \/ LikeAddressAny(g[2])
                  <=> g[2].resource = "address"
  BY Scopes, PermissionsOf DEF GrantsAt, LikeAddressOwn, LikeAddressAny
<1>3. GrantsAt(4) = {g \in GrantsAt(5) : g[2].resource # "address"}
  BY PermissionsOf DEF GrantsAt
<1>4. {g \in s.grants : ~ (/\ g[1] \in Roles
                           /\ LikeAddressOwn(g[2]) \/ LikeAddressAny(g[2]))}
        = GrantsAt(4)
  BY <1>1, <1>2, <1>3
<1>5. LET d == [s EXCEPT !.grants = GrantsAt(4)] IN d \in Schema /\ FieldsOf(d, 4)
  <2>1. 4 \in 2..5 /\ 5 \in 2..5 /\ PermissionsAt(5) = PermissionsAt(4)
    BY PermissionsOf
  <2> QED
    BY <2>1, GrantsAltered
<1> QED
  BY <1>4, <1>5

-----------------------------------------------------------------------------
(* What a migration does to its command.                                   *)

\* Revisions between which the constraints on users and their roles differ at
\* most for databases without accounts.
Agree(v, w) == (v >= 2 => w >= 2) /\ (v >= 7 <=> w >= 7) /\ (v >= 8 <=> w >= 8)

Free(m) == ~ Overtaken(m) /\ \A n \in Migrators \ {m} : ~ tx[n].wrote

\* m's command goes on from one revision to another.
Migrated(m, from, to, locks) ==
  /\ tx[m].on /\ tx[m].db.version = from
  /\ Free(m)
  /\ tx' = [tx EXCEPT ![m] = [on |-> TRUE, target |-> @.target, db |-> SchemaAt(to),
                              wrote |-> TRUE, locks |-> @.locks \cup locks]]
  /\ UNCHANGED <<db, users, roleOf, outcome>>

\* What is common to all migrations: one ends its command, or makes of the schema
\* of its revision that of the next.
LEMMA MigrateFrame ==
  ASSUME IInv, NEW m \in Migrators, NEW from \in Revisions, NEW to \in Revisions,
         NEW fails, NEW schema, NEW locks,
         Migrate(m, from, to, fails, schema, locks),
         tx[m].db \in Schema /\ FieldsOf(tx[m].db, from)
           => schema \in Schema /\ FieldsOf(schema, to)
  PROVE  /\ tx[m].on /\ tx[m].db.version = from /\ tx[m].db = SchemaAt(from)
         /\ IF to > from THEN tx[m].target > from ELSE tx[m].target < from
         /\ \/ Rollback(m, "failed") /\ (fails \/ Overtaken(m))
            \/ ~ fails /\ Migrated(m, from, to, locks)
<1>1. tx[m].on /\ tx[m].db.version = from /\ tx[m].db = SchemaAt(from)
  BY DEF Migrate, IInv, CommandOK
<1>2. schema \in Schema /\ FieldsOf(schema, to)
  BY <1>1, SchemaFields
<1>3. [schema EXCEPT !.version = to] = SchemaAt(to)
  BY <1>2, Stamp
<1>4. CASE fails \/ Overtaken(m)
  BY <1>1, <1>4 DEF Migrate
<1>5. CASE ~ (fails \/ Overtaken(m))
  <2>1. Migrated(m, from, to, locks)
    BY <1>1, <1>3, <1>5 DEF Migrate, Migrated, Free
  <2> QED
    BY <1>1, <1>5, <2>1 DEF Migrate
<1> QED
  BY <1>4, <1>5

\* A migration fails for one of the reasons that explain it, or leaves a revision
\* that the rows fit, one nearer to the target; without locks, the same rows fit
\* the one before.
Advances(m) ==
  \/ Rollback(m, "failed") /\ Explained(m)
  \/ \E from, to \in Revisions, locks \in SUBSET {"users", "roles"} :
       /\ Migrated(m, from, to, locks)
       /\ \/ to = from + 1 /\ tx[m].target > from
          \/ to = from - 1 /\ tx[m].target < from
       /\ Fits(from) => Fits(to)
       /\ locks = {} => Agree(from, to)

\* Create creates tables in the order of their foreign keys.
LEMMA CreateStep ==
  ASSUME IInv, NEW m \in Migrators, Create(m)
  PROVE  Advances(m)
<1> DEFINE s == tx[m].db
           fails == CannotCreate(InitialTables, s.tables)
           schema == [s EXCEPT !.tables = Tables]
<1>1. s \in Schema /\ FieldsOf(s, 0) => schema \in Schema /\ FieldsOf(schema, 1)
  BY CreateIs
<1>2. Migrate(m, 0, 1, fails, schema, {})
  BY DEF Create
<1> HIDE DEF schema
<1>3. /\ s = SchemaAt(0) /\ s.version = 0
      /\ IF 1 > 0 THEN tx[m].target > 0 ELSE tx[m].target < 0
      /\ \/ Rollback(m, "failed") /\ (fails \/ Overtaken(m))
         \/ ~ fails /\ Migrated(m, 0, 1, {})
  BY <1>1, <1>2, MigrateFrame
<1>4. ~ fails
  <2>1. s.tables = {}
    BY <1>3, SchemaFields, TablesOf DEF FieldsOf, Has
  <2>2. ~ CannotCreate(InitialTables, {})
    BY DEF CannotCreate, InitialTables, References
  <2> QED
    BY <2>1, <2>2
<1>5. (Fits(0) => Fits(1)) /\ Agree(0, 1)
  BY DEF Fits, Agree
<1> QED
  BY <1>3, <1>4, <1>5 DEF Advances, Explained, Overtaken

\* DropAll drops tables in the reverse order.
LEMMA DropAllStep ==
  ASSUME IInv, NEW m \in Migrators, DropAll(m)
  PROVE  Advances(m)
<1> DEFINE s == tx[m].db
           fails == CannotDrop(DroppedTables, s.tables)
           schema == [s EXCEPT !.tables = {}]
<1>1. s \in Schema /\ FieldsOf(s, 1) => schema \in Schema /\ FieldsOf(schema, 0)
  BY DropAllIs
<1>2. Migrate(m, 1, 0, fails, schema, {"users", "roles"})
  BY DEF DropAll
<1> HIDE DEF fails, schema
<1>3. /\ s = SchemaAt(1) /\ s.version = 1
      /\ IF 0 > 1 THEN tx[m].target > 1 ELSE tx[m].target < 1
      /\ \/ Rollback(m, "failed") /\ (fails \/ Overtaken(m))
         \/ ~ fails /\ Migrated(m, 1, 0, {"users", "roles"})
  BY <1>1, <1>2, MigrateFrame
<1> USE DEF fails
<1>4. ~ fails
  <2>1. s.tables = Tables
    BY <1>3, SchemaFields, TablesOf DEF FieldsOf, Has
  <2>2. ~ CannotDrop(DroppedTables, Tables)
    BY TableNames DEF CannotDrop, DroppedTables, References
  <2> QED
    BY <2>1, <2>2
<1>5. Fits(1) => Fits(0)
  BY DEF Fits
<1> QED
  BY <1>3, <1>4, <1>5 DEF Advances, Explained, Overtaken

\* Seed finds no permission or role in its way.
LEMMA SeedStep ==
  ASSUME IInv, NEW m \in Migrators, Seed(m)
  PROVE  Advances(m)
<1> DEFINE s == tx[m].db
           fails == s.perms \cap SeededPermissions # {} \/ s.roles \cap Roles # {}
           schema == [s EXCEPT !.perms = @ \cup SeededPermissions, !.roles = @ \cup Roles]
<1>1. s \in Schema /\ FieldsOf(s, 1) => schema \in Schema /\ FieldsOf(schema, 2)
  BY SeedIs
<1>2. Migrate(m, 1, 2, fails, schema, {})
  BY DEF Seed
<1> HIDE DEF fails, schema
<1>3. /\ s = SchemaAt(1) /\ s.version = 1
      /\ IF 2 > 1 THEN tx[m].target > 1 ELSE tx[m].target < 1
      /\ \/ Rollback(m, "failed") /\ (fails \/ Overtaken(m))
         \/ ~ fails /\ Migrated(m, 1, 2, {})
  BY <1>1, <1>2, MigrateFrame
<1> USE DEF fails
<1>4. ~ fails
  BY <1>3, SchemaFields, TablesOf, PermissionsOf, GrantsOf DEF FieldsOf, Has
<1>5. (Fits(1) => Fits(2)) /\ Agree(1, 2)
  BY DEF Fits, Agree
<1> QED
  BY <1>3, <1>4, <1>5 DEF Advances, Explained, Overtaken

\* Unseed fails only while an account has a role.
LEMMA UnseedStep ==
  ASSUME IInv, NEW m \in Migrators, Unseed(m)
  PROVE  Advances(m)
<1> DEFINE s == tx[m].db
           fails == \/ \E g \in s.grants : g[1] \in Roles \/ g[2] \in s.perms
                    \/ \E x \in roleOf : x[2] \in Roles
           schema == [s EXCEPT !.perms = {}, !.roles = @ \ Roles]
<1>1. s \in Schema /\ FieldsOf(s, 2) => schema \in Schema /\ FieldsOf(schema, 1)
  BY UnseedIs
<1>2. Migrate(m, 2, 1, fails, schema, {"roles"})
  BY DEF Unseed
<1> HIDE DEF fails, schema
<1>3. /\ s = SchemaAt(2) /\ s.version = 2
      /\ IF 1 > 2 THEN tx[m].target > 2 ELSE tx[m].target < 2
      /\ \/ Rollback(m, "failed") /\ (fails \/ Overtaken(m))
         \/ ~ fails /\ Migrated(m, 2, 1, {"roles"})
  BY <1>1, <1>2, MigrateFrame
<1> USE DEF fails
<1>4. s.grants = {}
  BY <1>3, SchemaFields, TablesOf, PermissionsOf, GrantsOf DEF FieldsOf, Has
<1>5. fails <=> \E u \in Users : Exists(u)
  <2>1. roleOf = {<<u, "customer">> : u \in {u \in Users : Exists(u)}}
    BY DEF IInv
  <2>2. \A x \in roleOf : x[2] = "customer"
    BY <2>1
  <2>3. fails <=> roleOf # {}
    BY <1>4, <2>2 DEF Roles
  <2> QED
    BY <2>1, <2>3
<1>6. ~ fails => (Fits(2) => Fits(1))
  BY <1>5 DEF Fits
<1> HIDE DEF fails
<1> QED
  BY <1>3, <1>5, <1>6 DEF Advances, Explained, Overtaken

\* GrantSeeded inserts no grant twice.
LEMMA GrantSeededStep ==
  ASSUME IInv, NEW m \in Migrators, GrantSeeded(m)
  PROVE  Advances(m)
<1> DEFINE s == tx[m].db
           new == Grant(s, "admin", LikeAny) \cup Grant(s, "moderator", ModeratorMay)
                    \cup Grant(s, "customer", CustomerMay)
           fails == s.grants \cap new # {}
           schema == [s EXCEPT !.grants = @ \cup new]
<1>1. s \in Schema /\ FieldsOf(s, 2) => schema \in Schema /\ FieldsOf(schema, 3)
  BY GrantSeededIs
<1>2. Migrate(m, 2, 3, fails, schema, {})
  BY DEF GrantSeeded
<1> HIDE DEF fails, schema
<1>3. /\ s = SchemaAt(2) /\ s.version = 2
      /\ IF 3 > 2 THEN tx[m].target > 2 ELSE tx[m].target < 2
      /\ \/ Rollback(m, "failed") /\ (fails \/ Overtaken(m))
         \/ ~ fails /\ Migrated(m, 2, 3, {})
  BY <1>1, <1>2, MigrateFrame
<1> USE DEF fails
<1>4. s.grants = {}
  BY <1>3, SchemaFields, TablesOf, PermissionsOf, GrantsOf DEF FieldsOf, Has
<1>5. (Fits(2) => Fits(3)) /\ Agree(2, 3)
  BY DEF Fits, Agree
<1> QED
  BY <1>3, <1>4, <1>5 DEF Advances, Explained, Overtaken

\* RevokeSeeded cannot fail.
LEMMA RevokeSeededStep ==
  ASSUME IInv, NEW m \in Migrators, RevokeSeeded(m)
  PROVE  Advances(m)
<1> DEFINE s == tx[m].db
           fails == FALSE
           schema == [s EXCEPT !.grants =
                        {g \in @ : ~ (g[1] \in Roles /\ (LikeOwn(g[2]) \/ LikeAny(g[2])))}]
<1>1. s \in Schema /\ FieldsOf(s, 3) => schema \in Schema /\ FieldsOf(schema, 2)
  BY RevokeSeededIs
<1>2. Migrate(m, 3, 2, fails, schema, {})
  BY DEF RevokeSeeded
<1> HIDE DEF fails, schema
<1>3. /\ s = SchemaAt(3) /\ s.version = 3
      /\ IF 2 > 3 THEN tx[m].target > 3 ELSE tx[m].target < 3
      /\ \/ Rollback(m, "failed") /\ (fails \/ Overtaken(m))
         \/ ~ fails /\ Migrated(m, 3, 2, {})
  BY <1>1, <1>2, MigrateFrame
<1> USE DEF fails
<1>4. (Fits(3) => Fits(2)) /\ Agree(3, 2)
  BY DEF Fits, Agree
<1> QED
  BY <1>3, <1>4 DEF Advances, Explained, Overtaken

\* SeedAddresses inserts no permission twice.
LEMMA SeedAddressesStep ==
  ASSUME IInv, NEW m \in Migrators, SeedAddresses(m)
  PROVE  Advances(m)
<1> DEFINE s == tx[m].db
           fails == s.perms \cap AddressPermissions # {}
           schema == [s EXCEPT !.perms = @ \cup AddressPermissions]
<1>1. s \in Schema /\ FieldsOf(s, 3) => schema \in Schema /\ FieldsOf(schema, 4)
  BY SeedAddressesIs
<1>2. Migrate(m, 3, 4, fails, schema, {})
  BY DEF SeedAddresses
<1> HIDE DEF fails, schema
<1>3. /\ s = SchemaAt(3) /\ s.version = 3
      /\ IF 4 > 3 THEN tx[m].target > 3 ELSE tx[m].target < 3
      /\ \/ Rollback(m, "failed") /\ (fails \/ Overtaken(m))
         \/ ~ fails /\ Migrated(m, 3, 4, {})
  BY <1>1, <1>2, MigrateFrame
<1> USE DEF fails
<1>4. ~ fails
  BY <1>3, SchemaFields, TablesOf, PermissionsOf, GrantsOf DEF FieldsOf, Has
<1>5. (Fits(3) => Fits(4)) /\ Agree(3, 4)
  BY DEF Fits, Agree
<1> QED
  BY <1>3, <1>4, <1>5 DEF Advances, Explained, Overtaken

\* UnseedAddresses finds its permissions granted to nobody.
LEMMA UnseedAddressesStep ==
  ASSUME IInv, NEW m \in Migrators, UnseedAddresses(m)
  PROVE  Advances(m)
<1> DEFINE s == tx[m].db
           fails == \E g \in s.grants : g[2] \in AddressPermissions
           schema == [s EXCEPT !.perms = @ \ AddressPermissions]
<1>1. s \in Schema /\ FieldsOf(s, 4) => schema \in Schema /\ FieldsOf(schema, 3)
  BY UnseedAddressesIs
<1>2. Migrate(m, 4, 3, fails, schema, {})
  BY DEF UnseedAddresses
<1> HIDE DEF fails, schema
<1>3. /\ s = SchemaAt(4) /\ s.version = 4
      /\ IF 3 > 4 THEN tx[m].target > 4 ELSE tx[m].target < 4
      /\ \/ Rollback(m, "failed") /\ (fails \/ Overtaken(m))
         \/ ~ fails /\ Migrated(m, 4, 3, {})
  BY <1>1, <1>2, MigrateFrame
<1> USE DEF fails
<1>4. ~ fails
  <2>1. s.grants = GrantsAt(3)
    BY <1>3, SchemaFields, GrantsOf DEF FieldsOf, Has
  <2> QED
    BY <2>1, PermissionsOf DEF GrantsAt
<1>5. (Fits(4) => Fits(3)) /\ Agree(4, 3)
  BY DEF Fits, Agree
<1> QED
  BY <1>3, <1>4, <1>5 DEF Advances, Explained, Overtaken

\* GrantAddresses inserts no grant twice.
LEMMA GrantAddressesStep ==
  ASSUME IInv, NEW m \in Migrators, GrantAddresses(m)
  PROVE  Advances(m)
<1> DEFINE s == tx[m].db
           new == Grant(s, "admin", LikeAddressAny)
                    \cup Grant(s, "moderator", LikeAddressAny)
                    \cup Grant(s, "customer", LikeAddressOwn)
           fails == s.grants \cap new # {}
           schema == [s EXCEPT !.grants = @ \cup new]
<1>1. s \in Schema /\ FieldsOf(s, 4) => schema \in Schema /\ FieldsOf(schema, 5)
  BY GrantAddressesIs
<1>2. Migrate(m, 4, 5, fails, schema, {})
  BY DEF GrantAddresses
<1> HIDE DEF fails, schema
<1>3. /\ s = SchemaAt(4) /\ s.version = 4
      /\ IF 5 > 4 THEN tx[m].target > 4 ELSE tx[m].target < 4
      /\ \/ Rollback(m, "failed") /\ (fails \/ Overtaken(m))
         \/ ~ fails /\ Migrated(m, 4, 5, {})
  BY <1>1, <1>2, MigrateFrame
<1> USE DEF fails
<1>4. ~ fails
  <2>1. s \in Schema /\ FieldsOf(s, 4)
    BY <1>3, SchemaFields
  <2> HIDE DEF s
  <2> QED
    BY <2>1, GrantAddressesIs
<1>5. (Fits(4) => Fits(5)) /\ Agree(4, 5)
  BY DEF Fits, Agree
<1> QED
  BY <1>3, <1>4, <1>5 DEF Advances, Explained, Overtaken

\* RevokeAddresses cannot fail.
LEMMA RevokeAddressesStep ==
  ASSUME IInv, NEW m \in Migrators, RevokeAddresses(m)
  PROVE  Advances(m)
<1> DEFINE s == tx[m].db
           fails == FALSE
           schema == [s EXCEPT !.grants =
                        {g \in @ : ~ (/\ g[1] \in Roles
                                      /\ LikeAddressOwn(g[2]) \/ LikeAddressAny(g[2]))}]
<1>1. s \in Schema /\ FieldsOf(s, 5) => schema \in Schema /\ FieldsOf(schema, 4)
  BY RevokeAddressesIs
<1>2. Migrate(m, 5, 4, fails, schema, {})
  BY DEF RevokeAddresses
<1> HIDE DEF fails, schema
<1>3. /\ s = SchemaAt(5) /\ s.version = 5
      /\ IF 4 > 5 THEN tx[m].target > 5 ELSE tx[m].target < 5
      /\ \/ Rollback(m, "failed") /\ (fails \/ Overtaken(m))
         \/ ~ fails /\ Migrated(m, 5, 4, {})
  BY <1>1, <1>2, MigrateFrame
<1> USE DEF fails
<1>4. (Fits(5) => Fits(4)) /\ Agree(5, 4)
  BY DEF Fits, Agree
<1> QED
  BY <1>3, <1>4 DEF Advances, Explained, Overtaken

\* DropAddresses drops a table that nothing refers to.
LEMMA DropAddressesStep ==
  ASSUME IInv, NEW m \in Migrators, DropAddresses(m)
  PROVE  Advances(m)
<1> DEFINE s == tx[m].db
           fails == \/ "addresses" \notin s.tables
                    \/ \E t \in s.tables : "addresses" \in References(t)
           schema == [s EXCEPT !.tables = @ \ {"addresses"}]
<1>1. s \in Schema /\ FieldsOf(s, 5) => schema \in Schema /\ FieldsOf(schema, 6)
  BY DropAddressesIs
<1>2. Migrate(m, 5, 6, fails, schema, {})
  BY DEF DropAddresses
<1> HIDE DEF fails, schema
<1>3. /\ s = SchemaAt(5) /\ s.version = 5
      /\ IF 6 > 5 THEN tx[m].target > 5 ELSE tx[m].target < 5
      /\ \/ Rollback(m, "failed") /\ (fails \/ Overtaken(m))
         \/ ~ fails /\ Migrated(m, 5, 6, {})
  BY <1>1, <1>2, MigrateFrame
<1> USE DEF fails
<1>4. ~ fails
  <2>1. s.tables = Tables
    BY <1>3, SchemaFields, TablesOf DEF FieldsOf, Has
  <2> QED
    BY <2>1, TableNames DEF References
<1>5. (Fits(5) => Fits(6)) /\ Agree(5, 6)
  BY DEF Fits, Agree
<1> QED
  BY <1>3, <1>4, <1>5 DEF Advances, Explained, Overtaken

\* CreateAddresses creates a table whose foreign key has its table.
LEMMA CreateAddressesStep ==
  ASSUME IInv, NEW m \in Migrators, CreateAddresses(m)
  PROVE  Advances(m)
<1> DEFINE s == tx[m].db
           fails == "addresses" \in s.tables \/ ~ References("addresses") \subseteq s.tables
           schema == [s EXCEPT !.tables = @ \cup {"addresses"}]
<1>1. s \in Schema /\ FieldsOf(s, 6) => schema \in Schema /\ FieldsOf(schema, 5)
  BY CreateAddressesIs
<1>2. Migrate(m, 6, 5, fails, schema, {"users"})
  BY DEF CreateAddresses
<1> HIDE DEF fails, schema
<1>3. /\ s = SchemaAt(6) /\ s.version = 6
      /\ IF 5 > 6 THEN tx[m].target > 6 ELSE tx[m].target < 6
      /\ \/ Rollback(m, "failed") /\ (fails \/ Overtaken(m))
         \/ ~ fails /\ Migrated(m, 6, 5, {"users"})
  BY <1>1, <1>2, MigrateFrame
<1> USE DEF fails
<1>4. ~ fails
  <2>1. s.tables = Tables \ {"addresses"}
    BY <1>3, SchemaFields, TablesOf DEF FieldsOf, Has
  <2> QED
    BY <2>1, TableNames DEF References
<1>5. Fits(6) => Fits(5)
  BY DEF Fits
<1> QED
  BY <1>3, <1>4, <1>5 DEF Advances, Explained, Overtaken

\* AddGoogle fails only for emails that are not unique.
LEMMA AddGoogleStep ==
  ASSUME IInv, NEW m \in Migrators, AddGoogle(m)
  PROVE  Advances(m)
<1> DEFINE s == tx[m].db
           fails == \E u, v \in Users : u # v /\ SameEmail(u, v)
           schema == [s EXCEPT !.columns = @ \cup {"google_sub", "google_refresh_token"},
                     !.nullable = @ \cup {"hashed_password"},
                     !.unique = @ \cup {"email", "google_sub"}]
<1>1. s \in Schema /\ FieldsOf(s, 6) => schema \in Schema /\ FieldsOf(schema, 7)
  BY AddGoogleIs
<1>2. Migrate(m, 6, 7, fails, schema, {"users"})
  BY DEF AddGoogle
<1> HIDE DEF fails, schema
<1>3. /\ s = SchemaAt(6) /\ s.version = 6
      /\ IF 7 > 6 THEN tx[m].target > 6 ELSE tx[m].target < 6
      /\ \/ Rollback(m, "failed") /\ (fails \/ Overtaken(m))
         \/ ~ fails /\ Migrated(m, 6, 7, {"users"})
  BY <1>1, <1>2, MigrateFrame
<1> USE DEF fails
<1>4. ~ fails => (Fits(6) => Fits(7))
  BY DEF Fits
<1> QED
  BY <1>3, <1>4 DEF Advances, Explained, Overtaken

\* RemoveGoogle always fails.
LEMMA RemoveGoogleStep ==
  ASSUME IInv, NEW m \in Migrators, RemoveGoogle(m)
  PROVE  Advances(m)
<1>1. Rollback(m, "failed") /\ tx[m].db.version = 7 /\ tx[m].target < 7
  BY DEF RemoveGoogle, Migrate
<1> QED
  BY <1>1 DEF Advances, Explained

\* AllowNoName cannot fail.
LEMMA AllowNoNameStep ==
  ASSUME IInv, NEW m \in Migrators, AllowNoName(m)
  PROVE  Advances(m)
<1> DEFINE s == tx[m].db
           fails == FALSE
           schema == [s EXCEPT !.nullable = @ \cup {"first_name"}]
<1>1. s \in Schema /\ FieldsOf(s, 7) => schema \in Schema /\ FieldsOf(schema, 8)
  BY AllowNoNameIs
<1>2. Migrate(m, 7, 8, fails, schema, {"users"})
  BY DEF AllowNoName
<1> HIDE DEF fails, schema
<1>3. /\ s = SchemaAt(7) /\ s.version = 7
      /\ IF 8 > 7 THEN tx[m].target > 7 ELSE tx[m].target < 7
      /\ \/ Rollback(m, "failed") /\ (fails \/ Overtaken(m))
         \/ ~ fails /\ Migrated(m, 7, 8, {"users"})
  BY <1>1, <1>2, MigrateFrame
<1> USE DEF fails
<1>4. Fits(7) => Fits(8)
  BY DEF Fits
<1> QED
  BY <1>3, <1>4 DEF Advances, Explained, Overtaken

\* RequireName fails only for a missing name.
LEMMA RequireNameStep ==
  ASSUME IInv, NEW m \in Migrators, RequireName(m)
  PROVE  Advances(m)
<1> DEFINE s == tx[m].db
           fails == \E u \in Users : Exists(u) /\ users[u].name = Null
           schema == [s EXCEPT !.nullable = @ \ {"first_name"}]
<1>1. s \in Schema /\ FieldsOf(s, 8) => schema \in Schema /\ FieldsOf(schema, 7)
  BY RequireNameIs
<1>2. Migrate(m, 8, 7, fails, schema, {"users"})
  BY DEF RequireName
<1> HIDE DEF fails, schema
<1>3. /\ s = SchemaAt(8) /\ s.version = 8
      /\ IF 7 > 8 THEN tx[m].target > 8 ELSE tx[m].target < 8
      /\ \/ Rollback(m, "failed") /\ (fails \/ Overtaken(m))
         \/ ~ fails /\ Migrated(m, 8, 7, {"users"})
  BY <1>1, <1>2, MigrateFrame
<1> USE DEF fails
<1>4. ~ fails => (Fits(8) => Fits(7))
  BY DEF Fits
<1> QED
  BY <1>3, <1>4 DEF Advances, Explained, Overtaken

\* Every migration fails for a reason, or goes on.
LEMMA CommandStep ==
  ASSUME IInv, NEW m \in Migrators, Upgrade(m) \/ Downgrade(m)
  PROVE  Advances(m)
  BY CreateStep, SeedStep, GrantSeededStep, SeedAddressesStep, GrantAddressesStep,
     DropAddressesStep, AddGoogleStep, AllowNoNameStep, DropAllStep, UnseedStep,
     RevokeSeededStep, UnseedAddressesStep, RevokeAddressesStep, CreateAddressesStep,
     RemoveGoogleStep, RequireNameStep DEF Upgrade, Downgrade

-----------------------------------------------------------------------------
(* The invariant.                                                          *)

\* What another step leaves a command that it does not touch.
LEMMA CommandKept ==
  ASSUME NEW m \in Migrators, tx[m].on, CommandOK(m), tx'[m] = tx[m],
         outcome'[m] = outcome[m], UNCHANGED <<db, users>>
  PROVE  CommandOK(m)'
  BY DEF CommandOK, Fits, SameEmail, Exists

\* A command that is not about to commit anything only has to have begun well.
LEMMA CommandBegun ==
  ASSUME NEW m \in Migrators, ~ tx[m].wrote, CommandOK(m), tx'[m] = tx[m],
         outcome'[m] = outcome[m]
  PROVE  CommandOK(m)'
  BY DEF CommandOK

\* A transaction is of its type when its fields are.
LEMMA TransactionTypes ==
  ASSUME NEW t \in Revisions, NEW v \in Revisions, NEW w \in BOOLEAN,
         NEW l \in SUBSET {"users", "roles"}
  PROVE  [on |-> TRUE, target |-> t, db |-> SchemaAt(v), wrote |-> w, locks |-> l]
           \in Transaction
  BY SchemaFields DEF Transaction

\* The transaction of a command that has ended has its type.
LEMMA EndedType == Ended \in Transaction
  BY SchemaFields, EmptyIsBase DEF Transaction, Ended

\* The invariant holds in a new database.
LEMMA InitInv == Init => IInv
<1> SUFFICES ASSUME Init PROVE IInv
  OBVIOUS
<1>1. db \in Schema /\ db.version = 0 /\ SchemaMatchesVersion
  BY EmptyIsBase, SchemaFields DEF Init, SchemaMatchesVersion
<1>2. TypeOK
  BY <1>1, EndedType DEF Init, TypeOK, Outcomes
<1>3. \A u \in Users : ~ Exists(u)
  BY DEF Init, Exists
<1>4. Fits(db.version)
  BY <1>1, <1>3 DEF Fits
<1>5. roleOf = {<<u, "customer">> : u \in {u \in Users : Exists(u)}}
  BY <1>3 DEF Init
<1>6. \A m \in Migrators : tx[m] = Ended /\ ~ tx[m].on /\ ~ tx[m].wrote
  BY DEF Init, Ended
<1> QED
  BY <1>1, <1>2, <1>4, <1>5, <1>6 DEF IInv, OneWriter

\* A registration fits the committed schema, and the one a command without locks
\* is about to commit.
LEMMA InsertStep ==
  ASSUME IInv, NEW u \in Users, NEW row \in Row, Insert(u, row)
  PROVE  IInv'
<1>1. /\ users' = [users EXCEPT ![u] = row] /\ ~ Exists(u)
      /\ roleOf' = roleOf \cup {<<u, "customer">>}
      /\ UNCHANGED <<db, tx, outcome>>
      /\ \A m \in Migrators : tx[m].locks = {}
  BY DEF Insert, MayInsert
<1>2. /\ users'[u] = row /\ row # NoRow
      /\ \A v \in Users \ {u} : users'[v] = users[v]
  BY <1>1, NoRowAssumption DEF IInv, TypeOK
<1>3. TypeOK'
  BY <1>1 DEF IInv, TypeOK, Roles
<1>4. /\ db.version >= 2
      /\ row.google => db.version >= 7
      /\ row.name = Null => db.version >= 8
      /\ db.version >= 7 => \A v \in Users : Exists(v) => users[v].email # row.email
  <2>1. FieldsOf(db, db.version) /\ db.version \in Revisions
    BY SchemaFields DEF IInv, SchemaMatchesVersion, TypeOK, Schema
  <2> QED
    BY <2>1 DEF Insert, MayInsert, FieldsOf, Has
<1>5. ASSUME NEW w \in Revisions, Fits(w), Agree(db.version, w)
      PROVE  Fits(w)'
  <2>1. db.version \in Revisions
    BY DEF IInv, TypeOK, Schema
  <2>2. w >= 2
    BY <1>4, <1>5, <2>1 DEF Agree
  <2>3. ASSUME w >= 7, NEW x \in Users, NEW y \in Users, SameEmail(x, y)'
        PROVE  x = y
    BY <1>2, <1>4, <1>5, <2>1, <2>3 DEF Agree, Fits, SameEmail, Exists
  <2>4. ASSUME NEW x \in Users, Exists(x)'
        PROVE  /\ users'[x].google => w >= 7
               /\ users'[x].name = Null => w >= 8
    BY <1>2, <1>4, <1>5, <2>1, <2>4 DEF Agree, Fits, Exists
  <2> QED
    BY <2>2, <2>3, <2>4 DEF Fits
<1>6. Fits(db.version)'
  BY <1>1, <1>5 DEF IInv, Agree, TypeOK, Schema
<1>7. ASSUME NEW m \in Migrators, tx[m].on
      PROVE  CommandOK(m)'
  <2>1. CommandOK(m) /\ tx[m].db.version \in Revisions
    BY <1>7 DEF IInv, TypeOK, Transaction, Schema
  <2>2. tx[m].wrote => Agree(db.version, tx[m].db.version)
    BY <1>1, <2>1 DEF CommandOK, Agree
  <2>3. tx[m].wrote => Fits(tx[m].db.version)'
    BY <1>1, <1>5, <2>1, <2>2 DEF CommandOK
  <2> QED
    BY <1>1, <2>1, <2>3 DEF CommandOK
<1>8. roleOf' = {<<v, "customer">> : v \in {v \in Users : Exists(v)'}}
  <2>1. \A v \in Users : Exists(v)' <=> Exists(v) \/ v = u
    BY <1>2 DEF Exists
  <2> QED
    BY <1>1, <2>1 DEF IInv
<1> QED
  BY <1>1, <1>3, <1>6, <1>7, <1>8 DEF IInv, SchemaMatchesVersion, OneWriter

\* A command begins with the committed schema.
LEMMA BeginStep ==
  ASSUME IInv, NEW m \in Migrators, NEW target \in Targets, Begin(m, target)
  PROVE  IInv'
<1> DEFINE new == [on |-> TRUE, target |-> target, db |-> db, wrote |-> FALSE,
                   locks |-> {}]
<1>1. /\ tx' = [tx EXCEPT ![m] = new] /\ ~ tx[m].on /\ target # db.version
      /\ outcome' = [outcome EXCEPT ![m] = "none"]
      /\ UNCHANGED <<db, users, roleOf>>
  BY DEF Begin
<1>2. new \in Transaction
  BY TargetsAssumption DEF IInv, TypeOK, Transaction
<1>3. TypeOK'
  BY <1>1, <1>2 DEF IInv, TypeOK, Outcomes
<1>4. /\ tx'[m] = new /\ outcome'[m] = "none"
      /\ \A n \in Migrators \ {m} : tx'[n] = tx[n] /\ outcome'[n] = outcome[n]
  BY <1>1 DEF IInv, TypeOK
<1>5. CommandOK(m)' /\ tx'[m].on /\ ~ tx'[m].wrote
  BY <1>1, <1>4 DEF CommandOK, IInv, SchemaMatchesVersion
<1>6. ASSUME NEW n \in Migrators \ {m}
      PROVE  IF tx'[n].on THEN CommandOK(n)' ELSE tx'[n] = Ended
  BY <1>1, <1>4, CommandKept DEF IInv
<1> QED
  BY <1>1, <1>3, <1>4, <1>5, <1>6 DEF IInv, SchemaMatchesVersion, Fits, SameEmail,
     Exists, OneWriter

\* A command that fails or dies changes nothing.
LEMMA RollbackStep ==
  ASSUME IInv, NEW m \in Migrators, NEW how \in Outcomes, Rollback(m, how)
  PROVE  IInv'
<1>1. /\ tx' = [tx EXCEPT ![m] = Ended] /\ outcome' = [outcome EXCEPT ![m] = how]
      /\ UNCHANGED <<db, users, roleOf>>
  BY DEF Rollback
<1>2. TypeOK'
  BY <1>1, EndedType DEF IInv, TypeOK
<1>3. /\ tx'[m] = Ended
      /\ \A n \in Migrators \ {m} : tx'[n] = tx[n] /\ outcome'[n] = outcome[n]
  BY <1>1 DEF IInv, TypeOK
<1>4. ~ Ended.on /\ ~ Ended.wrote
  BY DEF Ended
<1>5. ASSUME NEW n \in Migrators \ {m}
      PROVE  IF tx'[n].on THEN CommandOK(n)' ELSE tx'[n] = Ended
  BY <1>1, <1>3, CommandKept DEF IInv
<1> QED
  BY <1>1, <1>2, <1>3, <1>4, <1>5 DEF IInv, SchemaMatchesVersion, Fits, SameEmail,
     Exists, OneWriter

\* A migration moves its command to a revision that the rows fit, and no other
\* command holds the version row.
LEMMA MigratedStep ==
  ASSUME IInv, NEW m \in Migrators, NEW from \in Revisions, NEW to \in Revisions,
         NEW locks \in SUBSET {"users", "roles"}, Migrated(m, from, to, locks),
         Fits(from) => Fits(to), locks = {} => Agree(from, to)
  PROVE  IInv'
<1> DEFINE new == [on |-> TRUE, target |-> tx[m].target, db |-> SchemaAt(to),
                   wrote |-> TRUE, locks |-> tx[m].locks \cup locks]
<1>1. /\ tx' = [tx EXCEPT ![m] = new] /\ tx[m].on /\ tx[m].db.version = from
      /\ UNCHANGED <<db, users, roleOf, outcome>>
  BY DEF Migrated
<1>2. new \in Transaction
  <2>1. tx[m].target \in Revisions /\ tx[m].locks \cup locks \in SUBSET {"users", "roles"}
    BY DEF IInv, TypeOK, Transaction
  <2> QED
    BY <2>1, TransactionTypes
<1>3. TypeOK'
  BY <1>1, <1>2 DEF IInv, TypeOK
<1>4. /\ tx'[m] = new
      /\ \A n \in Migrators \ {m} : tx'[n] = tx[n]
  BY <1>1 DEF IInv, TypeOK
<1>5. CommandOK(m)
  BY <1>1 DEF IInv
<1>6. tx[m].wrote \/ from = db.version
  BY <1>1 DEF Migrated, Free, Overtaken
<1>7. Fits(to)
  BY <1>1, <1>5, <1>6 DEF CommandOK, IInv
<1>8. new.locks = {} => Agree(db.version, to)
  <2> SUFFICES ASSUME tx[m].locks = {}, locks = {} PROVE Agree(db.version, to)
    OBVIOUS
  <2>1. db.version \in Revisions
    BY DEF IInv, TypeOK, Schema
  <2>2. Agree(db.version, from)
    BY <1>1, <1>5, <1>6, <2>1 DEF CommandOK, Agree
  <2> QED
    BY <2>1, <2>2 DEF Agree
<1>9. CommandOK(m)'
  <2>1. SchemaAt(to).version = to
    BY SchemaFields
  <2>2. Fits(to)'
    BY <1>1, <1>7 DEF Fits, SameEmail, Exists
  <2>3. outcome[m] = "none" /\ tx[m].target \in Targets
    BY <1>5 DEF CommandOK
  <2> QED
    BY <1>1, <1>4, <1>8, <2>1, <2>2, <2>3 DEF CommandOK, Agree
<1>10. ASSUME NEW n \in Migrators \ {m}
       PROVE  IF tx'[n].on THEN CommandOK(n)' ELSE tx'[n] = Ended
  BY <1>1, <1>4, CommandKept DEF IInv
<1>11. OneWriter'
  BY <1>4 DEF Migrated, Free, OneWriter
<1> QED
  BY <1>1, <1>3, <1>4, <1>9, <1>10, <1>11 DEF IInv, SchemaMatchesVersion, Fits,
     SameEmail, Exists

\* A commit publishes a revision that the rows fit, as nobody else has written.
LEMMA CommitStep ==
  ASSUME IInv, NEW m \in Migrators, Commit(m)
  PROVE  IInv'
<1>1. /\ tx[m].on /\ tx[m].db.version = tx[m].target
      /\ db' = tx[m].db
      /\ tx' = [tx EXCEPT ![m] = Ended]
      /\ outcome' = [outcome EXCEPT ![m] = "done"]
  BY DEF Commit
<1>2. CommandOK(m) /\ tx[m].wrote /\ tx[m].db.version \in Revisions
  BY <1>1 DEF IInv, CommandOK, TypeOK, Transaction, Schema
<1>3. /\ tx'[m] = Ended
      /\ \A n \in Migrators \ {m} : tx'[n] = tx[n] /\ outcome'[n] = outcome[n]
  BY <1>1 DEF IInv, TypeOK
<1>4. db' \in Schema /\ SchemaMatchesVersion' /\ db'.version = tx[m].db.version
  BY <1>1, <1>2, SchemaFields DEF CommandOK, SchemaMatchesVersion
<1>5. /\ users' \in [Users -> Row \cup {NoRow}]
      /\ \A u \in Users : users'[u] = users[u]
      /\ roleOf' = roleOf
  <2>1. CASE "users" \in tx[m].db.tables
    BY <2>1 DEF Commit, IInv, TypeOK
  <2>2. CASE "users" \notin tx[m].db.tables
    <3>1. tx[m].db.version < 2
      BY <1>2, <2>2, SchemaFields, TableNames DEF CommandOK, FieldsOf, Has, TablesAt
    <3>2. \A u \in Users : ~ Exists(u)
      BY <1>2, <3>1 DEF CommandOK, Fits
    <3>3. roleOf = {} /\ \A u \in Users : users[u] = NoRow
      BY <3>2 DEF IInv, Exists
    <3> QED
      BY <2>2, <3>3 DEF Commit
  <2> QED
    BY <2>1, <2>2
<1>6. TypeOK'
  BY <1>1, <1>4, <1>5, EndedType DEF IInv, TypeOK, Outcomes
<1>7. Fits(db.version)'
  BY <1>2, <1>4, <1>5 DEF CommandOK, Fits, SameEmail, Exists
<1>8. roleOf' = {<<u, "customer">> : u \in {u \in Users : Exists(u)'}}
  BY <1>5 DEF IInv, Exists
<1>9. ~ Ended.on /\ ~ Ended.wrote
  BY DEF Ended
<1>10. ASSUME NEW n \in Migrators \ {m}
       PROVE  IF tx'[n].on THEN CommandOK(n)' ELSE tx'[n] = Ended
  <2>1. ~ tx[n].wrote
    BY <1>2 DEF IInv, OneWriter
  <2> QED
    BY <1>3, <2>1, CommandBegun DEF IInv
<1> QED
  BY <1>3, <1>4, <1>6, <1>7, <1>8, <1>9, <1>10 DEF IInv, OneWriter

\* Every step keeps the invariant.
LEMMA StepInv == IInv /\ [Next]_vars => IInv'
<1> SUFFICES ASSUME IInv, [Next]_vars PROVE IInv'
  OBVIOUS
<1>1. ASSUME NEW u \in Users, NEW row \in Row, Insert(u, row)
      PROVE  IInv'
  BY <1>1, InsertStep
<1>2. ASSUME NEW m \in Migrators, NEW target \in Targets, Begin(m, target)
      PROVE  IInv'
  BY <1>2, BeginStep
<1>3. ASSUME NEW m \in Migrators, Upgrade(m) \/ Downgrade(m)
      PROVE  IInv'
  <2>1. Advances(m)
    BY <1>3, CommandStep
  <2> QED
    BY <2>1, RollbackStep, MigratedStep DEF Advances, Outcomes
<1>4. ASSUME NEW m \in Migrators, Commit(m) PROVE IInv'
  BY <1>4, CommitStep
<1>5. ASSUME NEW m \in Migrators, Crash(m) PROVE IInv'
  BY <1>5, RollbackStep DEF Crash, Outcomes
<1>6. CASE UNCHANGED vars
  BY <1>6 DEF vars, IInv, TypeOK, SchemaMatchesVersion, Fits, SameEmail, Exists,
     OneWriter, CommandOK
<1> QED
  BY <1>1, <1>2, <1>3, <1>4, <1>5, <1>6 DEF Next

\* Whatever commands, rollbacks and registrations came before, the invariant
\* holds: a command works on the schema of its revision, and the rows fit it.
THEOREM Invariance == Spec => []IInv
  BY InitInv, StepInv, PTL DEF Spec

\* The schema, the rows and the commands have their types.
THEOREM TypesHold == Spec => []TypeOK
<1>1. IInv => TypeOK
  BY DEF IInv
<1> QED
  BY <1>1, Invariance, PTL

\* However a database reached a revision, it has the schema, the roles, the
\* permissions and the grants of that revision (all upgrade() and downgrade()).
THEOREM SchemasMatch == Spec => []SchemaMatchesVersion
<1>1. IInv => SchemaMatchesVersion
  BY DEF IInv
<1> QED
  BY <1>1, Invariance, PTL

\* At every revision a customer changes only what is theirs, and an
\* administrator may do what a moderator may (the three INSERTs of each grant).
THEOREM PrivilegesHold == Spec => []PrivilegesNest
<1>1. IInv => PrivilegesNest
  <2> SUFFICES ASSUME IInv, NEW g \in db.grants
               PROVE  /\ g[1] = "customer" /\ g[2].scope = "any" => g[2].verb = "read"
                      /\ g[1] = "moderator" => <<"admin", g[2]>> \in db.grants
    BY DEF PrivilegesNest
  <2> DEFINE v == db.version
  <2>1. v \in Revisions /\ db.grants = GrantsAt(v)
    BY SchemaFields DEF IInv, SchemaMatchesVersion, TypeOK, Schema, FieldsOf, Has
  <2>2. PICK role \in Roles, p \in PermissionsAt(v) :
          /\ g = <<role, p>>
          /\ v >= (IF p.resource = "address" THEN 5 ELSE 3)
          /\ Entitled(role, p)
    BY <2>1 DEF GrantsAt
  <2>3. role = "customer" /\ p.scope = "any" => p.verb = "read"
    BY <2>2 DEF Entitled, CustomerMay, LikeAny, LikeOwn
  <2>4. role = "moderator" => Entitled("admin", p)
    BY <2>2 DEF Entitled
  <2>5. role = "moderator" => <<"admin", p>> \in GrantsAt(v)
    BY <2>2, <2>4 DEF GrantsAt, Roles
  <2> QED
    BY <2>1, <2>2, <2>3, <2>5
<1> QED
  BY <1>1, Invariance, PTL

\* No registration beside a command leaves an account without its role, and no
\* downgrade takes the role of an account away (_assign_default_role, and the
\* DELETE FROM roles that its foreign key refuses).
THEOREM RolesHold == Spec => []AccountsHaveRoles
<1>1. IInv => AccountsHaveRoles
  <2> SUFFICES ASSUME IInv PROVE AccountsHaveRoles
    OBVIOUS
  <2>1. roleOf = {<<u, "customer">> : u \in {u \in Users : Exists(u)}}
    BY DEF IInv
  <2>2. db.version \in Revisions /\ (db.version >= 2 => db.roles = Roles)
    BY SchemaFields DEF IInv, SchemaMatchesVersion, TypeOK, Schema, FieldsOf, Has
  <2>3. \A u \in Users : Exists(u) => "customer" \in db.roles
    BY <2>2 DEF IInv, Fits, Roles
  <2>4. ASSUME NEW u \in Users, Exists(u) PROVE <<u, "customer">> \in roleOf
    BY <2>1, <2>4
  <2>5. ASSUME NEW x \in roleOf PROVE Exists(x[1]) /\ x[2] \in db.roles
    <3>1. PICK u \in Users : Exists(u) /\ x = <<u, "customer">>
      BY <2>1
    <3> QED
      BY <3>1, <2>3
  <2> QED
    BY <2>4, <2>5 DEF AccountsHaveRoles
<1> QED
  BY <1>1, Invariance, PTL

\* The committed rows satisfy the committed constraints, the rows inserted
\* while a command was checking them included.
THEOREM RowsFit == Spec => []RowsFitSchema
<1>1. IInv => RowsFitSchema
  <2> SUFFICES ASSUME IInv, NEW u \in Users, Exists(u)
               PROVE  RowsFitSchema!(u)
    BY DEF RowsFitSchema
  <2>1. Fits(db.version) /\ db.version \in Revisions /\ FieldsOf(db, db.version)
    BY SchemaFields DEF IInv, SchemaMatchesVersion, TypeOK, Schema
  <2>2. "users" \in db.tables
    BY <2>1, TableNames DEF Fits, FieldsOf, Has, TablesAt
  <2>3. "email" \in db.unique => db.version >= 7
    BY <2>1 DEF FieldsOf, Has
  <2>4. /\ users[u].google => "google_sub" \in db.columns
        /\ users[u].name = Null => "first_name" \in db.nullable
    BY <2>1 DEF Fits, FieldsOf, Has, Columns
  <2> QED
    BY <2>1, <2>2, <2>3, <2>4 DEF Fits, SameEmail
<1> QED
  BY <1>1, Invariance, PTL

\* A command fails only because another was faster, because of rows that do not
\* fit, because of roles in use, or in the downgrade that cannot be compiled.
THEOREM FailuresHaveReasons == Spec => FailuresExplained
<1> DEFINE Reasons == \A m \in Migrators :
                        tx[m].on /\ outcome'[m] = "failed" => Explained(m)
<1>1. IInv /\ [Next]_vars => [Reasons]_vars
  <2> SUFFICES ASSUME IInv, Next, NEW m \in Migrators, tx[m].on, outcome'[m] = "failed"
               PROVE  Explained(m)
    OBVIOUS
  <2>1. outcome[m] = "none" /\ outcome \in [Migrators -> Outcomes]
    BY DEF IInv, CommandOK, TypeOK
  <2>2. PICK n \in Migrators : Upgrade(n) \/ Downgrade(n)
    BY <2>1 DEF Next, Insert, Begin, Commit, Crash, Rollback
  <2>3. Advances(n)
    BY <2>2, CommandStep
  <2>4. Rollback(n, "failed") /\ Explained(n)
    BY <2>1, <2>3 DEF Advances, Migrated
  <2>5. n = m
    BY <2>1, <2>4 DEF Rollback
  <2> QED
    BY <2>4, <2>5
<1>2. Spec => [][Reasons]_vars
  BY <1>1, Invariance, PTL DEF Spec
<1> QED
  BY <1>2 DEF FailuresExplained

-----------------------------------------------------------------------------
(* What the service sees is a Deployment.                                  *)

\* A revision accepts the rows that fit it.
LEMMA FitsAccepted ==
  ASSUME NEW v \in Revisions, Fits(v)
  PROVE  Served!Accepts(v)
  BY DEF Fits, SameEmail, Exists, Served!Accepts, Served!Suits, Served!Exists

\* An INSERT that the committed schema admits is a registration.
LEMMA InsertRegisters ==
  ASSUME IInv, NEW u \in Users, NEW row \in Row, Insert(u, row)
  PROVE  Served!Register(u, row)
<1>1. /\ ~ Exists(u) /\ users' = [users EXCEPT ![u] = row]
      /\ roleOf' = roleOf \cup {<<u, "customer">>} /\ db' = db
  BY DEF Insert
<1>2. Fits(db.version)' /\ db'.version \in Revisions
  BY InsertStep DEF IInv, TypeOK, Schema
<1>3. Served!Accepts(db.version)'
  BY <1>2 DEF Fits, SameEmail, Exists, Served!Accepts, Served!Suits, Served!Exists
<1> QED
  BY <1>1, <1>3 DEF Served!Register, Served!Exists, Exists

\* A commit deploys the revision that was asked for: the accounts, those that
\* registered since the command began included, fit it, and all stay.
LEMMA CommitDeploys ==
  ASSUME IInv, NEW m \in Migrators, Commit(m)
  PROVE  \E target \in Targets : Served!Deploy(target)
<1>1. /\ tx[m].on /\ tx[m].db.version = tx[m].target /\ db' = tx[m].db
  BY DEF Commit
<1>2. /\ CommandOK(m) /\ tx[m].wrote /\ tx[m].target \in Targets
      /\ tx[m].target \in Revisions /\ Fits(tx[m].target)
  BY <1>1 DEF IInv, CommandOK, TypeOK, Transaction
<1>3. users' = users /\ roleOf' = roleOf
  <2>1. CASE "users" \in tx[m].db.tables
    BY <2>1 DEF Commit
  <2>2. CASE "users" \notin tx[m].db.tables
    <3>1. tx[m].target < 2
      BY <1>1, <1>2, <2>2, SchemaFields, TableNames DEF CommandOK, FieldsOf, Has, TablesAt
    <3>2. \A u \in Users : users[u] = NoRow
      BY <1>2, <3>1 DEF Fits, Exists
    <3>3. roleOf = {} /\ users = [u \in Users |-> NoRow]
      BY <3>2 DEF IInv, TypeOK, Exists
    <3> QED
      BY <2>2, <3>3 DEF Commit
  <2> QED
    BY <2>1, <2>2
<1> QED
  BY <1>1, <1>2, <1>3, FitsAccepted DEF Served!Deploy

\* The service sees its database change by registrations and whole deployments
\* only, whatever commands interleave with them, fail or die (begin_transaction
\* in env.py, around all the migrations of a command).
THEOREM DeploymentsAtomic == Spec => ImplementsDeployment
<1>1. Init => Served!DeploymentInit
  BY DEF Init, Empty, Served!DeploymentInit
<1>2. IInv /\ [Next]_vars => [Served!DeploymentNext]_(Served!database)
  <2> SUFFICES ASSUME IInv, [Next]_vars
               PROVE  Served!DeploymentNext \/ UNCHANGED Served!database
    OBVIOUS
  <2>1. ASSUME NEW u \in Users, NEW row \in Row, Insert(u, row)
        PROVE  Served!DeploymentNext
    BY <2>1, InsertRegisters DEF Served!DeploymentNext, Served!Row, Row
  <2>2. ASSUME NEW m \in Migrators, Commit(m)
        PROVE  Served!DeploymentNext
    BY <2>2, CommitDeploys DEF Served!DeploymentNext
  <2>3. ASSUME NEW m \in Migrators, Upgrade(m) \/ Downgrade(m)
        PROVE  UNCHANGED Served!database
    BY <2>3, CommandStep DEF Advances, Migrated, Rollback, Served!database
  <2>4. ASSUME NEW m \in Migrators, NEW target \in Targets, Begin(m, target) \/ Crash(m)
        PROVE  UNCHANGED Served!database
    BY <2>4 DEF Begin, Crash, Rollback, Served!database
  <2>5. ASSUME UNCHANGED vars PROVE UNCHANGED Served!database
    BY <2>5 DEF vars, Served!database
  <2>6. ASSUME NEW m \in Migrators, Crash(m) PROVE UNCHANGED Served!database
    BY <2>6 DEF Crash, Rollback, Served!database
  <2> QED
    BY <2>1, <2>2, <2>3, <2>4, <2>5, <2>6 DEF Next
<1> QED
  BY <1>1, <1>2, Invariance, PTL DEF Spec, ImplementsDeployment, Served!DeploymentSpec

\* No account and no role of one is lost to a deployment, be it a downgrade to
\* the revision before the tables were created (the foreign key of users_roles
\* that refuses DELETE FROM roles while an account has one).
THEOREM AccountsOutlastDeployments == Spec => Served!AccountsLast
<1>1. TypeOK /\ [Served!DeploymentNext]_(Served!database)
        => [Served!Lasting]_(Served!database)
  BY DEF TypeOK, Served!DeploymentNext, Served!Register, Served!Deploy,
     Served!Lasting, Served!Exists, Served!database
<1> QED
  BY <1>1, TypesHold, DeploymentsAtomic, PTL
  DEF ImplementsDeployment, Served!DeploymentSpec, Served!AccountsLast

\* How many migrations m's command has still to run.
Remaining(m) ==
  LET v == tx[m].db.version
      w == tx[m].target
  IN IF v <= w THEN w - v ELSE v - w

\* A command comes one migration nearer to its target with each of its steps,
\* until it commits or ends, and no other command moves it.
CommandsAdvance ==
  [][\A m \in Migrators : tx[m].on /\ tx'[m].on =>
       \/ tx'[m] = tx[m]
       \/ tx'[m].target = tx[m].target /\ Remaining(m)' = Remaining(m) - 1]_vars

\* Each migration brings its command one revision nearer to its target, so a
\* command runs at most eight of them (the chain of down_revisions).
THEOREM CommandsComeNearer == Spec => CommandsAdvance
<1> DEFINE Nearer ==
      \A m \in Migrators : tx[m].on /\ tx'[m].on =>
        \/ tx'[m] = tx[m]
        \/ tx'[m].target = tx[m].target /\ Remaining(m)' = Remaining(m) - 1
<1>1. IInv /\ [Next]_vars => [Nearer]_vars
  <2> SUFFICES ASSUME IInv, Next, NEW m \in Migrators, tx[m].on, tx'[m].on,
                      tx'[m] # tx[m]
               PROVE  tx'[m].target = tx[m].target /\ Remaining(m)' = Remaining(m) - 1
    OBVIOUS
  <2>1. ~ Ended.on /\ tx \in [Migrators -> Transaction]
    BY DEF Ended, IInv, TypeOK
  <2>2. Upgrade(m) \/ Downgrade(m)
    <3>1. ASSUME NEW n \in Migrators, Upgrade(n) \/ Downgrade(n)
          PROVE  n = m
      BY <2>1, <3>1, CommandStep DEF Advances, Migrated, Rollback
    <3> QED
      BY <2>1, <3>1 DEF Next, Insert, Begin, Commit, Crash, Rollback
  <2>3. ~ Rollback(m, "failed")
    BY <2>1 DEF Rollback
  <2>4. PICK from \in Revisions, to \in Revisions, locks \in SUBSET {"users", "roles"} :
          /\ Migrated(m, from, to, locks)
          /\ \/ to = from + 1 /\ tx[m].target > from
             \/ to = from - 1 /\ tx[m].target < from
    BY <2>2, <2>3, CommandStep DEF Advances
  <2>5. /\ tx[m].db.version = from
        /\ tx'[m].target = tx[m].target /\ tx'[m].db = SchemaAt(to)
    BY <2>1, <2>4 DEF Migrated
  <2>6. tx'[m].db.version = to /\ tx[m].target \in Revisions
    BY <2>1, <2>5, SchemaFields DEF Transaction
  <2> QED
    BY <2>4, <2>5, <2>6 DEF Remaining
<1>2. Spec => [][Nearer]_vars
  BY <1>1, Invariance, PTL DEF Spec
<1> QED
  BY <1>2 DEF CommandsAdvance
=============================================================================
