-------------------------- MODULE SchemaMigrations --------------------------
(***************************************************************************)
(* The schema of the database, its roles and permissions, and the Alembic  *)
(* commands that change them while the service runs.                       *)
(*                                                                         *)
(* A command runs all its migrations in one transaction, and PostgreSQL's  *)
(* DDL is transactional: others see nothing of it before its commit.  A    *)
(* migration first runs its statements, then UPDATEs the version row, whose *)
(* lock keeps other commands out until the transaction ends.               *)
(***************************************************************************)
EXTENDS Integers

CONSTANTS
  Users,      \* users.id
  Emails,
  Names,      \* values of first_name and last_name
  Migrators,  \* alembic processes
  Targets,    \* revisions a command may ask for
  Null, NoRow

\* The revisions, in the order of their down_revision.
Base == 0
Revisions == Base..8

ASSUME TargetsAssumption == Targets \subseteq Revisions
ASSUME NullAssumption == Null \notin Names

VARIABLES
  db,      \* committed: the version, the schema, roles and permissions
  users,   \* committed rows of users
  roleOf,  \* committed rows of users_roles
  tx,      \* migrator -> its transaction
  outcome  \* migrator -> how its last command ended

vars == <<db, users, roleOf, tx, outcome>>

-----------------------------------------------------------------------------
(* Tables, columns, roles and permissions.                                 *)

InitialTables ==
  <<"permissions", "roles", "users", "addresses", "refresh_tokens",
    "roles_permissions", "users_roles">>

DroppedTables ==
  <<"users_roles", "roles_permissions", "refresh_tokens", "addresses", "users",
    "roles", "permissions">>

Tables == {InitialTables[i] : i \in 1..7}

\* The tables a foreign key of t refers to.
References(t) ==
  {u \in {"users"} : t \in {"addresses", "refresh_tokens", "users_roles"}}
    \cup {u \in {"roles"} : t \in {"roles_permissions", "users_roles"}}
    \cup {u \in {"permissions"} : t = "roles_permissions"}

\* CREATE TABLE and DROP TABLE, one after the other.
CannotCreate(order, tables) ==
  \E i \in 1..7 :
    \/ order[i] \in tables
    \/ \E u \in References(order[i]) : u \notin tables \cup {order[j] : j \in 1..(i - 1)}

CannotDrop(order, tables) ==
  \E i \in 1..7 :
    \/ order[i] \notin tables
    \/ \E t \in tables \ {order[j] : j \in 1..i} : order[i] \in References(t)

Roles == {"admin", "moderator", "customer"}

Crud == {"create", "read", "update", "delete"}

\* A permission is "resource:verb:scope".
Permissions(resources, verbs) ==
  [resource: resources, verb: verbs, scope: {"own", "any"}]

SeededPermissions ==
  Permissions({"product", "order", "cart", "category", "review"}, Crud)
    \cup Permissions({"user"}, Crud \ {"create"})
    \cup Permissions({"payment", "shipment", "role"}, {"read", "update"})
    \cup Permissions({"wishlist"}, Crud \ {"update"})

AddressPermissions == Permissions({"address"}, Crud)

\* INSERT INTO roles_permissions SELECT ... WHERE roles.name = role AND p.
Grant(s, role, Matches(_)) ==
  {role} \X {p \in s.perms : role \in s.roles /\ Matches(p)}

LikeAny(p) == p.scope = "any"
LikeOwn(p) == p.scope = "own"

ModeratorMay(p) ==
  p.resource \in {"product", "order", "category", "review"} /\ LikeAny(p)

CustomerMay(p) ==
  \/ p.resource \in {"product", "review"} /\ p.verb = "read" /\ LikeAny(p)
  \/ p.resource \in {"cart", "wishlist", "order", "review"} /\ LikeOwn(p)
  \/ p.resource = "user" /\ p.verb \in {"read", "update", "delete"} /\ LikeOwn(p)
  \/ p.resource = "role" /\ p.verb = "read" /\ LikeOwn(p)
  \/ p.resource = "shipment" /\ p.verb \in {"read", "update"} /\ LikeOwn(p)

LikeAddressAny(p) == p.resource = "address" /\ LikeAny(p)
LikeAddressOwn(p) == p.resource = "address" /\ LikeOwn(p)

-----------------------------------------------------------------------------
Columns == {"google_sub", "google_refresh_token"}

Schema ==
  [version: Revisions,
   tables: SUBSET Tables,
   columns: SUBSET Columns,                           \* those of users added later
   nullable: SUBSET {"first_name", "hashed_password"}, \* of users
   unique: SUBSET {"email", "google_sub"},            \* of users
   perms: SUBSET (SeededPermissions \cup AddressPermissions),
   roles: SUBSET Roles,
   grants: SUBSET (Roles \X (SeededPermissions \cup AddressPermissions))]

Empty ==
  [version |-> Base, tables |-> {}, columns |-> {}, nullable |-> {},
   unique |-> {}, perms |-> {}, roles |-> {}, grants |-> {}]

\* A row of users; one with a Google account has no password.
Row == [email: Emails, name: Names \cup {Null}, google: BOOLEAN]

ASSUME NoRowAssumption == NoRow \notin Row

Transaction ==
  [on: BOOLEAN,
   target: Revisions,
   db: Schema,       \* what it would commit
   wrote: BOOLEAN,   \* it holds the version row
   locks: SUBSET {"users", "roles"}]

Ended == [on |-> FALSE, target |-> Base, db |-> Empty, wrote |-> FALSE, locks |-> {}]

Outcomes == {"none", "done", "failed", "crashed"}

Exists(u) == users[u] # NoRow

Init ==
  /\ db = Empty
  /\ users = [u \in Users |-> NoRow]
  /\ roleOf = {}
  /\ tx = [m \in Migrators |-> Ended]
  /\ outcome = [m \in Migrators |-> "none"]

SameEmail(u, v) == Exists(u) /\ Exists(v) /\ users[u].email = users[v].email

-----------------------------------------------------------------------------
(* The service.                                                            *)

\* Mutant: INSERTs do not wait for the migrations.
MayInsertAnytime(u, row) ==
  /\ "users" \in db.tables
  /\ "customer" \in db.roles
  /\ row.google => "google_sub" \in db.columns /\ "hashed_password" \in db.nullable
  /\ row.name = Null => "first_name" \in db.nullable
  /\ "email" \in db.unique =>
       \A v \in Users : Exists(v) => users[v].email # row.email

\* A registration or first Google sign-in: INSERTs into users and users_roles
\* that the committed schema admits.  They wait for a migration that has
\* altered users or deleted roles.  Rows of users older than revision 7 come
\* from earlier releases, which knew no Google accounts.
MayInsert(u, row) ==
  /\ \A m \in Migrators : tx[m].locks = {}
  /\ "users" \in db.tables
  /\ "customer" \in db.roles
  /\ row.google => "google_sub" \in db.columns /\ "hashed_password" \in db.nullable
  /\ row.name = Null => "first_name" \in db.nullable
  /\ "email" \in db.unique =>
       \A v \in Users : Exists(v) => users[v].email # row.email

Insert(u, row) ==
  /\ ~ Exists(u)
  /\ MayInsert(u, row)
  /\ users' = [users EXCEPT ![u] = row]
  /\ roleOf' = roleOf \cup {<<u, "customer">>}
  /\ UNCHANGED <<db, tx, outcome>>

-----------------------------------------------------------------------------
(* The commands.                                                           *)

\* alembic upgrade or downgrade: migrate.sh asks for the head.
Begin(m, target) ==
  /\ ~ tx[m].on
  /\ target # db.version
  /\ tx' = [tx EXCEPT ![m] = [on |-> TRUE, target |-> target, db |-> db,
                              wrote |-> FALSE, locks |-> {}]]
  /\ outcome' = [outcome EXCEPT ![m] = "none"]
  /\ UNCHANGED <<db, users, roleOf>>

\* Mutant: a command that fails is tried again.
RollbackAndRetry(m, how) ==
  /\ tx' = [tx EXCEPT ![m] = [on |-> TRUE, target |-> @.target, db |-> db,
                              wrote |-> FALSE, locks |-> {}]]
  /\ outcome' = [outcome EXCEPT ![m] = how]
  /\ UNCHANGED <<db, users, roleOf>>

Rollback(m, how) ==
  /\ tx' = [tx EXCEPT ![m] = Ended]
  /\ outcome' = [outcome EXCEPT ![m] = how]
  /\ UNCHANGED <<db, users, roleOf>>

\* Another command has committed a migration in between: the UPDATE of the
\* version row finds no row to change.
Overtaken(m) == ~ tx[m].wrote /\ tx[m].db.version # db.version

\* One migration of m's command, from one revision to the next or previous one.
Migrate(m, from, to, fails, schema, locks) ==
  /\ tx[m].on
  /\ tx[m].db.version = from
  /\ IF to > from THEN tx[m].target > from ELSE tx[m].target < from
  /\ \A n \in Migrators \ {m} : ~ tx[n].wrote
  /\ IF fails \/ Overtaken(m)
       THEN Rollback(m, "failed")
       ELSE /\ tx' = [tx EXCEPT ![m] =
                        [on |-> TRUE, target |-> @.target,
                         db |-> [schema EXCEPT !.version = to],
                         wrote |-> TRUE, locks |-> @.locks \cup locks]]
            /\ UNCHANGED <<db, users, roleOf, outcome>>

\* 647bb39177dc initial migration
Create(m) ==
  LET s == tx[m].db IN
  Migrate(m, 0, 1, CannotCreate(InitialTables, s.tables),
          [s EXCEPT !.tables = Tables], {})

\* Mutant: the tables are dropped in the order of their creation.
DropInOrder(m) ==
  LET s == tx[m].db IN
  Migrate(m, 1, 0, CannotDrop(InitialTables, s.tables),
          [s EXCEPT !.tables = {}], {"users", "roles"})

DropAll(m) ==
  LET s == tx[m].db IN
  Migrate(m, 1, 0, CannotDrop(DroppedTables, s.tables),
          [s EXCEPT !.tables = {}], {"users", "roles"})

\* 2e7c3f4adb13 insert roles and permissions
Seed(m) ==
  LET s == tx[m].db IN
  Migrate(m, 1, 2, s.perms \cap SeededPermissions # {} \/ s.roles \cap Roles # {},
          [s EXCEPT !.perms = @ \cup SeededPermissions, !.roles = @ \cup Roles], {})

\* Mutant: the permissions stay.
UnseedRoles(m) ==
  LET s == tx[m].db IN
  Migrate(m, 2, 1, \/ \E g \in s.grants : g[1] \in Roles
                   \/ \E x \in roleOf : x[2] \in Roles,
          [s EXCEPT !.roles = @ \ Roles], {"roles"})

Unseed(m) ==
  LET s == tx[m].db IN
  Migrate(m, 2, 1, \/ \E g \in s.grants : g[1] \in Roles \/ g[2] \in s.perms
                   \/ \E x \in roleOf : x[2] \in Roles,
          [s EXCEPT !.perms = {}, !.roles = @ \ Roles], {"roles"})

\* d7c640485c92 insert role-permission relationship
GrantSeeded(m) ==
  LET s == tx[m].db
      new == Grant(s, "admin", LikeAny) \cup Grant(s, "moderator", ModeratorMay)
               \cup Grant(s, "customer", CustomerMay)
  IN Migrate(m, 2, 3, s.grants \cap new # {}, [s EXCEPT !.grants = @ \cup new], {})

RevokeSeeded(m) ==
  LET s == tx[m].db IN
  Migrate(m, 3, 2, FALSE,
          [s EXCEPT !.grants =
             {g \in @ : ~ (g[1] \in Roles /\ (LikeOwn(g[2]) \/ LikeAny(g[2])))}], {})

\* e50c8d6ae792 insert roles and permissions for addresses
SeedAddresses(m) ==
  LET s == tx[m].db IN
  Migrate(m, 3, 4, s.perms \cap AddressPermissions # {},
          [s EXCEPT !.perms = @ \cup AddressPermissions], {})

UnseedAddresses(m) ==
  LET s == tx[m].db IN
  Migrate(m, 4, 3, \E g \in s.grants : g[2] \in AddressPermissions,
          [s EXCEPT !.perms = @ \ AddressPermissions], {})

\* Mutant: 'address%' also matches what customers may do to any address.
GrantAddressesWide(m) ==
  LET s == tx[m].db
      LikeAddress(p) == p.resource = "address"
      new == Grant(s, "admin", LikeAddressAny) \cup Grant(s, "moderator", LikeAddressAny)
               \cup Grant(s, "customer", LikeAddress)
  IN Migrate(m, 4, 5, s.grants \cap new # {}, [s EXCEPT !.grants = @ \cup new], {})

\* 3910cb318116 insert roles and permissions relation for addresses
GrantAddresses(m) ==
  LET s == tx[m].db
      new == Grant(s, "admin", LikeAddressAny) \cup Grant(s, "moderator", LikeAddressAny)
               \cup Grant(s, "customer", LikeAddressOwn)
  IN Migrate(m, 4, 5, s.grants \cap new # {}, [s EXCEPT !.grants = @ \cup new], {})

RevokeAddresses(m) ==
  LET s == tx[m].db IN
  Migrate(m, 5, 4, FALSE,
          [s EXCEPT !.grants =
             {g \in @ : ~ (/\ g[1] \in Roles
                           /\ LikeAddressOwn(g[2]) \/ LikeAddressAny(g[2]))}], {})

\* 0c8b31395efc address table deleted
DropAddresses(m) ==
  LET s == tx[m].db IN
  Migrate(m, 5, 6, \/ "addresses" \notin s.tables
                   \/ \E t \in s.tables : "addresses" \in References(t),
          [s EXCEPT !.tables = @ \ {"addresses"}], {})

\* Mutant: the table that comes back is called address.
CreateAddress(m) ==
  LET s == tx[m].db IN
  Migrate(m, 6, 5, "addresses" \in s.tables \/ ~ References("addresses") \subseteq s.tables,
          [s EXCEPT !.tables = @ \cup {"address"}], {"users"})

CreateAddresses(m) ==
  LET s == tx[m].db IN
  Migrate(m, 6, 5, "addresses" \in s.tables \/ ~ References("addresses") \subseteq s.tables,
          [s EXCEPT !.tables = @ \cup {"addresses"}], {"users"})

\* 148735856383 Add oauth google fields to user model
AddGoogle(m) ==
  LET s == tx[m].db IN
  Migrate(m, 6, 7, \E u, v \in Users : u # v /\ SameEmail(u, v),
          [s EXCEPT !.columns = @ \cup {"google_sub", "google_refresh_token"},
                    !.nullable = @ \cup {"hashed_password"},
                    !.unique = @ \cup {"email", "google_sub"}], {"users"})

\* op.drop_constraint(None, ...) cannot be compiled: its first statement fails.
RemoveGoogle(m) == Migrate(m, 7, 6, TRUE, tx[m].db, {"users"})

\* 97adac3c29d7 Fix user model
AllowNoName(m) ==
  LET s == tx[m].db IN
  Migrate(m, 7, 8, FALSE, [s EXCEPT !.nullable = @ \cup {"first_name"}], {"users"})

RequireName(m) ==
  LET s == tx[m].db IN
  Migrate(m, 8, 7, \E u \in Users : Exists(u) /\ users[u].name = Null,
          [s EXCEPT !.nullable = @ \ {"first_name"}], {"users"})

\* Mutant: every migration commits (transaction_per_migration).
CommitEach(m) ==
  /\ tx[m].on
  /\ tx[m].wrote
  /\ db' = tx[m].db
  /\ IF "users" \in tx[m].db.tables
       THEN UNCHANGED <<users, roleOf>>
       ELSE /\ users' = [u \in Users |-> NoRow]
            /\ roleOf' = {}
  /\ tx' = [tx EXCEPT ![m] = Ended]
  /\ outcome' = [outcome EXCEPT ![m] = "done"]

\* The end of "with context.begin_transaction()".
Commit(m) ==
  /\ tx[m].on
  /\ tx[m].db.version = tx[m].target
  /\ db' = tx[m].db
  /\ IF "users" \in tx[m].db.tables
       THEN UNCHANGED <<users, roleOf>>
       ELSE /\ users' = [u \in Users |-> NoRow]
            /\ roleOf' = {}
  /\ tx' = [tx EXCEPT ![m] = Ended]
  /\ outcome' = [outcome EXCEPT ![m] = "done"]

\* The process dies, loses its connection, or PostgreSQL fails it in a deadlock
\* with a command of the opposite direction.
Crash(m) == tx[m].on /\ Rollback(m, "crashed")

-----------------------------------------------------------------------------
Upgrade(m) ==
  \/ Create(m) \/ Seed(m) \/ GrantSeeded(m) \/ SeedAddresses(m)
  \/ GrantAddresses(m) \/ DropAddresses(m) \/ AddGoogle(m) \/ AllowNoName(m)

Downgrade(m) ==
  \/ DropAll(m) \/ Unseed(m) \/ RevokeSeeded(m) \/ UnseedAddresses(m)
  \/ RevokeAddresses(m) \/ CreateAddresses(m) \/ RemoveGoogle(m) \/ RequireName(m)

Next ==
  \/ \E u \in Users, row \in Row : Insert(u, row)
  \/ \E m \in Migrators :
       \/ \E target \in Targets : Begin(m, target)
       \/ Upgrade(m) \/ Downgrade(m) \/ Commit(m) \/ Crash(m)

Spec == Init /\ [][Next]_vars

\* Alembic goes on with its script, and PostgreSQL queues the commands that
\* wait for the version row.
Fairness ==
  \A m \in Migrators : SF_vars(Upgrade(m) \/ Downgrade(m)) /\ WF_vars(Commit(m))

FairSpec == Spec /\ Fairness

-----------------------------------------------------------------------------
TypeOK ==
  /\ db \in Schema
  /\ users \in [Users -> Row \cup {NoRow}]
  /\ roleOf \subseteq Users \X Roles
  /\ tx \in [Migrators -> Transaction]
  /\ outcome \in [Migrators -> Outcomes]

-----------------------------------------------------------------------------
(* What each revision stands for, apart from how a database gets there.    *)

PermissionsAt(v) ==
  {p \in SeededPermissions \cup AddressPermissions :
     v >= (IF p.resource = "address" THEN 4 ELSE 2)}

Entitled(role, p) ==
  \/ role = "admin" /\ p.scope = "any"
  \/ role = "moderator" /\ p.scope = "any"
       /\ p.resource \in {"product", "order", "category", "review", "address"}
  \/ role = "customer" /\ p.resource = "address" /\ p.scope = "own"
  \/ role = "customer" /\ CustomerMay(p)

TablesAt(v) == {t \in Tables : v >= 1 /\ (t = "addresses" => v < 6)}

GrantsAt(v) ==
  {g \in Roles \X PermissionsAt(v) :
     /\ v >= (IF g[2].resource = "address" THEN 5 ELSE 3)
     /\ Entitled(g[1], g[2])}

SchemaAt(v) ==
  [version  |-> v,
   tables   |-> TablesAt(v),
   columns  |-> {c \in Columns : v >= 7},
   nullable |-> {c \in {"first_name", "hashed_password"} :
                   v >= (IF c = "first_name" THEN 8 ELSE 7)},
   unique   |-> {c \in {"email", "google_sub"} : v >= 7},
   perms    |-> PermissionsAt(v),
   roles    |-> {r \in Roles : v >= 2},
   grants   |-> GrantsAt(v)]

\* However a database reached a revision, by upgrades, downgrades, failed or
\* interrupted commands, it has the tables, constraints, roles, permissions and
\* grants of that revision: each downgrade undoes its upgrade exactly.
SchemaMatchesVersion == db = SchemaAt(db.version)

\* No customer may change what is not theirs, and administrators may do
\* whatever moderators may.
PrivilegesNest ==
  \A g \in db.grants :
    /\ g[1] = "customer" /\ g[2].scope = "any" => g[2].verb = "read"
    /\ g[1] = "moderator" => <<"admin", g[2]>> \in db.grants

\* Every account has the default role, and every role of an account exists,
\* whatever commands ran beside the registration.
AccountsHaveRoles ==
  /\ \A u \in Users : Exists(u) => <<u, "customer">> \in roleOf
  /\ \A x \in roleOf : Exists(x[1]) /\ x[2] \in db.roles

\* The committed rows satisfy the committed constraints, those registered while
\* a command was checking them included.
RowsFitSchema ==
  \A u \in Users : Exists(u) =>
    /\ "users" \in db.tables
    /\ users[u].google => "google_sub" \in db.columns
    /\ users[u].name = Null => "first_name" \in db.nullable
    /\ "email" \in db.unique =>
         \A v \in Users \ {u} : Exists(v) => users[u].email # users[v].email

\* What the service sees: registrations and whole deployments, each in one step,
\* and no account or role lost to an upgrade, a downgrade, a failure or a crash,
\* although every migration changes tables under rows that are being inserted.
Served == INSTANCE Deployment WITH version <- db.version

ImplementsDeployment == Served!DeploymentSpec

\* A reason for m's command to fail.
Explained(m) ==
  LET v == tx[m].db.version
      upgrade == tx[m].target > v
      downgrade == tx[m].target < v
  IN
  \/ db.version # v /\ ~ tx[m].wrote
  \/ upgrade /\ v = 6 /\ \E u, w \in Users : u # w /\ SameEmail(u, w)
  \/ downgrade /\ v = 8 /\ \E u \in Users : Exists(u) /\ users[u].name = Null
  \/ downgrade /\ v = 7
  \/ downgrade /\ v = 2 /\ \E u \in Users : Exists(u)

\* The only reasons for a command to fail: another one was faster, emails that
\* are not unique when they must become so, names that are missing when they
\* become required, roles still in use, and the downgrade that cannot be compiled.
FailuresExplained ==
  [][\A m \in Migrators : tx[m].on /\ outcome'[m] = "failed" => Explained(m)]_vars

\* Every command ends, however many wait for the version row.
CommandsEnd == \A m \in Migrators : tx[m].on ~> ~ tx[m].on

-----------------------------------------------------------------------------
(* The inductive invariant behind the safety properties.                   *)

\* The rows of users satisfy the constraints of revision v.
Fits(v) ==
  /\ v < 2 => \A u \in Users : ~ Exists(u)
  /\ v >= 7 => \A u, w \in Users : SameEmail(u, w) => u = w
  /\ \A u \in Users : Exists(u) =>
       /\ users[u].google => v >= 7
       /\ users[u].name = Null => v >= 8

\* What has been registered meanwhile fits the revision a command is about to
\* commit: it fits the committed one, and without locks the two agree on users.
CommandOK(m) ==
  LET v == db.version
      w == tx[m].db.version
  IN
  /\ outcome[m] = "none"
  /\ tx[m].target \in Targets
  /\ tx[m].db = SchemaAt(w)
  /\ w = tx[m].target => tx[m].wrote
  /\ tx[m].wrote => Fits(w)
  /\ tx[m].wrote /\ tx[m].locks = {} =>
       (v >= 2 => w >= 2) /\ (v >= 7 <=> w >= 7) /\ (v >= 8 <=> w >= 8)

\* The version row has one holder.
OneWriter ==
  \A m, n \in Migrators : tx[m].wrote /\ tx[n].wrote => m = n

\* The inductive invariant.
IInv ==
  /\ TypeOK
  /\ SchemaMatchesVersion
  /\ Fits(db.version)
  /\ roleOf = {<<u, "customer">> : u \in {u \in Users : Exists(u)}}
  /\ OneWriter
  /\ \A m \in Migrators : IF tx[m].on THEN CommandOK(m) ELSE tx[m] = Ended
=============================================================================
