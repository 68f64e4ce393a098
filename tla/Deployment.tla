----------------------------- MODULE Deployment -----------------------------
(***************************************************************************)
(* What migrations promise the service that runs beside them, without      *)
(* transactions or locks: the revision of the database changes in one step, *)
(* to one that somebody asked for and that the accounts fit; a deployment,  *)
(* back to the empty database even, never touches an account or its role.  *)
(***************************************************************************)
EXTENDS Naturals

CONSTANTS Users, Emails, Names, Targets, Null, NoRow

VARIABLES version, users, roleOf

database == <<version, users, roleOf>>

Row == [email: Emails, name: Names \cup {Null}, google: BOOLEAN]

Exists(u) == users[u] # NoRow

\* A database of revision v can hold this row.
Suits(row, v) ==
  /\ v >= 2
  /\ row.google => v >= 7
  /\ row.name = Null => v >= 8

\* Emails are unique from revision 7 on.
Accepts(v) ==
  /\ \A u \in Users : Exists(u) => Suits(users[u], v)
  /\ v >= 7 => \A u, w \in Users :
                 Exists(u) /\ Exists(w) /\ users[u].email = users[w].email => u = w

DeploymentInit ==
  /\ version = 0
  /\ users = [u \in Users |-> NoRow]
  /\ roleOf = {}

Register(u, row) ==
  /\ ~ Exists(u)
  /\ users' = [users EXCEPT ![u] = row]
  /\ roleOf' = roleOf \cup {<<u, "customer">>}
  /\ Accepts(version)'
  /\ UNCHANGED version

Deploy(target) ==
  /\ Accepts(target)
  /\ version' = target
  /\ UNCHANGED <<users, roleOf>>

DeploymentNext ==
  \/ \E u \in Users, row \in Row : Register(u, row)
  \/ \E target \in Targets : Deploy(target)

DeploymentSpec == DeploymentInit /\ [][DeploymentNext]_database

-----------------------------------------------------------------------------
(* What follows for the accounts.                                          *)

\* Accounts and their roles outlast every upgrade and downgrade, unchanged.
Lasting == /\ \A u \in Users : Exists(u) => users'[u] = users[u]
           /\ roleOf \subseteq roleOf'

AccountsLast == [][Lasting]_database
=============================================================================
