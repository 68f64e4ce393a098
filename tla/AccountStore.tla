---------------------------- MODULE AccountStore ----------------------------
(***************************************************************************)
(* What the table of accounts promises, without requests or transactions:  *)
(* an account is created, and changed by its owner's PATCH or by a Google  *)
(* sign-in, each in one step and each within its own columns; it is never  *)
(* deleted, and no two accounts ever share an email or a Google account.   *)
(***************************************************************************)
CONSTANTS
  Accounts, Emails, Subs, Names,
  Grants,  \* refresh tokens of Google
  Null, NoRow

VARIABLE rows  \* id -> row, or NoRow

Row == [email: Emails, sub: Subs \cup {Null}, token: Grants \cup {Null},
        name: Names \cup {Null}]

\* What a Google sign-in writes into an account it found by sub, or by email,
\* and what a PATCH may.
ColumnSets == {{"token"}, {"sub", "token"}, {"email", "name"}}

AccountInit == rows = [a \in Accounts |-> NoRow]

\* Account a may have this row beside the others.
Legal(a, row) ==
  \A b \in Accounts \ {a} : rows[b] # NoRow =>
    /\ rows[b].email # row.email
    /\ rows[b].sub = row.sub => row.sub = Null

Create(a, row) ==
  /\ rows[a] = NoRow
  /\ Legal(a, row)
  /\ rows' = [rows EXCEPT ![a] = row]

Change(a, C, row) ==
  /\ rows[a] # NoRow
  /\ Legal(a, row)
  /\ \A c \in {"email", "sub", "token", "name"} \ C : row[c] = rows[a][c]
  /\ rows' = [rows EXCEPT ![a] = row]

AccountNext ==
  \E a \in Accounts, row \in Row :
    Create(a, row) \/ \E C \in ColumnSets : Change(a, C, row)

AccountSpec == AccountInit /\ [][AccountNext]_rows

-----------------------------------------------------------------------------
(* What follows for whoever reads the table.                               *)

RowTypes == rows \in [Accounts -> Row \cup {NoRow}]

\* No two accounts share an email or a Google account: find_by_email and
\* find_by_google_sub find one row at most.
KeysUnique ==
  \A a, b \in Accounts :
    a # b /\ rows[a] # NoRow /\ rows[b] # NoRow =>
      /\ rows[a].email # rows[b].email
      /\ rows[a].sub = rows[b].sub => rows[a].sub = Null

\* An account that was seen is there for ever, and a step that links it to a
\* Google account changes neither its email nor its name.
Lasting ==
  \A a \in Accounts : rows[a] # NoRow =>
    /\ rows'[a] # NoRow
    /\ rows'[a].sub # rows[a].sub =>
         rows'[a].email = rows[a].email /\ rows'[a].name = rows[a].name

AccountsLast == [][Lasting]_rows
=============================================================================
