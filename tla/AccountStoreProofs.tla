------------------------- MODULE AccountStoreProofs -------------------------
(* What the promises of AccountStore imply, for any accounts and values;   *)
(* every specification that implements AccountStore inherits it.           *)
EXTENDS AccountStore, TLAPS

\* The table is well typed, and its keys are unique.
TableInv == RowTypes /\ KeysUnique

LEMMA TableInitInv == AccountInit => TableInv
  BY DEF AccountInit, TableInv, RowTypes, KeysUnique

\* A legal row keeps the keys unique, whichever account takes it.
LEMMA LegalStep ==
  ASSUME TableInv, NEW a \in Accounts, NEW row \in Row, Legal(a, row),
         rows' = [rows EXCEPT ![a] = row]
  PROVE  TableInv'
<1>1. RowTypes'
  BY DEF TableInv, RowTypes
<1>2. rows'[a] = row /\ \A b \in Accounts \ {a} : rows'[b] = rows[b]
  BY DEF TableInv, RowTypes
<1>3. KeysUnique'
  BY <1>2 DEF TableInv, KeysUnique, Legal
<1> QED
  BY <1>1, <1>3 DEF TableInv

LEMMA TableStepInv == TableInv /\ [AccountNext]_rows => TableInv'
<1>1. TableInv /\ UNCHANGED rows => TableInv'
  BY DEF TableInv, RowTypes, KeysUnique
<1> QED
  BY <1>1, LegalStep DEF AccountNext, Create, Change

\* The rows are well typed, and no two accounts share an email or a Google
\* account.
THEOREM Uniqueness == AccountSpec => [](RowTypes /\ KeysUnique)
<1>1. TableInv => RowTypes /\ KeysUnique
  BY DEF TableInv
<1> QED
  BY <1>1, TableInitInv, TableStepInv, PTL DEF AccountSpec

\* Accounts last for ever, and linking one changes neither its email nor its
\* name.
THEOREM Lastingness ==
  ASSUME NoRow \notin Row
  PROVE  AccountSpec => AccountsLast
<1>1. TableInv /\ [AccountNext]_rows => [Lasting]_rows
  <2> SUFFICES ASSUME TableInv, NEW b \in Accounts, NEW row \in Row,
                      Create(b, row) \/ \E C \in ColumnSets : Change(b, C, row)
               PROVE  Lasting
    BY DEF AccountNext
  <2>1. rows'[b] = row /\ \A a \in Accounts \ {b} : rows'[a] = rows[a]
    BY DEF TableInv, RowTypes, Create, Change
  <2>2. CASE Create(b, row)
    BY <2>1, <2>2 DEF Create, Lasting
  <2>3. ASSUME NEW C \in ColumnSets, Change(b, C, row)
        PROVE  Lasting
    <3>1. "sub" \notin C \/ ("email" \notin C /\ "name" \notin C)
      BY DEF ColumnSets
    <3>2. \A c \in {"email", "sub", "token", "name"} \ C : row[c] = rows[b][c]
      BY <2>3 DEF Change
    <3>3. "sub" \notin C => row.sub = rows[b].sub
      BY <3>2
    <3>4. "sub" \in C => row.email = rows[b].email /\ row.name = rows[b].name
      BY <3>1, <3>2
    <3> QED
      BY <2>1, <3>3, <3>4 DEF Lasting
  <2> QED
    BY <2>2, <2>3
<1>2. AccountSpec => [][Lasting]_rows
  BY <1>1, TableInitInv, TableStepInv, PTL DEF AccountSpec
<1> QED
  BY <1>2 DEF AccountsLast
=============================================================================
