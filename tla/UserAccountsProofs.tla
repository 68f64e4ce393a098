------------------------- MODULE UserAccountsProofs -------------------------
(* Theorems about UserAccounts, for any accounts, keys, names and requests. *)
EXTENDS UserAccounts, TLAPS

USE DEF Columns, PCs, Kinds

-----------------------------------------------------------------------------
(* What each action changes, with the types of what it leaves.             *)

\* The object a request builds, loads or changes is a row of users.
LEMMA Rows ==
  /\ NoData \in Row
  /\ \A e \in Emails \cup {Null}, n \in Names \cup {Null} :
       [NoData EXCEPT !.email = e, !.name = n] \in Row
  /\ \A row, old \in Row : \A asked :
       [c \in Columns |-> IF c \in asked THEN row[c] ELSE old[c]] \in Row
<1>1. NoData \in Row
  BY DEF NoData, Row
<1>2. ASSUME NEW e \in Emails \cup {Null}, NEW n \in Names \cup {Null}
      PROVE  [NoData EXCEPT !.email = e, !.name = n] \in Row
  BY DEF NoData, Row
<1>3. ASSUME NEW row \in Row, NEW old \in Row, NEW asked
      PROVE  [c \in Columns |-> IF c \in asked THEN row[c] ELSE old[c]] \in Row
  BY DEF Row
<1> QED
  BY <1>1, <1>2, <1>3

\* A request that is over has the type of one.
LEMMA IdleType == Idle \in Request
  BY Rows DEF Idle, Request

\* The end of a request touches no other.
LEMMA FinishType ==
  ASSUME TypeOK, NEW r \in Requests, Finish(r)
  PROVE  /\ req' \in [Requests -> Request]
         /\ \A q \in Requests \ {r} : req'[q] = req[q]
         /\ req'[r] = Idle
  BY IdleType DEF TypeOK, Finish

\* A step of the program counter changes nothing else.
LEMMA GotoType ==
  ASSUME TypeOK, NEW r \in Requests, NEW p \in PCs, Goto(r, p)
  PROVE  /\ req' \in [Requests -> Request]
         /\ \A q \in Requests \ {r} : req'[q] = req[q]
         /\ req'[r].pc = p
         /\ req'[r].kind = req[r].kind
         /\ req'[r].id = req[r].id
         /\ req'[r].asked = req[r].asked
         /\ req'[r].row = req[r].row
         /\ req'[r].seen = req[r].seen
  BY DEF TypeOK, Goto, Request

\* The object in memory after the SELECT and setattr is a row.
LEMMA LoadType ==
  ASSUME TypeOK, NEW r \in Requests, NEW a \in Accounts, Exists(a),
         NEW asked \in SUBSET Columns, NEW p \in PCs, Load(r, a, asked, p)
  PROVE  /\ req' \in [Requests -> Request]
         /\ \A q \in Requests \ {r} : req'[q] = req[q]
         /\ req'[r].pc = p
         /\ req'[r].kind = req[r].kind
         /\ req'[r].id = a
         /\ req'[r].asked = asked
         /\ req'[r].row = [c \in Columns |-> IF c \in asked THEN req[r].row[c]
                                                            ELSE table[a][c]]
         /\ req'[r].seen = table[a]
<1> DEFINE row == [c \in Columns |-> IF c \in asked THEN req[r].row[c]
                                                    ELSE table[a][c]]
<1>1. row \in Row /\ table[a] \in Row
  <2>1. req[r].row \in Row /\ table[a] \in Row
    BY DEF TypeOK, Exists, Request
  <2> QED
    BY <2>1, Rows
<1>2. req[r].kind \in Kinds
  BY DEF TypeOK, Request
<1>3. [pc |-> p, kind |-> req[r].kind, id |-> a, asked |-> asked, row |-> row,
       seen |-> table[a]] \in Request
  BY <1>1, <1>2 DEF Request
<1> QED
  BY <1>3 DEF TypeOK, Load

\* An INSERT gives the object its id.
LEMMA InsertType ==
  ASSUME TypeOK, NEW r \in Requests, NEW a \in Accounts, NEW p \in PCs,
         req' = [req EXCEPT ![r] =
                   [pc |-> p, kind |-> @.kind, id |-> a, asked |-> Columns,
                    row |-> @.row, seen |-> NoRow]]
  PROVE  /\ req' \in [Requests -> Request]
         /\ \A q \in Requests \ {r} : req'[q] = req[q]
         /\ req'[r].pc = p
         /\ req'[r].kind = req[r].kind
         /\ req'[r].id = a
         /\ req'[r].asked = Columns
         /\ req'[r].row = req[r].row
         /\ req'[r].seen = NoRow
  BY DEF TypeOK, Request

\* A request arrives without touching another.
LEMMA StartType ==
  ASSUME TypeOK, NEW r \in Requests, NEW q \in Request, Start(r, q)
  PROVE  /\ req' \in [Requests -> Request]
         /\ \A p \in Requests \ {r} : req'[p] = req[p]
         /\ req'[r] = q
  BY DEF TypeOK, Start

\* The requests that arrive.
LEMMA ArriveType ==
  ASSUME TypeOK, NEW r \in Requests, Arrive(r)
  PROVE  /\ req' \in [Requests -> Request]
         /\ \A q \in Requests \ {r} : req'[q] = req[q]
         /\ req'[r].seen = NoRow
         /\ \/ /\ req'[r].pc = "find_email" /\ req'[r].kind = "register"
               /\ req'[r].id = Null
            \/ /\ req'[r].pc = "find_sub" /\ req'[r].kind = "google"
               /\ req'[r].id = Null
            \/ /\ req'[r].pc = "find_id" /\ req'[r].kind = "update"
               /\ req'[r].id \in Accounts /\ Exists(req'[r].id)
               /\ req'[r].asked \subseteq UpdateColumns
         /\ UNCHANGED <<table, announced, profile, abandoned, overlapped>>
<1>1. ASSUME NEW e \in Emails, NEW n \in Names \cup {Null}, Register(r, e, n)
      PROVE  /\ req' \in [Requests -> Request]
             /\ \A q \in Requests \ {r} : req'[q] = req[q]
             /\ req'[r].seen = NoRow /\ req'[r].pc = "find_email"
             /\ req'[r].kind = "register" /\ req'[r].id = Null
  <2> DEFINE row == [NoData EXCEPT !.email = e, !.name = n]
             new == [Idle EXCEPT !.pc = "find_email", !.kind = "register",
                                 !.row = row]
  <2>1. row \in Row
    BY Rows
  <2> HIDE DEF row
  <2>2. /\ new \in Request /\ new.seen = NoRow /\ new.pc = "find_email"
        /\ new.kind = "register" /\ new.id = Null
    BY <2>1 DEF Idle, Request
  <2>3. Start(r, new)
    BY <1>1 DEF Register, row
  <2> QED
    BY <2>2, <2>3, StartType
<1>2. ASSUME NEW e \in Emails, NEW n \in Names \cup {Null}, NEW s \in Subs,
             NEW t \in {s, Null}, GoogleSignIn(r, s, e, n, t)
      PROVE  /\ req' \in [Requests -> Request]
             /\ \A q \in Requests \ {r} : req'[q] = req[q]
             /\ req'[r].seen = NoRow /\ req'[r].pc = "find_sub"
             /\ req'[r].kind = "google" /\ req'[r].id = Null
  <2> DEFINE row == [email |-> e, sub |-> s, token |-> t, name |-> n]
             new == [Idle EXCEPT !.pc = "find_sub", !.kind = "google", !.row = row]
  <2>1. row \in Row
    BY DEF Row
  <2> HIDE DEF row
  <2>2. /\ new \in Request /\ new.seen = NoRow /\ new.pc = "find_sub"
        /\ new.kind = "google" /\ new.id = Null
    BY <2>1 DEF Idle, Request
  <2>3. Start(r, new)
    BY <1>2 DEF GoogleSignIn, row
  <2> QED
    BY <2>2, <2>3, StartType
<1>3. ASSUME NEW e \in Emails \cup {Null}, NEW n \in Names \cup {Null},
             NEW a \in Accounts, NEW asked \in SUBSET UpdateColumns,
             UpdateProfile(r, a, asked, e, n)
      PROVE  /\ req' \in [Requests -> Request]
             /\ \A q \in Requests \ {r} : req'[q] = req[q]
             /\ req'[r].seen = NoRow /\ req'[r].pc = "find_id"
             /\ req'[r].kind = "update" /\ req'[r].id = a /\ Exists(a)
             /\ req'[r].asked = asked
  <2> DEFINE row == [NoData EXCEPT !.email = e, !.name = n]
             new == [Idle EXCEPT !.pc = "find_id", !.kind = "update", !.id = a,
                                 !.asked = asked, !.row = row]
  <2>1. row \in Row
    BY Rows
  <2> HIDE DEF row
  <2>2. /\ new \in Request /\ new.seen = NoRow /\ new.pc = "find_id"
        /\ new.kind = "update" /\ new.id = a /\ new.asked = asked
    BY <2>1 DEF Idle, Request, UpdateColumns
  <2>3. Start(r, new) /\ Exists(a)
    BY <1>3 DEF UpdateProfile, row
  <2> QED
    BY <2>2, <2>3, StartType
<1>4. UNCHANGED <<table, announced, profile, abandoned, overlapped>>
  BY DEF Arrive, Register, GoogleSignIn, UpdateProfile, Start, history
<1> QED
  BY <1>1, <1>2, <1>3, <1>4 DEF Arrive
-----------------------------------------------------------------------------
(* What a step does to the record of its request.                          *)

\* Nothing but r's own record changes, and only in a way its type allows.
Own(r) == /\ req' \in [Requests -> Request]
          /\ \A q \in Requests \ {r} : req'[q] = req[q]

\* r is over.
Finished(r) == Own(r) /\ req'[r] = Idle

\* r goes on to step p, and nothing else of it changes.
Moved(r, p) ==
  /\ Own(r)
  /\ req'[r].pc = p /\ req'[r].kind = req[r].kind /\ req'[r].id = req[r].id
  /\ req'[r].asked = req[r].asked /\ req'[r].row = req[r].row
  /\ req'[r].seen = req[r].seen

\* r goes on to step p with row a in memory, changed in the columns "asked".
Loaded(r, a, asked, p) ==
  /\ Own(r)
  /\ a \in Accounts /\ Exists(a)
  /\ req'[r].pc = p /\ req'[r].kind = req[r].kind /\ req'[r].id = a
  /\ req'[r].asked = asked /\ req'[r].seen = table[a]
  /\ req'[r].row = [c \in Columns |-> IF c \in asked THEN req[r].row[c]
                                                     ELSE table[a][c]]

\* What find_by_google_sub changes.
LEMMA FindSubFrame ==
  ASSUME TypeOK, NEW r \in Requests, FindSub(r)
  PROVE  /\ req[r].pc = "find_sub"
         /\ \/ Moved(r, "find_email")
            \/ \E a \in Accounts : Loaded(r, a, {"token"}, "flush")
         /\ UNCHANGED <<table, announced, profile, abandoned, overlapped>>
<1>1. CASE Goto(r, "find_email")
  BY <1>1, GotoType DEF FindSub, Moved, Own, history
<1>2. ASSUME NEW a \in Accounts, Exists(a), Load(r, a, {"token"}, "flush")
      PROVE  Loaded(r, a, {"token"}, "flush")
  BY <1>2, LoadType DEF Loaded, Own
<1> QED
  BY <1>1, <1>2 DEF FindSub, history

\* What find_by_email changes: a request ends, or one object is loaded.
LEMMA FindEmailFrame ==
  ASSUME TypeOK, NEW r \in Requests, FindEmail(r)
  PROVE  /\ req[r].pc = "find_email"
         /\ \/ /\ req[r].kind = "google"
               /\ \E a \in Accounts : Loaded(r, a, {"sub", "token"}, "flush")
            \/ Finished(r)
            \/ req[r].kind = "update" /\ Moved(r, "flush")
            \/ req[r].kind # "update" /\ Moved(r, "insert")
         /\ UNCHANGED <<table, announced, profile, abandoned, overlapped>>
<1>1. CASE Finish(r)
  BY <1>1, FinishType DEF FindEmail, Finished, Own, history
<1>2. CASE Goto(r, IF req[r].kind = "update" THEN "flush" ELSE "insert")
  BY <1>2, GotoType DEF FindEmail, Moved, Own, history
<1>3. ASSUME NEW a \in Accounts, Exists(a), Load(r, a, {"sub", "token"}, "flush")
      PROVE  Loaded(r, a, {"sub", "token"}, "flush")
  BY <1>3, LoadType DEF Loaded, Own
<1> QED
  BY <1>1, <1>2, <1>3 DEF FindEmail, history

\* What the SELECT of update_user changes; it counts overlapping updates.
LEMMA FindIdFrame ==
  ASSUME TypeOK, HandlersOK, NEW r \in Requests, FindId(r)
  PROVE  /\ req[r].pc = "find_id"
         /\ Loaded(r, req[r].id, req[r].asked, "find_email")
            \/ Loaded(r, req[r].id, req[r].asked, "flush")
         /\ UNCHANGED <<table, announced, profile, abandoned>>
         /\ overlapped \subseteq overlapped'
         /\ Updating(req[r].id) # {} => req[r].id \in overlapped'
         /\ overlapped' \subseteq Accounts
<1>1. /\ req[r].pc = "find_id" /\ req[r].kind = "update"
      /\ req[r].id \in Accounts /\ req[r].seen = NoRow
      /\ req[r].asked \subseteq Columns
  BY DEF FindId, HandlersOK, TypeOK, Request
<1>2. Exists(req[r].id)
  BY <1>1 DEF HandlersOK, Inserted, Creating
<1>3. ASSUME NEW p \in {"find_email", "flush"},
             Load(r, req[r].id, req[r].asked, p)
      PROVE  Loaded(r, req[r].id, req[r].asked, p)
  BY <1>1, <1>2, <1>3, LoadType DEF Loaded, Own
<1>4. \E p \in {"find_email", "flush"} : Load(r, req[r].id, req[r].asked, p)
  BY DEF FindId
<1> QED
  BY <1>1, <1>3, <1>4 DEF FindId, TypeOK

\* What an INSERT changes: it fails, or takes a fresh id under its locks.
LEMMA InsertFrame ==
  ASSUME TypeOK, NEW r \in Requests, Insert(r)
  PROVE  /\ req[r].pc = "insert" /\ MayWrite(r)
         /\ \/ Finished(r)
            \/ /\ ~ Violates(r)
               /\ Own(r)
               /\ req'[r].id \in Fresh /\ req'[r].kind = req[r].kind
               /\ req'[r].row = req[r].row /\ req'[r].seen = NoRow
               /\ req'[r].pc = IF req[r].kind = "google" THEN "publish"
                                                         ELSE "commit"
         /\ UNCHANGED <<table, announced, profile, abandoned, overlapped>>
<1>1. CASE Finish(r)
  BY <1>1, FinishType DEF Insert, Finished, Own, history
<1>2. CASE ~ Finish(r)
  <2> DEFINE p == IF req[r].kind = "google" THEN "publish" ELSE "commit"
  <2>1. PICK a \in Fresh :
          req' = [req EXCEPT ![r] =
                    [pc |-> p, kind |-> @.kind, id |-> a, asked |-> Columns,
                     row |-> @.row, seen |-> NoRow]]
    BY <1>2 DEF Insert
  <2>2. a \in Accounts /\ p \in PCs
    BY DEF Fresh
  <2>3. /\ Own(r) /\ req'[r].id = a /\ req'[r].kind = req[r].kind
        /\ req'[r].row = req[r].row /\ req'[r].seen = NoRow
        /\ req'[r].pc = p
    <3> HIDE DEF p
    <3> QED
      BY <2>1, <2>2, InsertType DEF Own
  <2> QED
    BY <1>2, <2>1, <2>3 DEF Insert, history
<1> QED
  BY <1>1, <1>2

\* What the flush of an UPDATE changes: it fails, or holds its locks.
LEMMA FlushFrame ==
  ASSUME TypeOK, NEW r \in Requests, Flush(r)
  PROVE  /\ req[r].pc = "flush"
         /\ \/ Finished(r)
            \/ /\ Moved(r, "commit")
               /\ Changed(r) # {} => MayWrite(r) /\ ~ Violates(r)
         /\ UNCHANGED <<table, announced, profile, abandoned, overlapped>>
<1>1. Changed(r) # {} /\ Violates(r) => Finished(r)
  BY FinishType DEF Flush, Finished, Own
<1>2. ~ (Changed(r) # {} /\ Violates(r)) => Moved(r, "commit")
  BY GotoType DEF Flush, Moved, Own
<1> QED
  BY <1>1, <1>2 DEF Flush, history

\* What a commit changes: one row, and the step of one handler.
LEMMA CommitFrame ==
  ASSUME TypeOK, NEW r \in Requests, Commit(r)
  PROVE  /\ req[r].pc = "commit"
         /\ \/ req[r].kind = "google" /\ Finished(r)
            \/ req[r].kind # "google" /\ Moved(r, "publish")
         /\ table' = [table EXCEPT ![req[r].id] = Written(r)]
         /\ UNCHANGED <<announced, profile, abandoned, overlapped>>
<1>1. req[r].kind = "google" => Finished(r)
  BY FinishType DEF Commit, Finished, Own
<1>2. req[r].kind # "google" => Moved(r, "publish")
  BY GotoType DEF Commit, Moved, Own
<1> QED
  BY <1>1, <1>2 DEF Commit, history

\* What an event changes: one topic, and the step of one handler.
LEMMA PublishFrame ==
  ASSUME TypeOK, NEW r \in Requests, Publish(r)
  PROVE  /\ req[r].pc = "publish"
         /\ \/ req[r].kind = "google" /\ Moved(r, "commit")
            \/ req[r].kind # "google" /\ Finished(r)
         /\ \/ /\ req[r].kind = "update"
               /\ profile' = [profile EXCEPT ![req[r].id] =
                                <<req[r].row.email, req[r].row.name>>]
               /\ UNCHANGED announced
            \/ /\ req[r].kind # "update"
               /\ announced' = announced \cup {req[r].id}
               /\ UNCHANGED profile
         /\ UNCHANGED <<table, abandoned, overlapped>>
<1>1. req[r].kind = "google" => Moved(r, "commit")
  BY GotoType DEF Publish, Moved, Own
<1>2. req[r].kind # "google" => Finished(r)
  BY FinishType DEF Publish, Finished, Own
<1> QED
  BY <1>1, <1>2 DEF Publish, history

\* What a failure changes: its request is over, and the history says whether
\* its row or its event was lost.
LEMMA AbortFrame ==
  ASSUME TypeOK, HandlersOK, NEW r \in Requests, Abort(r)
  PROVE  /\ Finished(r)
         /\ abandoned' \subseteq Accounts /\ overlapped' \subseteq Accounts
         /\ abandoned \subseteq abandoned' /\ overlapped \subseteq overlapped'
         /\ \A a \in Accounts :
              Creating(r, a) /\ ~ (Exists(a) <=> a \in announced) => a \in abandoned'
         /\ req[r].pc = "publish" /\ req[r].kind = "update"
              => req[r].id \in overlapped'
         /\ UNCHANGED <<table, announced, profile>>
<1>1. Finished(r)
  BY FinishType DEF Abort, Finished, Own
<1>2. req[r].pc = "publish" /\ req[r].kind = "update" => req[r].id \in Accounts
  BY DEF HandlersOK, TypeOK, Request
<1> QED
  BY <1>1, <1>2 DEF Abort, TypeOK

-----------------------------------------------------------------------------
(* What survives a step: the requests it is not of, and the rows.          *)

\* What another request writes does not depend on the step of r.
LEMMA Others ==
  ASSUME NEW q \in Requests, req'[q] = req[q]
  PROVE  /\ Changed(q)' = Changed(q)
         /\ NewKeys(q)' = NewKeys(q)
         /\ Writing(q)' <=> Writing(q)
<1>1. Changed(q)' = Changed(q)
  BY DEF Changed
<1>2. NewKeys(q)' = NewKeys(q)
  BY <1>1 DEF NewKeys
<1> QED
  BY <1>1, <1>2 DEF Writing

\* Rows are never deleted.
LEMMA HandlersStep ==
  ASSUME HandlersOK, NEW r \in Requests, Own(r), HandlersOK!(r)',
         \A a \in Accounts : Exists(a) => Exists(a)', TypeOK
  PROVE  HandlersOK'
<1>1. ASSUME NEW q \in Requests, q # r PROVE HandlersOK!(q)'
  <2>1. req'[q] = req[q] /\ (Inserted(q)' <=> Inserted(q))
    BY <1>1 DEF Own, Inserted, Creating
  <2>2. req[q].id # Null /\ ~ Inserted(q) => table'[req[q].id] # NoRow
    <3>1. req[q].id \in Accounts \cup {Null}
      BY DEF TypeOK, Request
    <3> QED
      BY <3>1 DEF HandlersOK, Exists
  <2> QED
    BY <2>1, <2>2 DEF HandlersOK, Exists
<1> QED
  BY <1>1 DEF HandlersOK

\* Objects in memory belong to one request each.
LEMMA ObjectsStep ==
  ASSUME ObjectsOK, NEW r \in Requests, Own(r), ObjectsOK!(r)'
  PROVE  ObjectsOK'
  BY DEF ObjectsOK, Own

\* r writes nothing now, and no row changes.
LEMMA WritersStep ==
  ASSUME WritersOK, NEW r \in Requests, Own(r), ~ Writing(r)', UNCHANGED table
  PROVE  WritersOK'
<1>1. ASSUME NEW q \in Requests, Writing(q)' PROVE q # r /\ Writing(q)
  BY <1>1, Others DEF Own
<1> QED
  BY <1>1, Others DEF WritersOK, Own, Exists

\* A request that has nothing inserted any more disturbs no inserted row.
LEMMA InsertedStep ==
  ASSUME InsertedOK, NEW r \in Requests, Own(r), UNCHANGED <<table, announced>>,
         \A a \in Accounts : ~ Creating(r, a)'
  PROVE  InsertedOK'
<1>1. ASSUME NEW q \in Requests, NEW a \in Accounts, Creating(q, a)'
      PROVE  q # r /\ Creating(q, a) /\ req'[q] = req[q]
  BY <1>1 DEF Own, Creating
<1> QED
  BY <1>1 DEF InsertedOK, Exists

\* Unique keys only depend on the committed rows.
LEMMA KeysStep == KeysOK /\ UNCHANGED table => KeysOK'
  BY DEF KeysOK, Exists

\* An account that is not announced keeps its creator or is given up.
LEMMA AnnouncedStep ==
  ASSUME AnnouncedIffCreated, NEW r \in Requests, Own(r),
         UNCHANGED <<table, announced>>, abandoned \subseteq abandoned',
         \A a \in Accounts :
           Creating(r, a) /\ ~ (Exists(a) <=> a \in announced)
             => Creating(r, a)' \/ a \in abandoned'
  PROVE  AnnouncedIffCreated'
<1> SUFFICES ASSUME NEW a \in Accounts, ~ (Exists(a) <=> a \in announced),
                    a \notin abandoned'
             PROVE  \E q \in Requests : Creating(q, a)'
  BY DEF AnnouncedIffCreated, Exists
<1>1. PICK q \in Requests : Creating(q, a)
  BY DEF AnnouncedIffCreated
<1>2. CASE q = r
  BY <1>1, <1>2
<1>3. CASE q # r
  BY <1>1, <1>3 DEF Own, Creating
<1> QED
  BY <1>2, <1>3

\* No row, event or commit; r has not become an update that has committed, and
\* if it was one its account now counts as overlapped.
LEMMA EventsStep ==
  ASSUME EventsOK, UpdatesOK, TypeOK, NEW r \in Requests, Own(r),
         UNCHANGED <<table, profile>>, overlapped \subseteq overlapped',
         req'[r].pc # "publish" \/ req'[r].kind # "update",
         req[r].pc = "publish" /\ req[r].kind = "update"
           => req[r].id \in overlapped'
  PROVE  EventsOK'
<1> SUFFICES ASSUME NEW a \in Accounts, profile[a] # NoEvent, a \notin overlapped',
                    \A q \in Updating(a)' : req'[q].pc # "publish"
             PROVE  profile[a] = Shown(table[a])
  BY DEF EventsOK, Exists, Shown
<1>1. ASSUME NEW q \in Updating(a), req[q].pc = "publish" PROVE FALSE
  <2>1. CASE q = r
    BY <1>1, <2>1 DEF Updating
  <2>2. CASE q # r
    BY <1>1, <2>2 DEF Updating, Own
  <2> QED
    BY <2>1, <2>2
<1> QED
  BY <1>1 DEF EventsOK

\* r does not become the update of an account, or was it already, in memory.
LEMMA UpdatesStep ==
  ASSUME UpdatesOK, NEW r \in Requests, Own(r), UNCHANGED table,
         overlapped \subseteq overlapped',
         \A a \in Accounts : r \in Updating(a)' /\ a \notin overlapped' =>
           /\ \A q \in Updating(a) : q = r
           /\ Shown(table[a]) = Shown(IF req'[r].pc = "publish" THEN req'[r].row
                                                               ELSE req'[r].seen)
  PROVE  UpdatesOK'
<1> SUFFICES ASSUME NEW q \in Requests, NEW a \in Accounts, q \in Updating(a)',
                    a \notin overlapped'
             PROVE  /\ Updating(a)' = {q}
                    /\ Shown(table[a]) =
                         Shown(IF req'[q].pc = "publish" THEN req'[q].row
                                                        ELSE req'[q].seen)
  BY DEF UpdatesOK, Shown
<1>1. \A p \in Requests \ {r} : p \in Updating(a)' <=> p \in Updating(a)
  BY DEF Updating, Own
<1>2. CASE r \in Updating(a)'
  <2>1. Updating(a)' = {r}
    BY <1>1, <1>2 DEF Updating
  <2> QED
    BY <1>2, <2>1
<1>3. CASE r \notin Updating(a)'
  <2>1. q # r /\ q \in Updating(a) /\ req'[q] = req[q]
    BY <1>1, <1>3 DEF Own
  <2>2. Updating(a) = {q} /\ Shown(table[a]) =
          Shown(IF req[q].pc = "publish" THEN req[q].row ELSE req[q].seen)
    BY <2>1 DEF UpdatesOK
  <2>3. Updating(a)' = {q}
    BY <1>1, <1>3, <2>1, <2>2 DEF Updating
  <2> QED
    BY <2>1, <2>2, <2>3
<1> QED
  BY <1>2, <1>3

\* r's flush has succeeded.
LEMMA WriteStep ==
  ASSUME WritersOK, NEW r \in Requests, Own(r), UNCHANGED table,
         req'[r].row["email"] # Null,
         \A k \in NewKeys(r)', a \in Accounts \ {req'[r].id} :
           Exists(a) => table[a][k[1]] # k[2],
         \A q \in Requests \ {r} : Writing(q) =>
           req[q].id # req'[r].id /\ NewKeys(q) \cap NewKeys(r)' = {}
  PROVE  WritersOK'
<1>1. ASSUME NEW q \in Requests \ {r}
      PROVE  /\ req'[q] = req[q] /\ NewKeys(q)' = NewKeys(q)
             /\ Writing(q)' <=> Writing(q)
  BY Others DEF Own
<1>2. WritersOK!(r)'
  BY <1>1 DEF Exists
<1>3. ASSUME NEW q \in Requests \ {r} PROVE WritersOK!(q)'
  <2> SUFFICES ASSUME Writing(q) PROVE WritersOK!(q)!2'
    BY <1>1
  <2>1. /\ req'[q].row["email"] # Null
        /\ \A k \in NewKeys(q)', a \in Accounts \ {req'[q].id} :
             Exists(a)' => table'[a][k[1]] # k[2]
    BY <1>1 DEF WritersOK, Exists
  <2>2. ASSUME NEW p \in Requests \ {q}, Writing(p)'
        PROVE  req'[p].id # req'[q].id /\ NewKeys(p)' \cap NewKeys(q)' = {}
    <3>1. CASE p = r
      BY <1>1, <3>1
    <3>2. CASE p # r
      BY <1>1, <2>2, <3>2 DEF WritersOK
    <3> QED
      BY <3>1, <3>2
  <2> QED
    BY <2>1, <2>2
<1> QED
  BY <1>2, <1>3 DEF WritersOK

-----------------------------------------------------------------------------
(* The steps that change neither a row nor an event.                       *)

\* The steps that write no row, send no event and hold no locks after.
LEMMA QuietStep ==
  ASSUME IInv, NEW r \in Requests, Own(r),
         UNCHANGED <<table, announced, profile>>,
         abandoned \subseteq abandoned', overlapped \subseteq overlapped',
         HandlersOK!(r)', ObjectsOK!(r)',
         req'[r].pc # "publish",
         req[r].pc = "publish" /\ req[r].kind = "update"
           => req[r].id \in overlapped',
         \A a \in Accounts :
           /\ ~ Creating(r, a)'
           /\ Creating(r, a) /\ ~ (Exists(a) <=> a \in announced)
                => a \in abandoned'
           /\ r \in Updating(a)' /\ a \notin overlapped' =>
                /\ \A q \in Updating(a) : q = r
                /\ Shown(table[a]) = Shown(req'[r].seen)
  PROVE  /\ HandlersOK' /\ ObjectsOK' /\ InsertedOK' /\ UpdatesOK' /\ EventsOK'
         /\ KeysOK' /\ AnnouncedIffCreated'
<1> USE DEF IInv, Consistent
<1>1. HandlersOK'
  BY HandlersStep DEF Exists
<1>2. ObjectsOK'
  BY ObjectsStep
<1>3. InsertedOK'
  BY InsertedStep
<1>4. UpdatesOK'
  BY UpdatesStep
<1>5. EventsOK'
  BY EventsStep
<1>6. KeysOK'
  BY KeysStep
<1>7. AnnouncedIffCreated'
  BY AnnouncedStep
<1> QED
  BY <1>1, <1>2, <1>3, <1>4, <1>5, <1>6, <1>7

\* A request that ends without a commit, and an event it owed is accounted for.
LEMMA FinishStep ==
  ASSUME IInv, NEW r \in Requests, Finished(r),
         UNCHANGED <<table, announced, profile>>,
         abandoned \subseteq abandoned', overlapped \subseteq overlapped',
         \A a \in Accounts : Creating(r, a) /\ ~ (Exists(a) <=> a \in announced)
                               => a \in abandoned',
         req[r].pc = "publish" /\ req[r].kind = "update"
           => req[r].id \in overlapped'
  PROVE  Consistent'
<1>1. /\ Own(r) /\ req'[r].pc = "idle" /\ req'[r].kind = "none"
      /\ req'[r].id = Null /\ req'[r].seen = NoRow
  BY DEF Finished, Idle
<1>2. HandlersOK!(r)' /\ ObjectsOK!(r)'
  BY <1>1
<1>3. \A a \in Accounts : ~ Creating(r, a)' /\ r \notin Updating(a)'
  BY <1>1, NullAssumption DEF Creating, Updating
<1>4. ~ Writing(r)'
  BY <1>1 DEF Writing
<1>5. WritersOK'
  BY <1>1, <1>4, WritersStep DEF IInv, Consistent
<1> QED
  BY <1>1, <1>2, <1>3, <1>5, QuietStep DEF Consistent

\* A new request has read and written nothing.
LEMMA ArriveStep ==
  ASSUME IInv, NEW r \in Requests, Arrive(r)
  PROVE  Consistent'
<1>1. /\ Own(r) /\ req'[r].seen = NoRow
      /\ \/ /\ req'[r].pc = "find_email" /\ req'[r].kind = "register"
            /\ req'[r].id = Null
         \/ /\ req'[r].pc = "find_sub" /\ req'[r].kind = "google"
            /\ req'[r].id = Null
         \/ /\ req'[r].pc = "find_id" /\ req'[r].kind = "update"
            /\ req'[r].id \in Accounts /\ Exists(req'[r].id)
            /\ req'[r].asked \subseteq UpdateColumns
      /\ UNCHANGED <<table, announced, profile, abandoned, overlapped>>
  BY ArriveType DEF Own, IInv
<1>2. req[r] = Idle
  BY DEF Arrive, Register, GoogleSignIn, UpdateProfile, Start
<1>3. HandlersOK!(r)' /\ ObjectsOK!(r)'
  BY <1>1, NullAssumption DEF Exists
<1>4. \A a \in Accounts : ~ Creating(r, a)' /\ r \notin Updating(a)'
  BY <1>1, NullAssumption DEF Creating, Updating
<1>5. /\ req[r].pc # "publish"
      /\ \A a \in Accounts : ~ Creating(r, a)
  BY <1>2, NullAssumption DEF Idle, Creating
<1>6. ~ Writing(r)'
  BY <1>1 DEF Writing
<1>7. WritersOK'
  BY <1>1, <1>6, WritersStep DEF IInv, Consistent
<1> QED
  BY <1>1, <1>3, <1>4, <1>5, <1>7, QuietStep DEF Consistent

\* A row is loaded: by a Google sign-in, or by an update nobody overlaps.
LEMMA LoadStep ==
  ASSUME IInv, NEW r \in Requests, NEW a \in Accounts, NEW asked \in SUBSET Columns,
         NEW p \in {"find_email", "flush"}, Loaded(r, a, asked, p),
         UNCHANGED <<table, announced, profile, abandoned>>,
         overlapped \subseteq overlapped',
         \/ /\ req[r].pc \in {"find_sub", "find_email"}
            /\ req[r].kind # "update" /\ p = "flush"
            /\ asked \subseteq {"sub", "token"}
         \/ /\ req[r].pc = "find_id" /\ req[r].kind = "update" /\ a = req[r].id
            /\ asked \subseteq UpdateColumns
            /\ Updating(a) # {} => a \in overlapped'
  PROVE  Consistent'
<1>1. /\ Own(r) /\ Exists(a) /\ table[a] # NoRow
      /\ req'[r].pc = p /\ req'[r].kind = req[r].kind /\ req'[r].id = a
      /\ req'[r].asked = asked /\ req'[r].seen = table[a]
      /\ \A c \in Columns \ asked : req'[r].row[c] = table[a][c]
  BY DEF Loaded, Exists
<1>2. HandlersOK!(r)'
  BY <1>1, NullAssumption DEF Exists
<1>3. ObjectsOK!(r)'
  BY <1>1
<1>4. \A b \in Accounts : ~ Creating(r, b)'
  BY <1>1 DEF Creating
<1>5. \A b \in Accounts : ~ Creating(r, b)
  BY NullAssumption DEF Creating, IInv, Consistent, HandlersOK
<1>6. ~ Writing(r)'
  BY <1>1 DEF Writing
<1>7. WritersOK'
  BY <1>1, <1>6, WritersStep DEF IInv, Consistent
<1>8. ASSUME NEW b \in Accounts, r \in Updating(b)', b \notin overlapped'
      PROVE  /\ \A q \in Updating(b) : q = r
             /\ Shown(table[b]) = Shown(req'[r].seen)
  BY <1>1, <1>8 DEF Updating
<1> QED
  BY <1>1, <1>2, <1>3, <1>4, <1>5, <1>7, <1>8, QuietStep DEF Consistent

\* r goes on without writing.
LEMMA MoveStep ==
  ASSUME IInv, NEW r \in Requests, NEW p \in PCs, Moved(r, p),
         UNCHANGED <<table, announced, profile, abandoned, overlapped>>,
         \/ /\ req[r].pc = "find_sub" /\ p = "find_email"
         \/ /\ req[r].pc = "find_email" /\ req[r].kind # "update" /\ p = "insert"
         \/ /\ req[r].pc = "find_email" /\ req[r].kind = "update" /\ p = "flush"
         \/ /\ req[r].pc = "flush" /\ p = "commit"
  PROVE  /\ HandlersOK' /\ ObjectsOK' /\ InsertedOK' /\ UpdatesOK' /\ EventsOK'
         /\ KeysOK' /\ AnnouncedIffCreated'
<1>1. /\ Own(r)
      /\ req'[r].pc = p /\ req'[r].kind = req[r].kind
      /\ req'[r].id = req[r].id /\ req'[r].asked = req[r].asked
      /\ req'[r].row = req[r].row /\ req'[r].seen = req[r].seen
  BY DEF Moved
<1>2. \A a \in Accounts : ~ Creating(r, a)
  BY NullAssumption DEF Creating, IInv, Consistent, HandlersOK
<1>3. \A a \in Accounts : ~ Creating(r, a)'
  BY <1>1, <1>2 DEF Creating
<1>4. HandlersOK!(r)'
  <2>1. ~ Inserted(r) /\ ~ Inserted(r)'
    BY <1>2, <1>3 DEF Inserted
  <2> QED
    BY <1>1, <2>1 DEF IInv, Consistent, HandlersOK, Exists
<1>5. ObjectsOK!(r)'
  BY <1>1 DEF IInv, Consistent, ObjectsOK
<1>6. ASSUME NEW a \in Accounts, r \in Updating(a)', a \notin overlapped'
      PROVE  /\ \A q \in Updating(a) : q = r
             /\ Shown(table[a]) = Shown(req'[r].seen)
  <2>1. r \in Updating(a)
    BY <1>1, <1>6 DEF Updating
  <2> QED
    BY <1>1, <1>6, <2>1 DEF IInv, Consistent, UpdatesOK
<1> QED
  BY <1>1, <1>2, <1>3, <1>4, <1>5, <1>6, QuietStep

\* The three SELECTs keep the invariant.
LEMMA FindStep ==
  ASSUME IInv, NEW r \in Requests, FindSub(r) \/ FindEmail(r) \/ FindId(r)
  PROVE  Consistent'
<1>1. ASSUME NEW p \in {"find_email", "insert", "flush"}, Moved(r, p) PROVE WritersOK'
  <2>1. Own(r) /\ ~ Writing(r)'
    BY <1>1 DEF Moved, Writing
  <2>2. UNCHANGED table
    BY DEF FindSub, FindEmail, FindId
  <2> QED
    BY <2>1, <2>2, WritersStep DEF IInv, Consistent
<1>2. CASE FindSub(r)
  <2>1. req[r].pc = "find_sub" /\ req[r].kind # "update"
    BY <1>2 DEF FindSub, IInv, Consistent, HandlersOK
  <2>2. CASE Moved(r, "find_email")
    BY <1>1, <1>2, <2>1, <2>2, FindSubFrame, MoveStep DEF IInv, Consistent
  <2>3. ASSUME NEW a \in Accounts, Loaded(r, a, {"token"}, "flush")
        PROVE  Consistent'
    BY <1>2, <2>1, <2>3, FindSubFrame, LoadStep DEF IInv
  <2> QED
    BY <1>2, <2>2, <2>3, FindSubFrame DEF IInv
<1>3. CASE FindEmail(r)
  <2>1. /\ req[r].pc = "find_email"
        /\ UNCHANGED <<table, announced, profile, abandoned, overlapped>>
    BY <1>3, FindEmailFrame DEF IInv
  <2>2. CASE req[r].kind = "update" /\ Moved(r, "flush")
    BY <1>1, <2>1, <2>2, MoveStep DEF Consistent
  <2>3. CASE req[r].kind # "update" /\ Moved(r, "insert")
    BY <1>1, <2>1, <2>3, MoveStep DEF Consistent
  <2>4. ASSUME NEW a \in Accounts, req[r].kind = "google",
               Loaded(r, a, {"sub", "token"}, "flush")
        PROVE  Consistent'
    BY <2>1, <2>4, LoadStep
  <2>5. CASE Finished(r)
    <3>1. \A a \in Accounts : ~ Creating(r, a)
      BY <2>1, NullAssumption DEF Creating, IInv, Consistent, HandlersOK
    <3> QED
      BY <2>1, <2>5, <3>1, FinishStep
  <2> QED
    BY <1>3, <2>2, <2>3, <2>4, <2>5, FindEmailFrame DEF IInv
<1>4. CASE FindId(r)
  <2>1. PICK p \in {"find_email", "flush"} : Loaded(r, req[r].id, req[r].asked, p)
    BY <1>4, FindIdFrame DEF IInv, Consistent
  <2>2. /\ req[r].pc = "find_id" /\ req[r].kind = "update"
        /\ req[r].id \in Accounts /\ req[r].asked \in SUBSET Columns
        /\ req[r].asked \subseteq UpdateColumns
    BY <1>4, <2>1 DEF FindId, Loaded, IInv, Consistent, HandlersOK, TypeOK, Request
  <2>3. /\ UNCHANGED <<table, announced, profile, abandoned>>
        /\ overlapped \subseteq overlapped'
        /\ Updating(req[r].id) # {} => req[r].id \in overlapped'
    BY <1>4, FindIdFrame DEF IInv, Consistent
  <2> QED
    BY <2>1, <2>2, <2>3, LoadStep
<1> QED
  BY <1>2, <1>3, <1>4

\* A flush that succeeds has waited for its locks and violates no constraint.
LEMMA FlushStep ==
  ASSUME IInv, NEW r \in Requests, Flush(r)
  PROVE  Consistent'
<1>1. /\ req[r].pc = "flush" /\ req[r].seen # NoRow
      /\ UNCHANGED <<table, announced, profile, abandoned, overlapped>>
  BY FlushFrame DEF IInv, Consistent, HandlersOK
<1>2. CASE Finished(r)
  BY <1>1, <1>2, FinishStep DEF Creating
<1>3. CASE Moved(r, "commit") /\ (Changed(r) # {} => MayWrite(r) /\ ~ Violates(r))
  <2>1. /\ Own(r) /\ req'[r].id = req[r].id /\ req'[r].row = req[r].row
        /\ req'[r].seen = req[r].seen
    BY <1>3 DEF Moved
  <2>2. Changed(r)' = Changed(r)
    BY <2>1 DEF Changed
  <2>3. NewKeys(r)' = NewKeys(r)
    BY <2>1, <2>2 DEF NewKeys
  <2>4. CASE Changed(r) = {}
    <3>1. ~ Writing(r)'
      BY <2>2, <2>4 DEF Writing
    <3> QED
      BY <1>1, <1>3, <2>1, <3>1, WritersStep, MoveStep DEF IInv, Consistent
  <2>5. CASE Changed(r) # {}
    <3>1. /\ req[r].row["email"] # Null
          /\ \A k \in NewKeys(r), a \in Accounts \ {req[r].id} :
               Exists(a) => table[a][k[1]] # k[2]
      BY <1>3, <2>5 DEF Violates
    <3>2. \A q \in Requests \ {r} : Writing(q) =>
            req[q].id # req[r].id /\ NewKeys(q) \cap NewKeys(r) = {}
      BY <1>3, <2>5 DEF MayWrite, WaitsFor
    <3>3. WritersOK'
      BY <1>1, <2>1, <2>3, <3>1, <3>2, WriteStep DEF IInv, Consistent
    <3> QED
      BY <1>1, <1>3, <3>3, MoveStep DEF Consistent
  <2> QED
    BY <2>4, <2>5
<1> QED
  BY <1>2, <1>3, FlushFrame DEF IInv

\* A failure anywhere keeps the invariant.
LEMMA AbortStep ==
  ASSUME IInv, NEW r \in Requests, Abort(r)
  PROVE  Consistent'
  BY AbortFrame, FinishStep DEF IInv, Consistent

-----------------------------------------------------------------------------
(* The steps that insert a row, commit one, or send an event.              *)

\* An INSERT that succeeds takes an id and keys that nobody has.
LEMMA InsertStep ==
  ASSUME IInv, NEW r \in Requests, Insert(r)
  PROVE  Consistent'
<1>1. /\ req[r].pc = "insert" /\ MayWrite(r)
      /\ req[r].kind # "update" /\ req[r].id = Null /\ req[r].seen = NoRow
      /\ UNCHANGED <<table, announced, profile, abandoned, overlapped>>
  BY InsertFrame DEF IInv, Consistent, HandlersOK
<1>2. \A a \in Accounts : ~ Creating(r, a)
  BY <1>1, NullAssumption DEF Creating
<1>3. CASE Finished(r)
  BY <1>1, <1>2, <1>3, FinishStep
<1>4. CASE /\ ~ Violates(r) /\ Own(r)
           /\ req'[r].id \in Fresh /\ req'[r].kind = req[r].kind
           /\ req'[r].row = req[r].row /\ req'[r].seen = NoRow
           /\ req'[r].pc = IF req[r].kind = "google" THEN "publish" ELSE "commit"
  <2> PICK a \in Accounts : a = req'[r].id
    BY <1>4 DEF Fresh
  <2>1. /\ ~ Exists(a)
        /\ \A q \in Requests : req[q].id # a
    BY <1>4 DEF Fresh
  <2>2. Creating(r, a)' /\ Inserted(r)'
    BY <1>1, <1>4 DEF Creating, Inserted
  <2>3. HandlersOK'
    <3>1. HandlersOK!(r)'
      BY <1>1, <1>4, <2>2, NullAssumption
    <3> QED
      BY <1>1, <1>4, <3>1, HandlersStep DEF IInv, Consistent, Exists
  <2>4. ObjectsOK'
    BY <1>4, ObjectsStep DEF IInv, Consistent
  <2>5. InsertedOK'
    <3>1. InsertedOK!(r)!(a)'
      BY <1>1, <1>4, <2>1 DEF Creating, Own, Exists
    <3>2. ASSUME NEW q \in Requests, NEW b \in Accounts, Creating(q, b)', b # a
          PROVE  InsertedOK!(q)!(b)'
      <4>1. q # r /\ Creating(q, b) /\ req'[q] = req[q]
        BY <1>4, <3>2 DEF Creating, Own
      <4>2. \A p \in Requests : Creating(p, b)' => Creating(p, b)
        BY <1>4, <3>2 DEF Creating, Own
      <4> QED
        BY <1>1, <4>1, <4>2 DEF InsertedOK, IInv, Consistent, Exists
    <3>3. \A q \in Requests : Creating(q, a)' => q = r
      BY <1>4, <2>1 DEF Creating, Own
    <3> QED
      BY <1>4, <3>1, <3>2, <3>3 DEF InsertedOK, Creating
  <2>6. WritersOK'
    <3>1. NewKeys(r)' = NewKeys(r)
      BY <1>1, <1>4 DEF NewKeys, Changed
    <3>2. /\ req[r].row["email"] # Null
          /\ \A k \in NewKeys(r), b \in Accounts \ {a} :
               Exists(b) => table[b][k[1]] # k[2]
      BY <1>1, <1>4, NullAssumption DEF Violates
    <3>3. \A q \in Requests \ {r} : Writing(q) =>
            req[q].id # a /\ NewKeys(q) \cap NewKeys(r) = {}
      BY <1>1, <2>1 DEF MayWrite, WaitsFor
    <3> QED
      BY <1>1, <1>4, <3>1, <3>2, <3>3, WriteStep DEF IInv, Consistent
  <2>7. UpdatesOK'
    BY <1>1, <1>4, UpdatesStep DEF IInv, Consistent, Updating
  <2>8. EventsOK'
    BY <1>1, <1>4, EventsStep DEF IInv, Consistent
  <2>9. KeysOK' /\ AnnouncedIffCreated'
    BY <1>1, <1>2, <1>4, KeysStep, AnnouncedStep DEF IInv, Consistent
  <2> QED
    BY <2>3, <2>4, <2>5, <2>6, <2>7, <2>8, <2>9 DEF Consistent
<1> QED
  BY <1>3, <1>4, InsertFrame DEF IInv

\* The event of an update shows the committed row, if no other update is open.
LEMMA PublishUpdateStep ==
  ASSUME IInv, NEW r \in Requests, Publish(r), req[r].kind = "update"
  PROVE  Consistent'
<1> DEFINE a == req[r].id
<1>1. /\ req[r].pc = "publish" /\ Finished(r) /\ Own(r)
      /\ profile' = [profile EXCEPT ![a] = <<req[r].row.email, req[r].row.name>>]
      /\ UNCHANGED <<table, announced, abandoned, overlapped>>
  BY PublishFrame DEF Finished, IInv
<1>2. /\ a \in Accounts /\ r \in Updating(a) /\ Exists(a)
      /\ \A b \in Accounts : ~ Creating(r, b)
  BY <1>1 DEF IInv, Consistent, HandlersOK, TypeOK, Request, Updating, Creating,
              Inserted
<1>3. /\ req'[r].pc = "idle" /\ req'[r].kind = "none"
      /\ req'[r].id = Null /\ req'[r].seen = NoRow
  BY <1>1 DEF Finished, Idle
<1>4. HandlersOK' /\ ObjectsOK'
  <2>1. HandlersOK!(r)' /\ ObjectsOK!(r)'
    BY <1>3
  <2> QED
    BY <1>1, <2>1, HandlersStep, ObjectsStep DEF IInv, Consistent, Exists
<1>5. InsertedOK'
  BY <1>1, <1>3, NullAssumption, InsertedStep DEF IInv, Consistent, Creating
<1>6. WritersOK'
  BY <1>1, <1>3, WritersStep DEF IInv, Consistent, Writing
<1>7. UpdatesOK'
  BY <1>1, <1>3, UpdatesStep DEF IInv, Consistent, Updating
<1>8. KeysOK' /\ AnnouncedIffCreated'
  BY <1>1, <1>2, KeysStep, AnnouncedStep DEF IInv, Consistent
<1>9. EventsOK'
  <2>1. ASSUME NEW b \in Accounts, b # a
        PROVE  /\ profile'[b] = profile[b]
               /\ \A q \in Updating(b) : q \in Updating(b)' /\ req'[q] = req[q]
    BY <1>1, <2>1 DEF Updating, Own, IInv, TypeOK
  <2>2. a \notin overlapped => profile'[a] = Shown(table[a])
    <3>1. a \notin overlapped => Shown(table[a]) = Shown(req[r].row)
      BY <1>1, <1>2 DEF UpdatesOK, IInv, Consistent
    <3>2. <<req[r].row.email, req[r].row.name>> = Shown(req[r].row)
      BY DEF Shown
    <3> QED
      BY <1>1, <1>2, <3>1, <3>2 DEF IInv, TypeOK
  <2>3. \A b \in Accounts : ~ Exists(b) => profile'[b] = NoEvent
    BY <1>2, <2>1 DEF EventsOK, IInv, Consistent
  <2>4. ASSUME NEW b \in Accounts, profile'[b] # NoEvent, b \notin overlapped,
               \A q \in Updating(b)' : req'[q].pc # "publish"
        PROVE  profile'[b] = Shown(table[b])
    <3>1. CASE b = a
      BY <2>2, <2>4, <3>1
    <3>2. CASE b # a
      <4>1. \A q \in Updating(b) : req[q].pc # "publish"
        BY <2>1, <2>4, <3>2
      <4> QED
        BY <2>1, <2>4, <3>2, <4>1 DEF EventsOK, IInv, Consistent
    <3> QED
      BY <3>1, <3>2
  <2> QED
    BY <1>1, <2>3, <2>4 DEF EventsOK, Exists, Shown
<1> QED
  BY <1>4, <1>5, <1>6, <1>7, <1>8, <1>9 DEF Consistent

\* The event of a new account: after the commit of a registration, before that
\* of a Google sign-in.
LEMMA PublishNewStep ==
  ASSUME IInv, NEW r \in Requests, Publish(r), req[r].kind # "update"
  PROVE  Consistent'
<1> DEFINE a == req[r].id
<1>1. /\ req[r].pc = "publish" /\ announced' = announced \cup {a}
      /\ UNCHANGED <<table, profile, abandoned, overlapped>>
  BY PublishFrame DEF IInv
<1>2. a \in Accounts
  BY <1>1 DEF IInv, Consistent, HandlersOK, TypeOK, Request
<1>3. CASE req[r].kind # "google"
  <2>1. /\ Finished(r) /\ Own(r)
        /\ req'[r].pc = "idle" /\ req'[r].kind = "none"
        /\ req'[r].id = Null /\ req'[r].seen = NoRow
    BY <1>3, PublishFrame DEF IInv, Finished, Idle
  <2>2. Exists(a)
    BY <1>1, <1>2, <1>3
    DEF IInv, Consistent, HandlersOK, InsertedOK, Inserted, Creating
  <2>3. HandlersOK!(r)' /\ ObjectsOK!(r)'
    BY <2>1
  <2>4. HandlersOK' /\ ObjectsOK'
    BY <1>1, <2>1, <2>3, HandlersStep, ObjectsStep DEF IInv, Consistent, Exists
  <2>5. \A q \in Requests, b \in Accounts :
          Creating(q, b)' => q # r /\ Creating(q, b) /\ req'[q] = req[q]
    BY <2>1, NullAssumption DEF Creating, Own
  <2>6. InsertedOK'
    BY <1>1, <2>5 DEF InsertedOK, IInv, Consistent, Exists
  <2>7. WritersOK'
    BY <1>1, <2>1, WritersStep DEF IInv, Consistent, Writing
  <2>8. UpdatesOK'
    BY <1>1, <2>1, UpdatesStep DEF IInv, Consistent, Updating
  <2>9. EventsOK' /\ KeysOK'
    BY <1>1, <2>1, EventsStep, KeysStep DEF IInv, Consistent
  <2>10. AnnouncedIffCreated'
    <3> SUFFICES ASSUME NEW b \in Accounts, ~ (Exists(b) <=> b \in announced'),
                        b \notin abandoned
                 PROVE  \E q \in Requests : Creating(q, b)'
      BY <1>1 DEF AnnouncedIffCreated, Exists
    <3>1. b # a /\ ~ (Exists(b) <=> b \in announced)
      BY <1>1, <2>2
    <3>2. PICK q \in Requests : Creating(q, b)
      BY <3>1 DEF AnnouncedIffCreated, IInv, Consistent
    <3>3. q # r
      BY <3>1, <3>2 DEF Creating
    <3> QED
      BY <2>1, <3>2, <3>3 DEF Creating, Own
  <2> QED
    BY <2>4, <2>6, <2>7, <2>8, <2>9, <2>10 DEF Consistent
<1>4. CASE req[r].kind = "google"
  <2>1. /\ Own(r) /\ req'[r].pc = "commit" /\ req'[r].kind = "google"
        /\ req'[r].id = a /\ req'[r].row = req[r].row
        /\ req'[r].seen = NoRow /\ req[r].seen = NoRow
    BY <1>1, <1>4, PublishFrame DEF Moved, IInv, Consistent, HandlersOK
  <2>2. /\ Creating(r, a) /\ Creating(r, a)' /\ Inserted(r)'
        /\ ~ Exists(a)
    BY <1>1, <1>2, <1>4, <2>1 DEF Creating, Inserted, InsertedOK, IInv, Consistent
  <2>3. HandlersOK!(r)' /\ ObjectsOK!(r)'
    BY <1>2, <2>1, <2>2, NullAssumption
  <2>4. HandlersOK' /\ ObjectsOK'
    BY <1>1, <2>1, <2>3, HandlersStep, ObjectsStep DEF IInv, Consistent, Exists
  <2>5. ASSUME NEW q \in Requests, NEW b \in Accounts
        PROVE  Creating(q, b)' <=> Creating(q, b)
    BY <1>4, <2>1 DEF Creating, Own
  <2>6. InsertedOK'
    <3>1. ASSUME NEW q \in Requests, NEW b \in Accounts, Creating(q, b)
          PROVE  InsertedOK!(q)!(b)'
      <4>1. \A p \in Requests : Creating(p, b)' => p = q
        BY <2>5, <3>1 DEF InsertedOK, IInv, Consistent
      <4>2. CASE q = r
        BY <1>1, <2>1, <2>2, <3>1, <4>1, <4>2 DEF Creating, Exists
      <4>3. CASE q # r
        BY <1>1, <2>1, <3>1, <4>1, <4>3 DEF InsertedOK, IInv, Consistent, Exists, Own
      <4> QED
        BY <4>2, <4>3
    <3> QED
      BY <2>5, <3>1 DEF InsertedOK
  <2>7. WritersOK'
    <3>1. Writing(r)
      BY <1>1, <1>4, <2>1 DEF Writing, Changed
    <3>2. NewKeys(r)' = NewKeys(r)
      BY <2>1 DEF NewKeys, Changed
    <3> QED
      BY <1>1, <2>1, <3>1, <3>2, WriteStep DEF IInv, Consistent, WritersOK
  <2>8. UpdatesOK'
    BY <1>1, <2>1, UpdatesStep DEF IInv, Consistent, Updating
  <2>9. EventsOK' /\ KeysOK'
    BY <1>1, <2>1, EventsStep, KeysStep DEF IInv, Consistent
  <2>10. AnnouncedIffCreated'
    <3> SUFFICES ASSUME NEW b \in Accounts, ~ (Exists(b) <=> b \in announced'),
                        b \notin abandoned
                 PROVE  \E q \in Requests : Creating(q, b)'
      BY <1>1 DEF AnnouncedIffCreated, Exists
    <3>1. CASE b = a
      BY <1>4, <2>1, <3>1 DEF Creating
    <3>2. CASE b # a
      BY <1>1, <2>5, <3>2 DEF AnnouncedIffCreated, IInv, Consistent
    <3> QED
      BY <3>1, <3>2
  <2> QED
    BY <2>4, <2>6, <2>7, <2>8, <2>9, <2>10 DEF Consistent
<1> QED
  BY <1>3, <1>4

\* The row a commit leaves, and what it has of the row before.
LEMMA WrittenRow ==
  ASSUME IInv, NEW r \in Requests, Commit(r)
  PROVE  LET a == req[r].id IN
         /\ a \in Accounts
         /\ Written(r) \in Row
         /\ \/ Creating(r, a) /\ ~ Exists(a) /\ Changed(r) = Columns
            \/ ~ Creating(r, a) /\ Exists(a) /\ req[r].seen # NoRow
         /\ \A c \in Columns :
              Written(r)[c] = IF c \in Changed(r) THEN req[r].row[c] ELSE table[a][c]
         /\ Changed(r) # {} => Writing(r)
<1> DEFINE a == req[r].id
<1>1. /\ req[r].pc = "commit" /\ a \in Accounts /\ req[r].row \in Row
      /\ req[r].kind = "update" => req[r].seen # NoRow
  BY DEF Commit, IInv, Consistent, HandlersOK, TypeOK, Request
<1>2. Changed(r) # {} => Writing(r)
  BY <1>1 DEF Writing
<1>3. CASE req[r].seen = NoRow
  <2>1. Creating(r, a) /\ Changed(r) = Columns /\ Written(r) = req[r].row
    BY <1>1, <1>3 DEF Creating, Changed, Written
  <2>2. ~ Exists(a)
    BY <1>1, <2>1 DEF InsertedOK, IInv, Consistent
  <2> QED
    BY <1>1, <1>2, <2>1, <2>2
<1>4. CASE req[r].seen # NoRow
  <2>1. ~ Creating(r, a) /\ ~ Inserted(r)
    BY <1>4 DEF Creating, Inserted
  <2>2. Exists(a)
    BY <1>1, <2>1 DEF HandlersOK, IInv, Consistent
  <2>3. table[a] \in Row
    BY <1>1, <2>2 DEF Exists, IInv, TypeOK
  <2>4. Written(r) = [c \in Columns |-> IF c \in Changed(r) THEN req[r].row[c]
                                                          ELSE table[a][c]]
    BY <1>4 DEF Written
  <2>5. Written(r) \in Row
    BY <1>1, <2>3, <2>4 DEF Row
  <2> QED
    BY <1>1, <1>2, <1>4, <2>1, <2>2, <2>4, <2>5
<1> QED
  BY <1>3, <1>4

\* A commit: what its row held before is replaced where the request wrote.
LEMMA CommitKeys ==
  ASSUME IInv, NEW r \in Requests, Commit(r)
  PROVE  KeysOK' /\ WritersOK'
<1> DEFINE a == req[r].id
           row == Written(r)
<1>1. /\ req[r].pc = "commit" /\ table' = [table EXCEPT ![a] = row]
      /\ Own(r)
  BY CommitFrame DEF IInv, Finished, Moved
<1>2. /\ a \in Accounts /\ row \in Row
      /\ \/ Creating(r, a) /\ ~ Exists(a) /\ Changed(r) = Columns
         \/ ~ Creating(r, a) /\ Exists(a) /\ req[r].seen # NoRow
      /\ \A c \in Columns :
           row[c] = IF c \in Changed(r) THEN req[r].row[c] ELSE table[a][c]
      /\ Changed(r) # {} => Writing(r)
  BY WrittenRow
<1> HIDE DEF row
<1>3. /\ table'[a] = row /\ table'[a] # NoRow
      /\ \A b \in Accounts \ {a} : table'[b] = table[b]
  BY <1>1, <1>2, NoRowAssumption DEF IInv, TypeOK
<1>4. Changed(r) \subseteq Columns
  BY DEF Changed
<1>5. ~ Writing(r)'
  BY CommitFrame DEF IInv, Finished, Moved, Idle, Writing
\* The values the commit writes are new; those it keeps were the row's own.
<1>6. ASSUME NEW c \in UniqueColumns, NEW b \in Accounts, b # a, Exists(b),
             row[c] = table[b][c]
      PROVE  row[c] = Null /\ c # "email"
  <2>1. CASE c \in Changed(r)
    <3>1. Writing(r) /\ row[c] = req[r].row[c]
      BY <1>2, <2>1 DEF UniqueColumns
    <3>2. req[r].row[c] # Null => <<c, req[r].row[c]>> \in NewKeys(r)
      BY <1>6, <2>1 DEF NewKeys
    <3>3. row[c] = Null
      BY <1>6, <3>1, <3>2 DEF IInv, Consistent, WritersOK
    <3>4. c # "email"
      BY <3>1, <3>3 DEF IInv, Consistent, WritersOK
    <3> QED
      BY <3>3, <3>4
  <2>2. CASE c \notin Changed(r)
    <3>1. Exists(a) /\ row[c] = table[a][c]
      BY <1>2, <2>2 DEF UniqueColumns
    <3>2. /\ table[a].email # table[b].email
          /\ table[a].sub = table[b].sub => table[a].sub = Null
      BY <1>2, <1>6, <3>1 DEF IInv, Consistent, KeysOK
    <3>3. c = "sub" \/ c = "email"
      BY DEF UniqueColumns
    <3> QED
      BY <1>6, <3>1, <3>2, <3>3
  <2> QED
    BY <2>1, <2>2
<1>7. row["email"] # Null
  <2>1. CASE "email" \in Changed(r)
    BY <1>2, <2>1 DEF IInv, Consistent, WritersOK
  <2>2. CASE "email" \notin Changed(r)
    BY <1>2, <2>2 DEF IInv, Consistent, KeysOK
  <2> QED
    BY <2>1, <2>2
<1>8. KeysOK'
  <2>1. ASSUME NEW b \in Accounts, b # a, Exists(b)
        PROVE  /\ row.email # table[b].email
               /\ row.sub = table[b].sub => row.sub = Null
    BY <1>6, <2>1 DEF UniqueColumns
  <2>2. ASSUME NEW b \in Accounts, b # a, Exists(b)
        PROVE  /\ table[b].email # Null
               /\ table[b].sub = row.sub => table[b].sub = Null
               /\ \A d \in Accounts \ {b} : Exists(d) =>
                    /\ table[b].email # table[d].email
                    /\ table[b].sub = table[d].sub => table[b].sub = Null
    BY <2>1, <2>2 DEF IInv, Consistent, KeysOK
  <2>3. ASSUME NEW b \in Accounts, table'[b] # NoRow
        PROVE  /\ table'[b].email # Null
               /\ \A d \in Accounts \ {b} : table'[d] # NoRow =>
                    /\ table'[b].email # table'[d].email
                    /\ table'[b].sub = table'[d].sub => table'[b].sub = Null
    <3>1. CASE b = a
      <4>1. table'[b] = row
        BY <1>3, <3>1
      <4>2. ASSUME NEW d \in Accounts \ {b}, table'[d] # NoRow
            PROVE  table'[d] = table[d] /\ Exists(d) /\ d # a
        BY <1>3, <3>1, <4>2 DEF Exists
      <4> QED
        BY <1>7, <2>1, <4>1, <4>2
    <3>2. CASE b # a
      <4>1. table'[b] = table[b] /\ Exists(b)
        BY <1>3, <2>3, <3>2 DEF Exists
      <4>2. ASSUME NEW d \in Accounts \ {b}, table'[d] # NoRow
            PROVE  table'[d] = row \/ (table'[d] = table[d] /\ Exists(d))
        BY <1>3, <4>2 DEF Exists
      <4> QED
        BY <2>1, <2>2, <3>2, <4>1, <4>2
    <3> QED
      BY <3>1, <3>2
  <2> QED
    BY <2>3 DEF KeysOK, Exists
\* Another transaction that has written has values of its own.
<1>9. ASSUME NEW q \in Requests, q # r, Writing(q), req[q].id # a,
             NEW k \in NewKeys(q)
      PROVE  row[k[1]] # k[2]
  <2>1. PICK c \in Changed(q) \cap UniqueColumns :
          k = <<c, req[q].row[c]>> /\ k \notin Columns \X {Null}
    BY DEF NewKeys
  <2>2. c \in Columns /\ k[1] = c /\ k[2] = req[q].row[c] /\ req[q].row[c] # Null
    BY <2>1 DEF UniqueColumns
  <2>3. CASE c \in Changed(r)
    <3>1. Writing(r) /\ row[c] = req[r].row[c]
      BY <1>2, <2>2, <2>3
    <3>2. k \notin NewKeys(r)
      BY <1>9, <3>1 DEF IInv, Consistent, WritersOK
    <3>3. req[r].row[c] = req[q].row[c] => k \in NewKeys(r)
      BY <2>1, <2>2, <2>3 DEF NewKeys
    <3> QED
      BY <2>2, <3>1, <3>2, <3>3
  <2>4. CASE c \notin Changed(r)
    <3>1. Exists(a) /\ row[c] = table[a][c]
      BY <1>2, <2>2, <2>4
    <3>2. table[a][k[1]] # k[2]
      BY <1>2, <1>9, <3>1 DEF IInv, Consistent, WritersOK
    <3> QED
      BY <2>2, <3>1, <3>2
  <2> QED
    BY <2>3, <2>4
<1>10. WritersOK'
  <2>1. ASSUME NEW q \in Requests, Writing(q)'
        PROVE  /\ q # r /\ req'[q] = req[q] /\ Writing(q)
               /\ NewKeys(q)' = NewKeys(q)
    <3>1. q # r
      BY <1>5, <2>1
    <3> QED
      BY <1>1, <2>1, <3>1, Others DEF Own
  <2>2. ASSUME NEW q \in Requests, Writing(q)', NEW k \in NewKeys(q),
               NEW b \in Accounts \ {req[q].id}, table'[b] # NoRow
        PROVE  table'[b][k[1]] # k[2]
    <3>1. CASE b = a
      BY <1>3, <1>9, <2>1, <2>2, <3>1
    <3>2. CASE b # a
      <4>1. table'[b] = table[b] /\ Exists(b)
        BY <1>3, <2>2, <3>2 DEF Exists
      <4> QED
        BY <2>1, <2>2, <4>1 DEF IInv, Consistent, WritersOK
    <3> QED
      BY <3>1, <3>2
  <2>3. ASSUME NEW q \in Requests, Writing(q)'
        PROVE  /\ req'[q].row["email"] # Null
               /\ \A p \in Requests \ {q} : Writing(p)' =>
                    /\ req'[p].id # req'[q].id
                    /\ NewKeys(p)' \cap NewKeys(q)' = {}
    BY <2>1, <2>3 DEF IInv, Consistent, WritersOK
  <2> QED
    BY <2>1, <2>2, <2>3 DEF WritersOK, Exists
<1> QED
  BY <1>8, <1>10

\* A commit creates the row of its account or changes it for good.
LEMMA CommitStep ==
  ASSUME IInv, NEW r \in Requests, Commit(r)
  PROVE  Consistent'
<1> PICK a \in Accounts : a = req[r].id
  BY WrittenRow
<1> DEFINE row == Written(r)
<1>1. /\ req[r].pc = "commit" /\ table' = [table EXCEPT ![a] = row] /\ Own(r)
      /\ UNCHANGED <<announced, profile, abandoned, overlapped>>
  BY CommitFrame DEF IInv, Finished, Moved
<1>2. /\ a \in Accounts /\ row \in Row
      /\ \/ Creating(r, a) /\ ~ Exists(a) /\ Changed(r) = Columns
         \/ ~ Creating(r, a) /\ Exists(a) /\ req[r].seen # NoRow
      /\ \A c \in Columns :
           row[c] = IF c \in Changed(r) THEN req[r].row[c] ELSE table[a][c]
  BY WrittenRow
<1> HIDE DEF row
<1>3. /\ table'[a] = row /\ table'[a] # NoRow
      /\ \A b \in Accounts \ {a} : table'[b] = table[b]
  BY <1>1, <1>2, NoRowAssumption DEF IInv, TypeOK
<1>4. /\ Exists(a)'
      /\ \A b \in Accounts \ {a} : Exists(b)' <=> Exists(b)
      /\ \A b \in Accounts : Exists(b) => Exists(b)'
  BY <1>3 DEF Exists
<1>5. \/ /\ req[r].kind = "google"
         /\ req'[r].pc = "idle" /\ req'[r].kind = "none" /\ req'[r].id = Null
         /\ req'[r].seen = NoRow
      \/ /\ req[r].kind # "google"
         /\ req'[r].pc = "publish" /\ req'[r].kind = req[r].kind
         /\ req'[r].id = a /\ req'[r].asked = req[r].asked
         /\ req'[r].row = req[r].row /\ req'[r].seen = req[r].seen
  BY CommitFrame DEF IInv, Finished, Moved, Idle
<1>6. HandlersOK' /\ ObjectsOK'
  <2>1. HandlersOK!(r)'
    BY <1>1, <1>2, <1>4, <1>5, NullAssumption DEF IInv, Consistent, HandlersOK
  <2>2. ObjectsOK!(r)'
    BY <1>1, <1>5 DEF IInv, Consistent, ObjectsOK
  <2> QED
    BY <1>1, <1>4, <2>1, <2>2, HandlersStep, ObjectsStep DEF IInv, Consistent
<1>7. \A q \in Requests, b \in Accounts : Creating(q, b)' => Creating(q, b)
  BY <1>1, <1>5, NullAssumption DEF Creating, Own
<1>8. InsertedOK'
  <2> SUFFICES ASSUME NEW q \in Requests, NEW b \in Accounts, Creating(q, b)'
               PROVE  InsertedOK!(q)!(b)'
    BY DEF InsertedOK
  <2>1. InsertedOK!(q)!(b) /\ Creating(q, b)
    BY <1>7 DEF IInv, Consistent, InsertedOK
  <2>2. \A p \in Requests : Creating(p, b)' => p = q
    BY <1>7, <2>1
  <2>3. CASE q = r
    <3>1. b = a /\ req'[r].pc = "publish" /\ req'[r].kind # "google"
      BY <1>5, <2>1, <2>3, NullAssumption DEF Creating
    <3> QED
      BY <1>4, <2>2, <2>3, <3>1
  <2>4. CASE q # r
    <3>1. req'[q] = req[q]
      BY <1>1, <2>4 DEF Own
    <3>2. Exists(b)' <=> Exists(b)
      <4>1. ~ (b = a /\ Creating(r, a))
        BY <2>1, <2>4
      <4> QED
        BY <1>2, <1>4, <4>1
    <3> QED
      BY <1>1, <2>1, <2>2, <3>1, <3>2
  <2> QED
    BY <2>3, <2>4
<1>9. Exists(a) /\ req[r].kind # "update" => Shown(row) = Shown(table[a])
  <2> SUFFICES ASSUME Exists(a), req[r].kind # "update"
               PROVE  /\ row["email"] = table[a]["email"]
                      /\ row["name"] = table[a]["name"]
    BY DEF Shown
  <2>1. req[r].seen # NoRow
    BY <1>2
  <2>2. "email" \notin Changed(r) /\ "name" \notin Changed(r)
    BY <2>1 DEF IInv, Consistent, ObjectsOK, Changed
  <2> QED
    BY <1>2, <2>2
<1>10. ASSUME NEW q \in Requests, NEW b \in Accounts
       PROVE  q \in Updating(b)' <=> q \in Updating(b)
  BY <1>1, <1>5 DEF Updating, Own
<1>11. UpdatesOK'
  <2> SUFFICES ASSUME NEW q \in Requests, NEW b \in Accounts, q \in Updating(b),
                      b \notin overlapped
               PROVE  /\ Updating(b)' = {q}
                      /\ Shown(table'[b]) = Shown(IF req'[q].pc = "publish"
                                                  THEN req'[q].row ELSE req'[q].seen)
    BY <1>1, <1>10 DEF UpdatesOK, Shown
  <2>1. /\ Updating(b) = {q} /\ req[q].id = b
        /\ Shown(table[b]) = Shown(IF req[q].pc = "publish" THEN req[q].row
                                                           ELSE req[q].seen)
    BY DEF UpdatesOK, IInv, Consistent, Updating
  <2>2. Updating(b)' = {q}
    BY <1>10, <2>1 DEF Updating
  <2>3. CASE q = r
    <3>1. b = a /\ req'[q].pc = "publish" /\ req'[q].row = req[r].row /\ Exists(a)
          /\ req[r].seen # NoRow
      BY <1>2, <1>5, <2>1, <2>3 DEF Updating, Creating
    <3>2. /\ table[a]["email"] = req[r].seen["email"]
          /\ table[a]["name"] = req[r].seen["name"]
      BY <1>1, <2>1, <2>3, <3>1 DEF Shown
    <3>3. row["email"] = req[r].row["email"] /\ row["name"] = req[r].row["name"]
      BY <1>2, <3>1, <3>2 DEF Changed
    <3> QED
      BY <1>3, <2>2, <3>1, <3>3 DEF Shown
  <2>4. CASE q # r
    <3>1. req'[q] = req[q]
      BY <1>1, <2>4 DEF Own
    <3>2. Shown(table'[b]) = Shown(table[b])
      <4>1. CASE b = a
        <5>1. req[r].kind # "update"
          BY <1>1, <2>1, <2>4, <4>1 DEF Updating
        <5>2. ~ Inserted(q)
          BY <2>1 DEF Inserted, Creating, Updating
        <5>3. Exists(a)
          BY <2>1, <4>1, <5>2, NullAssumption DEF IInv, Consistent, HandlersOK
        <5> QED
          BY <1>3, <1>9, <4>1, <5>1, <5>3
      <4>2. CASE b # a
        BY <1>3, <4>2
      <4> QED
        BY <4>1, <4>2
    <3> QED
      BY <2>1, <2>2, <3>1, <3>2
  <2> QED
    BY <2>3, <2>4
<1>12. EventsOK'
  <2>1. \A b \in Accounts : ~ Exists(b)' => profile[b] = NoEvent
    BY <1>4 DEF IInv, Consistent, EventsOK
  <2>2. ASSUME NEW b \in Accounts, profile[b] # NoEvent, b \notin overlapped,
               \A q \in Updating(b)' : req'[q].pc # "publish"
        PROVE  profile[b] = Shown(table'[b])
    <3>1. r \notin Updating(b)
      BY <1>5, <1>10, <2>2 DEF Updating
    <3>2. \A q \in Updating(b) : req[q].pc # "publish"
      BY <1>1, <1>10, <2>2, <3>1 DEF Own, Updating
    <3>3. Exists(b) /\ profile[b] = Shown(table[b])
      BY <2>2, <3>2 DEF IInv, Consistent, EventsOK
    <3>4. CASE b = a
      <4>1. req[r].kind # "update"
        BY <1>1, <3>1, <3>4 DEF Updating
      <4> QED
        BY <1>3, <1>9, <3>3, <3>4, <4>1
    <3>5. CASE b # a
      BY <1>3, <3>3, <3>5
    <3> QED
      BY <3>4, <3>5
  <2> QED
    BY <1>1, <2>1, <2>2 DEF EventsOK, Shown
<1>13. AnnouncedIffCreated'
  <2> SUFFICES ASSUME NEW b \in Accounts, ~ (Exists(b)' <=> b \in announced),
                      b \notin abandoned
               PROVE  \E q \in Requests : Creating(q, b)'
    BY <1>1 DEF AnnouncedIffCreated
  <2>1. CASE b = a /\ Creating(r, a)
    <3>1. req[r].kind # "google"
      BY <1>1, <1>4, <2>1 DEF IInv, Consistent, InsertedOK
    <3> QED
      BY <1>5, <2>1, <3>1 DEF Creating
  <2>2. CASE ~ (b = a /\ Creating(r, a))
    <3>1. Exists(b)' <=> Exists(b)
      BY <1>2, <1>4, <2>2
    <3>2. PICK q \in Requests : Creating(q, b)
      BY <3>1 DEF IInv, Consistent, AnnouncedIffCreated
    <3>3. q # r
      BY <2>2, <3>2 DEF Creating
    <3> QED
      BY <1>1, <3>2, <3>3 DEF Creating, Own
  <2> QED
    BY <2>1, <2>2
<1> QED
  BY <1>6, <1>8, <1>11, <1>12, <1>13, CommitKeys DEF Consistent

-----------------------------------------------------------------------------
(* The invariant, and the properties it implies.                           *)

\* Every step keeps the types of rows, events and requests.
LEMMA TypeStep ==
  ASSUME IInv, NEW r \in Requests,
         Arrive(r) \/ Work(r) \/ Acquire(r) \/ Abort(r)
  PROVE  TypeOK'
<1> USE DEF IInv
<1>1. CASE Arrive(r)
  BY <1>1, ArriveType DEF TypeOK
<1>2. CASE FindSub(r)
  BY <1>2, FindSubFrame DEF TypeOK, Moved, Loaded, Own
<1>3. CASE FindEmail(r)
  BY <1>3, FindEmailFrame DEF TypeOK, Moved, Loaded, Finished, Own
<1>4. CASE FindId(r)
  BY <1>4, FindIdFrame DEF TypeOK, Loaded, Own, Consistent
<1>5. CASE Publish(r)
  <2>1. req[r].id \in Accounts
    BY <1>5, PublishFrame DEF Consistent, HandlersOK, TypeOK, Request
  <2>2. /\ req[r].row.email \in Emails \cup {Null}
        /\ req[r].row.name \in Names \cup {Null}
    BY DEF TypeOK, Request, Row
  <2>3. /\ req' \in [Requests -> Request]
        /\ announced' \subseteq Accounts
        /\ UNCHANGED <<table, abandoned, overlapped>>
    BY <1>5, <2>1, PublishFrame DEF TypeOK, Moved, Finished, Own
  <2>4. profile' \in [Accounts ->
          {NoEvent} \cup (Emails \cup {Null}) \X (Names \cup {Null})]
    <3>1. <<req[r].row.email, req[r].row.name>>
            \in (Emails \cup {Null}) \X (Names \cup {Null})
      BY <2>2
    <3> QED
      BY <1>5, <3>1, PublishFrame DEF TypeOK
  <2> QED
    BY <2>3, <2>4 DEF TypeOK
<1>6. CASE Commit(r)
  BY <1>6, CommitFrame, WrittenRow DEF TypeOK, Moved, Finished, Own
<1>7. CASE Insert(r)
  BY <1>7, InsertFrame DEF TypeOK, Finished, Own
<1>8. CASE Flush(r)
  BY <1>8, FlushFrame DEF TypeOK, Moved, Finished, Own
<1>9. CASE Abort(r)
  BY <1>9, AbortFrame DEF TypeOK, Finished, Own, Consistent
<1> QED
  BY <1>1, <1>2, <1>3, <1>4, <1>5, <1>6, <1>7, <1>8, <1>9 DEF Work, Acquire

\* The empty table satisfies the invariant.
LEMMA InitInv == Init => IInv
<1> SUFFICES ASSUME Init PROVE IInv
  OBVIOUS
<1>1. TypeOK
  BY IdleType DEF Init, TypeOK
<1>2. \A r \in Requests : req[r] = Idle
  BY DEF Init
<1>3. \A r \in Requests : /\ req[r].pc = "idle" /\ req[r].kind = "none"
                          /\ req[r].id = Null /\ req[r].seen = NoRow
  BY <1>2 DEF Idle
<1>4. \A r \in Requests, a \in Accounts : ~ Creating(r, a)
  BY <1>3, NullAssumption DEF Creating
<1>5. \A a \in Accounts : ~ Exists(a)
  BY DEF Init, Exists
<1>6. HandlersOK /\ ObjectsOK
  BY <1>3 DEF HandlersOK, ObjectsOK
<1>7. InsertedOK /\ WritersOK
  BY <1>3, <1>4 DEF InsertedOK, WritersOK, Writing
<1>8. UpdatesOK /\ EventsOK
  BY <1>3, <1>5 DEF UpdatesOK, EventsOK, Updating, Init
<1>9. KeysOK /\ AnnouncedIffCreated
  BY <1>5 DEF KeysOK, AnnouncedIffCreated, Init
<1> QED
  BY <1>1, <1>6, <1>7, <1>8, <1>9 DEF IInv, Consistent

\* Every step of every request keeps the invariant.
LEMMA StepInv == IInv /\ [Next]_vars => IInv'
<1> SUFFICES ASSUME IInv, [Next]_vars PROVE IInv'
  OBVIOUS
<1>1. ASSUME NEW r \in Requests, Arrive(r) \/ Work(r) \/ Acquire(r) \/ Abort(r)
      PROVE  IInv'
  <2>1. Consistent'
    BY <1>1, ArriveStep, FindStep, PublishUpdateStep, PublishNewStep, CommitStep,
       InsertStep, FlushStep, AbortStep DEF Work, Acquire
  <2> QED
    BY <1>1, <2>1, TypeStep DEF IInv
<1>2. CASE UNCHANGED vars
  BY <1>2 DEF vars, IInv, TypeOK, Consistent, HandlersOK, InsertedOK, WritersOK,
     ObjectsOK, UpdatesOK, EventsOK, KeysOK, AnnouncedIffCreated, Inserted,
     Creating, Exists, Writing, NewKeys, Changed, Updating, Shown
<1> QED
  BY <1>1, <1>2 DEF Next

\* The inductive invariant holds in every reachable state, for any number of
\* accounts, keys, names and concurrent requests.
THEOREM Invariance == Spec => []IInv
<1>1. Init => IInv
  BY InitInv
<1>2. IInv /\ [Next]_vars => IInv'
  BY StepInv
<1> QED
  BY <1>1, <1>2, PTL DEF Spec

\* Rows, events and the local variables of the handlers have their types.
THEOREM TypesHold == Spec => []TypeOK
<1>1. IInv => TypeOK
  BY DEF IInv
<1> QED
  BY <1>1, Invariance, PTL

\* No two committed accounts share an email or a Google account, whatever the
\* find_by_email and find_by_google_sub of concurrent requests saw: the unique
\* constraints and the locks of add_user, update_user and get_or_create_user.
THEOREM KeysHold == Spec => []KeysOK
<1>1. IInv => KeysOK
  BY DEF IInv, Consistent
<1> QED
  BY <1>1, Invariance, PTL

\* A row without its registration event, or an event without its row, has a
\* request at work on it or one that failed half way (create_user and
\* get_or_create_user put commit and event in opposite orders).
THEOREM AnnouncementsHold == Spec => []AnnouncedIffCreated
<1>1. IInv => AnnouncedIffCreated
  BY DEF IInv, Consistent
<1> QED
  BY <1>1, Invariance, PTL

\* The last event of a profile shows the row, unless updates of the account
\* overlapped, one is open, or an event was lost (update_user publishes after
\* its commit what it has in memory).
THEOREM EventsHold == Spec => []EventsMatchRows
<1>1. IInv => EventsMatchRows
  <2> SUFFICES ASSUME IInv, NEW a \in Accounts, profile[a] # NoEvent,
                      a \notin overlapped, Updating(a) = {}
               PROVE  profile[a] = <<table[a].email, table[a].name>>
    BY DEF EventsMatchRows
  <2>1. profile[a] = Shown(table[a])
    BY DEF IInv, Consistent, EventsOK
  <2> QED
    BY <2>1 DEF Shown
<1> QED
  BY <1>1, Invariance, PTL

\* A commit changes only the columns its request asked for: no PATCH undoes a
\* Google link of the same account, nor the reverse.
THEOREM ColumnsHold == Spec => OnlyOwnColumns
<1> DEFINE Columnwise ==
      \A a \in Accounts, c \in Columns :
        Exists(a) /\ table'[a][c] # table[a][c]
          => \E r \in Requests : /\ req[r].id = a /\ req[r].pc = "commit"
                                 /\ req'[r].pc # "commit"
                                 /\ c \in req[r].asked
<1>1. IInv /\ [Next]_vars => [Columnwise]_vars
  <2> SUFFICES ASSUME IInv, Next, NEW a \in Accounts, NEW c \in Columns, Exists(a),
                      table'[a][c] # table[a][c]
               PROVE  \E r \in Requests : /\ req[r].id = a /\ req[r].pc = "commit"
                                          /\ req'[r].pc # "commit"
                                          /\ c \in req[r].asked
    OBVIOUS
  <2>1. PICK r \in Requests : Commit(r)
    <3>1. PICK r \in Requests : Arrive(r) \/ Work(r) \/ Acquire(r) \/ Abort(r)
      BY DEF Next
    <3>2. UNCHANGED table => FALSE
      OBVIOUS
    <3> QED
      BY <3>1, <3>2, ArriveType, AbortFrame
      DEF Work, Acquire, FindSub, FindEmail, FindId, Publish, Insert, Flush, IInv,
          Consistent
  <2>2. /\ req[r].pc = "commit" /\ req'[r].pc # "commit"
        /\ table' = [table EXCEPT ![req[r].id] = Written(r)]
    BY <2>1, CommitFrame DEF IInv, Finished, Moved, Idle
  <2>3. req[r].id = a /\ table'[a] = Written(r)
    BY <2>2 DEF IInv, TypeOK
  <2>4. c \in Changed(r) /\ req[r].seen # NoRow
    BY <2>1, <2>3, WrittenRow
  <2>5. c \in req[r].asked
    BY <2>4 DEF Changed, IInv, Consistent, ObjectsOK
  <2> QED
    BY <2>2, <2>3, <2>5
<1>2. Spec => [][Columnwise]_vars
  BY <1>1, Invariance, PTL DEF Spec
<1> QED
  BY <1>2 DEF OnlyOwnColumns

-----------------------------------------------------------------------------
(* The table as an AccountStore.                                           *)

\* A commit leaves a row the store admits beside the others.
LEMMA WrittenIsLegal ==
  ASSUME IInv, NEW r \in Requests, Commit(r)
  PROVE  /\ Written(r) \in Store!Row
         /\ Store!Legal(req[r].id, Written(r))
<1> DEFINE a == req[r].id
           row == Written(r)
<1>1. a \in Accounts /\ row \in Row
  BY WrittenRow
<1>2. table' = [table EXCEPT ![a] = row]
  BY CommitFrame DEF IInv
<1> HIDE DEF row
<1>3. /\ table'[a] = row /\ row # NoRow
      /\ \A b \in Accounts \ {a} : table'[b] = table[b]
  BY <1>1, <1>2, NoRowAssumption DEF IInv, TypeOK
<1>4. /\ row.email # Null
      /\ \A b \in Accounts \ {a} : table[b] # NoRow =>
           /\ row.email # table[b].email
           /\ row.sub = table[b].sub => row.sub = Null
  BY <1>1, <1>3, CommitKeys DEF KeysOK, Exists
<1>5. row \in Store!Row
  BY <1>1, <1>4 DEF Row, Store!Row
<1>6. Store!Legal(a, row)
  BY <1>4 DEF Store!Legal
<1> QED
  BY <1>5, <1>6 DEF row

\* A commit creates one account, or changes one within one set of columns.
LEMMA CommitIsAtomic ==
  ASSUME IInv, NEW r \in Requests, Commit(r)
  PROVE  Store!AccountNext
<1> DEFINE a == req[r].id
           row == Written(r)
<1>1. /\ a \in Accounts
      /\ \/ Creating(r, a) /\ ~ Exists(a)
         \/ ~ Creating(r, a) /\ Exists(a) /\ req[r].seen # NoRow
      /\ \A c \in Columns : c \notin Changed(r) => row[c] = table[a][c]
  BY WrittenRow
<1>2. row \in Store!Row /\ Store!Legal(a, row)
  BY WrittenIsLegal
<1>3. table' = [table EXCEPT ![a] = row]
  BY CommitFrame DEF IInv
<1> HIDE DEF row
<1>4. CASE ~ Exists(a)
  <2>1. Store!Create(a, row)
    BY <1>2, <1>3, <1>4 DEF Store!Create, Exists
  <2> QED
    BY <1>1, <1>2, <2>1 DEF Store!AccountNext
<1>5. CASE Exists(a)
  <2>1. req[r].seen # NoRow
    BY <1>1, <1>5
  <2>2. \A c \in Columns \ req[r].asked : row[c] = table[a][c]
    BY <1>1, <2>1 DEF Changed, IInv, Consistent, ObjectsOK
  <2>3. PICK C \in Store!ColumnSets : req[r].asked \subseteq C
    <3>1. \/ req[r].asked \subseteq {"sub", "token"}
          \/ req[r].asked \subseteq {"email", "name"}
      BY <2>1 DEF IInv, Consistent, ObjectsOK, HandlersOK, UpdateColumns
    <3> QED
      BY <3>1 DEF Store!ColumnSets
  <2>4. Store!Change(a, C, row)
    BY <1>2, <1>3, <1>5, <2>2, <2>3 DEF Store!Change, Exists
  <2> QED
    BY <1>1, <1>2, <2>3, <2>4 DEF Store!AccountNext
<1> QED
  BY <1>4, <1>5

\* The interleaved registrations, Google sign-ins and profile updates implement
\* a table that single steps change.
THEOREM StoreRefinement == Spec => ImplementsAccountStore
<1>1. Init => Store!AccountInit
  BY DEF Init, Store!AccountInit
<1>2. IInv /\ [Next]_vars => [Store!AccountNext]_table
  <2> SUFFICES ASSUME IInv, Next, table' # table PROVE Store!AccountNext
    BY DEF vars
  <2>1. PICK r \in Requests : Arrive(r) \/ Work(r) \/ Acquire(r) \/ Abort(r)
    BY DEF Next
  <2>2. Commit(r)
    BY <2>1, ArriveType, AbortFrame
    DEF Work, Acquire, FindSub, FindEmail, FindId, Publish, Insert, Flush, IInv,
        Consistent
  <2> QED
    BY <2>2, CommitIsAtomic
<1> QED
  BY <1>1, <1>2, Invariance, PTL DEF Spec, ImplementsAccountStore, Store!AccountSpec

-----------------------------------------------------------------------------
(* What AccountStore implies, of the table of users.                       *)

Inherited == INSTANCE AccountStoreProofs WITH rows <- table, Grants <- Subs

\* No account is ever lost, and the commit that links one to a Google account
\* changes neither its email nor its name, although get_or_create_user, like a
\* PATCH, writes an object it read in an earlier statement.
THEOREM AccountsStay == Spec => Store!AccountsLast
<1>1. /\ Store!AccountInit <=> Inherited!AccountInit
      /\ Store!AccountNext <=> Inherited!AccountNext
      /\ Store!Lasting <=> Inherited!Lasting
  BY DEF Store!AccountInit, Store!AccountNext, Store!Create, Store!Change,
     Store!Legal, Store!Row, Store!ColumnSets, Store!Lasting, Inherited!AccountInit,
     Inherited!AccountNext, Inherited!Create, Inherited!Change, Inherited!Legal,
     Inherited!Row, Inherited!ColumnSets, Inherited!Lasting
<1>2. NoRow \notin Inherited!Row
  <2>1. Inherited!Row \subseteq Row
    BY DEF Inherited!Row, Row
  <2> QED
    BY <2>1, NoRowAssumption
<1>3. Inherited!AccountSpec => Inherited!AccountsLast
  BY <1>2, Inherited!Lastingness
<1> QED
  BY <1>1, <1>3, StoreRefinement, PTL
  DEF ImplementsAccountStore, Store!AccountSpec, Inherited!AccountSpec,
      Store!AccountsLast, Inherited!AccountsLast
=============================================================================
