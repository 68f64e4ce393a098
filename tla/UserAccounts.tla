---------------------------- MODULE UserAccounts ----------------------------
(***************************************************************************)
(* The accounts: the rows of the table users, the requests that create     *)
(* (register, first Google sign-in), link (Google sign-in) and change      *)
(* (PATCH /profile) them, and the Kafka events that announce them.         *)
(*                                                                         *)
(* As in RefreshTokens, requests interleave at every await and their       *)
(* transactions are isolated at READ COMMITTED.  An INSERT or UPDATE waits *)
(* for a transaction that wrote the same row, or wrote or replaced the     *)
(* same value of a unique column, and then fails if the value is taken.    *)
(***************************************************************************)
CONSTANTS
  Accounts,    \* users.id; an INSERT takes a fresh one
  Emails,
  Subs,        \* Google accounts, and the refresh tokens Google gives them
  Names,       \* values of first_name
  ShortNames,  \* those with fewer than 3 characters
  Requests,    \* HTTP requests being served at the same time
  Null, NoRow

ASSUME NamesAssumption == ShortNames \subseteq Names
ASSUME NullAssumption == Null \notin Emails \cup Subs \cup Names \cup Accounts

VARIABLES
  table,      \* id -> committed row of users, or NoRow
  announced,  \* ids in the topic of registered users
  profile,    \* id -> last event of the topic of updated profiles
  req,        \* request -> where its handler is, and its local variables
  abandoned,  \* history: ids whose request failed with only one of row and event
  overlapped  \* history: ids updated by two requests at once, or whose event
              \* was lost

vars == <<table, announced, profile, req, abandoned, overlapped>>
history == <<abandoned, overlapped>>

-----------------------------------------------------------------------------
Row == [email: Emails \cup {Null}, sub: Subs \cup {Null},
        token: Subs \cup {Null}, name: Names \cup {Null}]

Columns == {"email", "sub", "token", "name"}

UniqueColumns == {"email", "sub"}

ASSUME NoRowAssumption == NoRow \notin Row

\* The values UserCreate accepts for first_name.
NewNames == (Names \ ShortNames) \cup {Null}

\* The columns of UserUpdate, which checks neither the length of the name nor
\* that the email is not null.
UpdateColumns == {"email", "name"}

NoData == [c \in Columns |-> Null]

PCs == {"idle", "find_sub", "find_email", "find_id", "insert", "flush",
        "commit", "publish"}

Kinds == {"none", "register", "google", "update"}

Request == [pc: PCs, kind: Kinds,
            id: Accounts \cup {Null},  \* the account it works on, once known
            asked: SUBSET Columns,     \* what it was asked to write
            row: Row,                  \* the data, then the object in memory
            seen: Row \cup {NoRow}]    \* the row as it was read

Idle == [pc |-> "idle", kind |-> "none", id |-> Null, asked |-> {},
         row |-> NoData, seen |-> NoRow]

NoEvent == <<>>

Exists(a) == table[a] # NoRow

\* Ids no row, event or open transaction has used.
Fresh == {a \in Accounts : /\ ~ Exists(a)
                           /\ a \notin announced
                           /\ \A r \in Requests : req[r].id # a}

\* r inserts, or has inserted, row a and may still have to announce it.
Creating(r, a) ==
  req[r].id = a /\ req[r].kind # "update" /\ req[r].seen = NoRow

\* What the flush of the unit of work writes: an INSERT every column, an UPDATE
\* those whose value differs from the one read.
Changed(r) ==
  IF req[r].seen = NoRow
    THEN Columns
    ELSE {c \in Columns : req[r].row[c] # req[r].seen[c]}

\* r has written in a transaction that is still open.
Writing(r) ==
  /\ Changed(r) # {}
  /\ \/ req[r].pc = "commit"
     \/ req[r].pc = "publish" /\ req[r].kind = "google"

\* The unique values r writes, and those its UPDATE replaces.
NewKeys(r) ==
  {<<c, req[r].row[c]>> : c \in Changed(r) \cap UniqueColumns} \ (Columns \X {Null})

OldKeys(r) ==
  IF req[r].seen = NoRow \/ req[r].id = Null
    THEN {}
    ELSE {<<c, table[req[r].id][c]>> : c \in Changed(r) \cap UniqueColumns}

\* Mutant: the row is locked from the SELECT on, and shared by its readers.
WaitsForReaders(r, q) ==
  /\ req[q].pc \in {"flush", "commit"}
  /\ \/ req[q].id = req[r].id
     \/ (NewKeys(q) \cup OldKeys(q)) \cap NewKeys(r) # {}

\* The flush of r waits for the end of q's transaction.
WaitsFor(r, q) ==
  /\ Writing(q)
  /\ \/ req[q].id = req[r].id
     \/ (NewKeys(q) \cup OldKeys(q)) \cap NewKeys(r) # {}

MayWrite(r) == \A q \in Requests \ {r} : ~ WaitsFor(r, q)

\* Mutant: find_by_email is trusted, users.email and google_sub are not unique.
ViolatesNothing(r) == FALSE

\* The unique and NOT NULL constraints that fail: IntegrityError.
Violates(r) ==
  \/ req[r].row["email"] = Null
  \/ \E a \in Accounts \ {req[r].id} : \E k \in NewKeys(r) :
       Exists(a) /\ table[a][k[1]] = k[2]

-----------------------------------------------------------------------------
Init ==
  /\ table = [a \in Accounts |-> NoRow]
  /\ announced = {}
  /\ profile = [a \in Accounts |-> NoEvent]
  /\ req = [r \in Requests |-> Idle]
  /\ abandoned = {}
  /\ overlapped = {}

Goto(r, pc) == req' = [req EXCEPT ![r].pc = pc]

Finish(r) == req' = [req EXCEPT ![r] = Idle]

Start(r, request) ==
  /\ req[r] = Idle
  /\ req' = [req EXCEPT ![r] = request]
  /\ UNCHANGED <<table, announced, profile, history>>

\* POST /register/.
Register(r, e, n) ==
  /\ n \in NewNames
  /\ Start(r, [Idle EXCEPT !.pc = "find_email", !.kind = "register",
                           !.row = [NoData EXCEPT !.email = e, !.name = n]])

\* GET /google/callback: what Google says of the account s, and the refresh
\* token it may have sent.
GoogleSignIn(r, s, e, n, t) ==
  /\ Start(r, [Idle EXCEPT !.pc = "find_sub", !.kind = "google",
                 !.row = [email |-> e, sub |-> s, token |-> t, name |-> n]])

\* PATCH /profile with new values of the columns "asked".
UpdateProfile(r, a, asked, e, n) ==
  /\ Exists(a)
  /\ Start(r, [Idle EXCEPT !.pc = "find_id", !.kind = "update", !.id = a,
                 !.asked = asked,
                 !.row = [NoData EXCEPT !.email = e, !.name = n]])

-----------------------------------------------------------------------------
\* The object of row a in memory, after setattr of the columns "asked".
Load(r, a, asked, pc) ==
  req' = [req EXCEPT ![r] =
            [pc |-> pc, kind |-> @.kind, id |-> a, asked |-> asked,
             row |-> [c \in Columns |-> IF c \in asked THEN @.row[c]
                                                      ELSE table[a][c]],
             seen |-> table[a]]]

\* get_or_create_user: find_by_google_sub.
FindSub(r) ==
  LET found == {a \in Accounts : Exists(a) /\ table[a].sub = req[r].row.sub} IN
  /\ req[r].pc = "find_sub"
  /\ IF found = {} THEN Goto(r, "find_email")
                   ELSE \E a \in found : Load(r, a, {"token"}, "flush")
  /\ UNCHANGED <<table, announced, profile, history>>

\* find_by_email: add_user and update_user refuse an email that is taken, and
\* get_or_create_user links the account that has it.
FindEmail(r) ==
  LET found == {a \in Accounts : Exists(a) /\ table[a].email = req[r].row.email}
  IN
  /\ req[r].pc = "find_email"
  /\ \/ /\ req[r].kind = "google" /\ found # {}
        /\ \E a \in found : Load(r, a, {"sub", "token"}, "flush")
     \/ /\ req[r].kind # "google" /\ found # {}
        /\ Finish(r)
     \/ /\ found = {}
        /\ Goto(r, IF req[r].kind = "update" THEN "flush" ELSE "insert")
  /\ UNCHANGED <<table, announced, profile, history>>

\* The requests between the SELECT of update_user on account a and their event.
Updating(a) ==
  {r \in Requests : /\ req[r].kind = "update" /\ req[r].id = a
                    /\ req[r].pc # "find_id"}

\* update_user: find_by_id, and the email is looked up only if it changes.
FindId(r) ==
  LET a == req[r].id
      asked == req[r].asked
      moved == "email" \in asked /\ req[r].row.email # table[a].email
  IN
  /\ req[r].pc = "find_id"
  /\ Load(r, a, asked, IF moved THEN "find_email" ELSE "flush")
  /\ overlapped' = IF Updating(a) = {} THEN overlapped
                                       ELSE overlapped \cup {a}
  /\ UNCHANGED <<table, announced, profile, abandoned>>

\* add_one, and the default role in the same transaction.  The Google path
\* goes on to the event before it commits.  Bound: without a fresh id the INSERT
\* fails, as it may for any reason of the database.
Insert(r) ==
  /\ req[r].pc = "insert"
  /\ MayWrite(r)
  /\ IF Violates(r) \/ Fresh = {}
       THEN Finish(r)
       ELSE \E a \in Fresh :
              req' = [req EXCEPT ![r] =
                        [pc |-> IF @.kind = "google" THEN "publish"
                                                     ELSE "commit",
                         kind |-> @.kind, id |-> a, asked |-> Columns,
                         row |-> @.row, seen |-> NoRow]]
  /\ UNCHANGED <<table, announced, profile, history>>

\* The flush at the end of the unit of work; nothing changed, no UPDATE.
Flush(r) ==
  /\ req[r].pc = "flush"
  /\ Changed(r) = {} \/ MayWrite(r)
  /\ IF Changed(r) # {} /\ Violates(r) THEN Finish(r) ELSE Goto(r, "commit")
  /\ UNCHANGED <<table, announced, profile, history>>

\* Mutant: the UPDATE writes every column of the object in memory.
WrittenWhole(r) == req[r].row

\* The row r's commit leaves.
Written(r) ==
  IF req[r].seen = NoRow
    THEN req[r].row
    ELSE [c \in Columns |-> IF c \in Changed(r) THEN req[r].row[c]
                                                ELSE table[req[r].id][c]]

\* Mutant: nothing is published after a registration.
CommitSilently(r) ==
  /\ req[r].pc = "commit"
  /\ table' = [table EXCEPT ![req[r].id] = Written(r)]
  /\ IF req[r].kind = "update" THEN Goto(r, "publish") ELSE Finish(r)
  /\ UNCHANGED <<announced, profile, history>>

Commit(r) ==
  /\ req[r].pc = "commit"
  /\ table' = [table EXCEPT ![req[r].id] = Written(r)]
  /\ IF req[r].kind = "google" THEN Finish(r) ELSE Goto(r, "publish")
  /\ UNCHANGED <<announced, profile, history>>

\* Mutant: the event of an update carries the row as it was read.
PublishSeen(r) ==
  LET a == req[r].id IN
  /\ req[r].pc = "publish"
  /\ IF req[r].kind = "update"
       THEN /\ profile' = [profile EXCEPT ![a] = <<req[r].seen.email, req[r].seen.name>>]
            /\ UNCHANGED announced
       ELSE /\ announced' = announced \cup {a}
            /\ UNCHANGED profile
  /\ IF req[r].kind = "google" THEN Goto(r, "commit") ELSE Finish(r)
  /\ UNCHANGED <<table, history>>

\* Mutant: the event of an update has its two columns swapped.
PublishSwapped(r) ==
  LET a == req[r].id IN
  /\ req[r].pc = "publish"
  /\ IF req[r].kind = "update"
       THEN /\ profile' = [profile EXCEPT ![a] = <<req[r].row.name, req[r].row.email>>]
            /\ UNCHANGED announced
       ELSE /\ announced' = announced \cup {a}
            /\ UNCHANGED profile
  /\ IF req[r].kind = "google" THEN Goto(r, "commit") ELSE Finish(r)
  /\ UNCHANGED <<table, history>>

\* publish_profile_updated after the commit; publish_user_registered after that
\* of a registration, and before that of a Google sign-in.
Publish(r) ==
  LET a == req[r].id IN
  /\ req[r].pc = "publish"
  /\ IF req[r].kind = "update"
       THEN /\ profile' = [profile EXCEPT ![a] = <<req[r].row.email, req[r].row.name>>]
            /\ UNCHANGED announced
       ELSE /\ announced' = announced \cup {a}
            /\ UNCHANGED profile
  /\ IF req[r].kind = "google" THEN Goto(r, "commit") ELSE Finish(r)
  /\ UNCHANGED <<table, history>>

\* A refused or failed call, a cancelled request, a worker that dies: the open
\* transaction is rolled back, an event not sent yet is lost.
Abort(r) ==
  /\ req[r] # Idle
  /\ Finish(r)
  /\ abandoned' = abandoned \cup {a \in Accounts :
                     Creating(r, a) /\ ~ (Exists(a) <=> a \in announced)}
  /\ overlapped' = IF req[r].pc = "publish" /\ req[r].kind = "update"
                     THEN overlapped \cup {req[r].id}
                     ELSE overlapped
  /\ UNCHANGED <<table, announced, profile>>

-----------------------------------------------------------------------------
Arrive(r) ==
  \E e \in Emails \cup {Null}, n \in Names \cup {Null} :
    \/ e # Null /\ Register(r, e, n)
    \/ e # Null /\ \E s \in Subs : \E t \in {s, Null} : GoogleSignIn(r, s, e, n, t)
    \/ \E a \in Accounts, asked \in SUBSET UpdateColumns :
         /\ "email" \notin asked => e = Null
         /\ "name" \notin asked => n = Null
         /\ UpdateProfile(r, a, asked, e, n)

\* The steps that do not wait for another request.
Work(r) ==
  \/ FindSub(r) \/ FindEmail(r) \/ FindId(r) \/ Publish(r) \/ Commit(r)

\* The steps that wait for row and key locks.
Acquire(r) == Insert(r) \/ Flush(r)

Next == \E r \in Requests : Arrive(r) \/ Work(r) \/ Acquire(r) \/ Abort(r)

Spec == Init /\ [][Next]_vars

\* A worker keeps running its handlers, Kafka answers or fails, and PostgreSQL
\* queues the transactions that wait.
Fairness == \A r \in Requests : WF_vars(Work(r)) /\ SF_vars(Acquire(r))

FairSpec == Spec /\ Fairness

-----------------------------------------------------------------------------
\* The rows, the events and the local variables have their types.
TypeOK ==
  /\ table \in [Accounts -> Row \cup {NoRow}]
  /\ announced \subseteq Accounts
  /\ profile \in [Accounts ->
       {NoEvent} \cup (Emails \cup {Null}) \X (Names \cup {Null})]
  /\ req \in [Requests -> Request]
  /\ abandoned \subseteq Accounts
  /\ overlapped \subseteq Accounts

\* Whatever find_by_email and find_by_google_sub saw, no two committed accounts
\* have the same email or Google account, and none is without email.
KeysOK ==
  \A a \in Accounts : Exists(a) =>
    /\ table[a].email # Null
    /\ \A b \in Accounts \ {a} : Exists(b) =>
         /\ table[a].email # table[b].email
         /\ table[a].sub = table[b].sub => table[a].sub = Null

\* Every account is announced to the other services, and nothing else is,
\* except while a request works on it or when one failed half way
\* (registration commits before its event, Google sign-in after it).
AnnouncedIffCreated ==
  \A a \in Accounts :
    ~ (Exists(a) <=> a \in announced) =>
      \/ a \in abandoned
      \/ \E r \in Requests : Creating(r, a)

\* A commit changes the columns its request was asked to write, and no other
\* (a PATCH against a Google sign-in that links the same account).
OnlyOwnColumns ==
  [][\A a \in Accounts, c \in Columns :
       Exists(a) /\ table'[a][c] # table[a][c]
         => \E r \in Requests : /\ req[r].id = a /\ req[r].pc = "commit"
                                /\ req'[r].pc # "commit"
                                /\ c \in req[r].asked]_vars

\* When no update of an account is under way, the last event of its profile
\* shows its row, unless two updates overlapped or an event was lost.
EventsMatchRows ==
  \A a \in Accounts :
    profile[a] # NoEvent /\ a \notin overlapped /\ Updating(a) = {}
      => profile[a] = <<table[a].email, table[a].name>>

\* Every request ends: no cycle of row and key locks, the one a Google sign-in
\* holds while it waits for Kafka included.
RequestsComplete == \A r \in Requests : req[r] # Idle ~> req[r] = Idle

\* Behind the interleaved statements of the requests, the table behaves as one
\* that is changed by single steps (AccountStore): created whole, then changed
\* within the columns of a PATCH or of a Google sign-in, the keys unique throughout.
Store == INSTANCE AccountStore WITH rows <- table, Grants <- Subs

ImplementsAccountStore == Store!AccountSpec

-----------------------------------------------------------------------------
(* What the documentation says and the code does not do.                   *)

\* UserBase: "First name must be between 3 and 30 characters long": the login,
\* the Google sign-in and the profile of another name fail to validate.
NamesAreLongEnough ==
  \A a \in Accounts : Exists(a) => table[a].name \notin ShortNames
-----------------------------------------------------------------------------
(* The inductive invariant behind the safety properties.                   *)

\* r has inserted a row, perhaps not committed yet, and may still announce it.
Inserted(r) == \E a \in Accounts : Creating(r, a)

\* What a request has read, and inserted, at each step of its handler.
HandlersOK ==
  \A r \in Requests :
    /\ req[r].pc \in {"find_sub", "insert"}
         => req[r].kind # "update" /\ req[r].id = Null
    /\ req[r].pc = "find_email" /\ req[r].kind # "update" => req[r].id = Null
    /\ req[r].pc \in {"flush", "commit", "publish"} => req[r].id # Null
    /\ req[r].pc = "flush" => req[r].seen # NoRow
    /\ req[r].pc = "publish" /\ req[r].kind = "google" => req[r].seen = NoRow
    /\ req[r].pc = "find_id" => req[r].kind = "update"
    /\ req[r].kind = "update" =>
         /\ req[r].id # Null /\ (req[r].pc = "find_id" <=> req[r].seen = NoRow)
         /\ req[r].asked \subseteq UpdateColumns
    /\ req[r].id = Null => req[r].seen = NoRow
    /\ req[r].id # Null /\ ~ Inserted(r) => Exists(req[r].id)

\* An inserted row has one creator, and is committed once its creator is past
\* the commit; a Google sign-in has announced it before.
InsertedOK ==
  \A r \in Requests : \A a \in Accounts : Creating(r, a) =>
    /\ req[r].pc \in {"commit", "publish"}
    /\ Exists(a) <=> req[r].pc = "publish" /\ req[r].kind # "google"
    /\ req[r].pc = "commit" /\ req[r].kind = "google" => a \in announced
    /\ \A q \in Requests : Creating(q, a) => q = r

\* A transaction that has written can commit: its row has an email, and no
\* committed row and no other open transaction has one of its unique values.
WritersOK ==
  \A r \in Requests : Writing(r) =>
    /\ req[r].row["email"] # Null
    /\ \A k \in NewKeys(r), a \in Accounts \ {req[r].id} :
         Exists(a) => table[a][k[1]] # k[2]
    /\ \A q \in Requests \ {r} : Writing(q) =>
         req[q].id # req[r].id /\ NewKeys(q) \cap NewKeys(r) = {}

\* An object in memory differs from the row that was read only where asked.
ObjectsOK ==
  \A r \in Requests : req[r].seen # NoRow =>
    /\ \A c \in Columns \ req[r].asked : req[r].row[c] = req[r].seen[c]
    /\ req[r].kind # "update" => req[r].asked \subseteq {"sub", "token"}

\* The columns an event shows.
Shown(row) == <<row["email"], row["name"]>>

\* The only update of an account knows what its row shows.
UpdatesOK ==
  \A r \in Requests, a \in Accounts : r \in Updating(a) /\ a \notin overlapped =>
    /\ Updating(a) = {r}
    /\ Shown(table[a]) = Shown(IF req[r].pc = "publish" THEN req[r].row
                                                        ELSE req[r].seen)

\* Until an update has committed and not sent its event yet, the last event
\* shows the row.
EventsOK ==
  \A a \in Accounts :
    /\ ~ Exists(a) => profile[a] = NoEvent
    /\ /\ profile[a] # NoEvent
       /\ a \notin overlapped
       /\ \A r \in Updating(a) : req[r].pc # "publish"
       => profile[a] = Shown(table[a])

Consistent ==
  /\ HandlersOK
  /\ InsertedOK
  /\ WritersOK
  /\ ObjectsOK
  /\ UpdatesOK
  /\ EventsOK
  /\ KeysOK
  /\ AnnouncedIffCreated

\* The inductive invariant.
IInv == TypeOK /\ Consistent
=============================================================================
