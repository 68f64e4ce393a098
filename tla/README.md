# A verification of OnlineShopAuth

TLA+ models of the authentication service of an online shop (FastAPI,
PostgreSQL through SQLAlchemy, Redis, Kafka), TLC configurations that check them
on small instances, and TLAPS proofs of what holds for every instance.

## 1. The system

| Component | State | Operations | Modelled in |
|---|---|---|---|
| Refresh-token sessions (`token_service.py`, `token_repository.py`, `auth.py`) | table `refresh_tokens`; JWTs and cookies held by clients | login, Google sign-in, refresh (rotation with a 30 s grace period), logout, logout_all | `RefreshTokens`, `SessionStore` |
| Login rate limiter (`rate_limiter.py`, `user_service.authenticate_user`) | Redis keys `failed_login:<email>` and `blocked_user:<email>` with their time to live | is_blocked, incr_attempts, reset_attempts | `LoginRateLimiter` |
| User accounts and their events (`user_service.py`, `event_publisher.py`) | table `users`; two Kafka topics | register, get_or_create_user, update_user; publish_user_registered, publish_profile_updated | `UserAccounts`, `AccountStore` |
| Google OAuth callback (`oauth_service.py`, `auth.py`) | Redis keys `oauth:state:<state>`; tokens of one callback | redirect, state check, code exchange, token refresh, sign-in | `OAuthCallback` |
| Key rotation (`keys/rotate_keys.py`, `config.py`) | two PEM files, one cached copy of each per worker | rotate, sign, verify, serve the public key | `KeyRotation` |
| Schema, roles and permissions (`alembic/`, `migrate.sh`) | the version, tables, columns and constraints; `roles`, `permissions`, `roles_permissions`, `users_roles` | eight revisions up and down; the default role of a new account | `SchemaMigrations`, `Deployment` |
| Unit of work, repositories | one database session per `async with` | begin, commit, rollback | steps of the models above |
| Kafka producer, lifespan, Redis client | open connections | connect, send, close | `send` is `Publish` of `UserAccounts` |
| Token cleanup | - | nothing calls it, and the repository method it calls does not exist | not modelled |
| HTTP surface, containers | none | validation, formatting, status codes | not modelled |

How they interact: an endpoint runs in one of several worker processes and yields
at every `await`, so two requests interleave between any two statements, Redis
commands or Kafka sends.  They share the database, Redis and the topics, nothing
else.  A request uses several units of work one after the other (`/refresh/`
checks the account in one and rotates in another; the Google callback updates the
account in one and opens the session in another), so what the first established
may be stale in the second.  `/login/` is the limiter, then `RefreshTokens`.
`/google/callback` is `OAuthCallback`, which composes the two abstract stores:
`UserAccounts` implements the one, `RefreshTokens` the other.  Three actors stand
outside the workers: Google, the script that rotates the keys, and Alembic, which
changes the schema under a running service.

    OAuthCallback --INSTANCE--> AccountStore <--refines-- UserAccounts
         |---------INSTANCE---> SessionStore <--refines-- RefreshTokens
    SchemaMigrations --refines--> Deployment
    LoginRateLimiter      KeyRotation

What is hard here, and drives the properties (`PROJECT.json`, "hazards", has every
place): SELECT, check and write in separate statements; row and key locks; retried
refreshes; failures between two writes that belong together (the database and
Kafka, INCR and EXPIRE, two key files); values read before an await and used after
it, or cached for good; commands that several deployments run at once.

## 2. The modules

### SessionStore: what sessions promise

A token is fresh, live or closed; `Open`, `Rotate` and `Close` are single steps.  A
closed session never comes back, a rotation needs a live origin and gives the
new session the same user, and a `Close` closes only sessions of one user.  What
follows from that is stated here too: `FamiliesHaveOneUser`, `FamiliesHaveRoots`
(no session is its own ancestor) and `SessionsAreSteady`.

### RefreshTokens: the sessions

One record `req[r]` per request being served: the point its handler has reached
(`pc`) and its local variables.  `table` and `usedAt` are the committed rows of
`refresh_tokens`; `owner`, `exp` and `parent` describe a minted token once and for
all; `delivered` are the tokens that reached a client; `logouts` is a history
variable.

| Actions | Code |
|---|---|
| `Login`/`GoogleLogin`, `Generate`, `CommitLogin`, `Respond` | `auth.login`, `handle_google_callback`, `generate_tokens` |
| `Refresh`, `CheckUser`, `FindToken`, `Mark`, `Update`, `CommitRotation`, `Respond` | `auth.refresh`, `check_user_by_id`, `rotate_tokens` with its flush |
| `Logout`/`LogoutAll`, `Delete`, `CommitLogout` | the two logout endpoints and their DELETEs |
| `Abort` | any failure, cancellation or crash: the open transaction is rolled back |
| `Tick`, `SetActive` | time; an operator who writes `users.is_active` |

Modelling choices.  A write is invisible until its commit.  The flush of a
rotation UPDATEs the row it read, by primary key: it waits for whoever holds the
row, and SQLAlchemy raises StaleDataError when the row is gone.  A DELETE selects
its rows when it starts (`targets`), then locks them one after the other, in any
order, and passes over those it finds gone; those it got (`rows`) disappear at its
commit.  Two logout_alls of one user may therefore lock each other out.
PostgreSQL then fails one of them: an `Abort`, which can happen to any request at any
time, but which `Fairness` demands only of a `Deadlocked` one.
A Google sign-in opens its session exactly as a login does, only without looking
at `is_active`.
`refresh` never looks at the column `expires_at`, only at the token's claim.  The
expiry of the access token that a logout needs is ignored.  A client may present
any token it ever received, at any time.

### LoginRateLimiter: the limiter

The keys of one email, and each Redis command as one step.  `fails`/`failTtl` and
`blockTtl` are the two keys; `Incr`, `Expire`, `SetBlock`, `DeleteCounter` the
commands of `incr_attempts` and `reset_attempts`; `Attempt` and `CheckPassword` the
rest of `authenticate_user`; `Tick` is Redis' clock and `Crash` a request that fails
between two commands.

### UserAccounts: the accounts and their events

`table` are the committed rows of `users` with the columns that matter: the two
unique ones, the Google refresh token (identified with the Google account it
belongs to) and `first_name` for all the others.  A row in memory (`row`) beside
the row as it was read (`seen`) give the columns SQLAlchemy writes: those that
differ.  `WaitsFor` and `Violates` are PostgreSQL's unique indexes: a writer waits
for an open transaction that wrote, or replaced, the same value, and then fails
if the value is taken.  All locks of a flush are taken in one step; PostgreSQL takes
them one by one, so what the model misses is a flush that fails because of a
deadlock on the way, and any step may fail by `Abort`.

| Actions | Code |
|---|---|
| `Register`, `FindEmail`, `Insert`, `Commit`, `Publish` | `create_user`, `add_user`: the event follows the commit |
| `GoogleSignIn`, `FindSub`, `FindEmail`, `Insert`, `Publish`, `Commit` | `get_or_create_user`: the event precedes the commit |
| the same with `Flush` for `Insert` and no `Publish` | `get_or_create_user` of an account it found |
| `UpdateProfile`, `FindId`, `FindEmail`, `Flush`, `Commit`, `Publish` | `update_user` |

A refused account (`is_active`), a missing default role, a Kafka failure and a
crash are all `Abort`.  `abandoned` and `overlapped` are history variables.

### AccountStore: what the table of accounts promises

An account is created whole (`Create`), and changed in one step (`Change`) within the
columns of one operation: `{token}` or `{sub, token}` for a Google sign-in,
`{email, name}` for a PATCH.  It is never deleted, and `Legal` keeps emails and
Google accounts unique.  `UserAccounts` implements it (`ImplementsAccountStore`): its
interleaved transactions, which write from an object read long before, look like such
single steps.  `KeysUnique` and `AccountsLast` are what follows from it.

### OAuthCallback: signing in with Google

A state is handed out by each `GET /google/url` (`issued`), a code by each consent
page that somebody finishes (`owner`: the Google account that consented).  Nothing
ties the one to the other: `state` and `code` are independent parameters of
`GET /google/callback`, a page may be finished twice before its state is deleted, and a
browser may send a callback any number of times, at the same time or later.  `cb[c]`
is one callback being served, with any state and any code; `via[k]` is the state of
the one for which Google accepted the code `k`.  `raced` is a history variable: the
states that two callbacks had found before one of them deleted it.

| Actions | Code |
|---|---|
| `Redirect` | `get_google_oauth_redirect_uri`: SET with a time to live |
| `Consent` | Google's consent page, finished by somebody who was redirected there |
| `Receive`, `GetState`, `DeleteState` | `handle_google_callback`; the one-time state: GET, then DEL |
| `Exchange`, `Fetch`, `RefreshAndFetch` | `_exchange_code_for_tokens`, `_fetch_user_info`, `_fetch_drive_files`, `_get_valid_access_token` |
| `FindSub`, `FindEmail`, `Commit` | `get_or_create_user` |
| `OpenSession` | `generate_tokens` |
| `Register`, `UpdateProfile` | the other writers of `users`, as steps of `AccountStore` |
| `Tick`, `Abort` | Redis' clock and the expiry of access tokens; any failure |

Google is modelled from how the code uses it: a code is accepted once, the answer
has a refresh token or not, and a refresh may replace it.  The refresh tokens of
a code are numbered, so that its newest is known (`granted`); which is the newest of a
Google account, whatever code it came with, is not modelled.  The object that
`get_or_create_user` read (`seen`) stays in the model: SQLAlchemy writes only the
columns that differ from it, which is where two sign-ins of one account can go
wrong.  A commit that a unique constraint refuses ends the request; waiting for
locks is left to `UserAccounts`.

### KeyRotation: the key pair

The two files, each truncated by `open` and written afterwards (`OpenPrivate`,
`WritePrivate`, `OpenPublic`, `WritePublic`); the script, which may be killed
anywhere (`Kill`) and always stops at `ClearKeysCache`; and the copies that workers
cache on first use (`Sign`, `ReadPublic`) and lose when gunicorn starts them again
(`Restart`).  `steady` is a history variable: the workers started since the files
last changed.

### SchemaMigrations: the schema, and who may change it

`db` is what is committed: the version, tables, later columns and constraints of
`users`, permissions, roles and grants.  `tx[m]` is a command's transaction, with what it
would commit.  `Migrate` is one revision up or down: its `fails` says when one of its
statements fails on what the transaction sees, its `schema` what it leaves, its
`locks` the tables on which registrations then wait.  The version row is UPDATEd after a
migration's statements: the first command to get there holds it until its commit,
the others wait, and find the row changed (`Overtaken`).  Each of the 16 upgrades and
downgrades is an action of its own, in the order of `down_revision`.  `Insert` is the
service: an account with its default role.

The permissions are real ones: records of resource, verb and scope, with the LIKE
patterns of the migrations as predicates.  Not modelled: tables without rows in
this service (`addresses`), the offline mode of `env.py`, refresh tokens that go
with `DROP TABLE`.  Deadlocks between commands in opposite directions end as `Crash`.

### Deployment: what migrations promise the service

The database has a version, and accounts with roles.  A deployment changes the version in one
step, to a revision somebody asked for and that every account fits (`Accepts`), and
touches nothing else; an account is registered in one step with its role, if it fits
the version of that moment.  `SchemaMigrations` implements it: `Commit` is `Deploy`,
`Insert` is `Register`, and migrations, failures and crashes are seen by nobody.

### MC modules

`MCRefreshTokens`, `MCLoginRateLimiter`, `MCUserAccounts`, `MCOAuthCallback` and
`MCKeyRotation` define the symmetry of the model values (never used with a liveness
property, and sound since no definition names one).  `MCUserAccounts` and
`MCOAuthCallback` also define a view: the last event of an account with overlapping
updates, the expiry of an access token after its last use, and the parts of
`SessionStore` that only its own operations read, matter to no later action and to
no property.  The view of `MCOAuthCallback` also leaves out what a callback will not
read again: of its state once it is deleted, of what it read of Google and of the account
once it has committed.  Its constraint `OneEmailEach` gives each Google account one email,
which the configuration names like the account: their symmetry is one.

## 3. The runs

| Run | Question | Bounds |
|---|---|---|
| `sessions_safety` | logged-out tokens stay out, delivered sessions last, `used` means rotated, rotations need a live row, spent tokens stay spent | 2 users, 3 tokens, 2 requests, 2 ticks |
| `sessions_liveness` | every request ends, deadlocked logouts included; only logout_alls deadlock; the inductive invariant and the refinement of `SessionStore` | 2 requests, 1 user, 3 tokens, one instant |
| `limiter` | the limit is enforced, counters expire, blocks are not prolonged and end | 3 requests, limit 3, block of 2 ticks, 1 crash |
| `accounts_safety` | unique keys, no lost update, events against rows, the refinement of `AccountStore` | 2 accounts, 2 emails, 1 Google account, 2 requests |
| `accounts_liveness` | every request on accounts ends | 2 accounts, 1 email, 2 requests |
| `oauth` | a code signs in once, and a state once unless callbacks raced for it, each as its own account; the stored refresh token is the last one given for its code | 2 states, 2 codes, 2 callbacks, 2 accounts, 2 emails, 2 Google accounts with one email each, 2 refresh tokens per code |
| `keys` | no public key of a new pair before its private key; tokens verify after a complete rotation and a restart | 3 workers, 2 rotations |
| `migrations` | schema, rows, roles and privileges fit at every revision; commands fail for known reasons and end; the refinement of `Deployment`: to the service they are atomic | 2 commands at a time, 2 accounts, 2 emails, targets 0, 1, 6, 7, 8 |

Why these bounds are enough to be interesting: a rotation chain needs three tokens
(a token, its successor, and a rival or a second successor); a race needs two
requests, a queue three; a grace period of 1 is over after two ticks; uniqueness
needs two rows and a rival for each unique value; the limiter needs one request
more than it takes to see the counter pass the limit.  A Google sign-in goes wrong
between two callbacks: with one state, one code or both, or with two of each that
meet in one account (one finds it by `sub` while the other relinks it by email); a third
callback meets one of them again, which only the theorems cover.  The theorems also
cover Google accounts that change their email between two consents, which
`OneEmailEach` leaves out of the run.  A refresh token and its replacement are two.  A killed rotation needs a second one
to show what it recovers, and a token three workers: one that signs, one that
verifies, one left behind.  The targets of `migrations` take a command through every
upgrade and downgrade, stop it at each end and at both sides of the revision that
cannot be undone; two emails are enough to collide or not.  `sessions_liveness` stops
the clock: row locks do not depend on it, and `sessions_safety` and the proofs do
have time.  A queue of three transactions for one row is left to the proofs.
`accounts_liveness` has two requests only: among three, the flush that takes two locks
at once could starve where PostgreSQL, which queues for each, would not.

Bounds by name: `Tokens`
(`TokenLeft` starts a request only while a token is left for it), `MaxTime`
(`Tick`), `MaxCrashes` (`Crash`), `Accounts` (an `Insert` without a fresh id fails),
`MaxExpiry` and `MaxGrants` (Google's answers), `OneEmailEach` (what Google says of an account), `MaxPairs`
(`OpenPrivate`).  Deadlock is
checked in every run, and between them the runs fire every action.

Fairness.  `WF` on a handler's next step: a worker's event loop resumes what it
started, and Redis, Kafka and the database answer or fail.  `SF` on the steps that
wait for locks: they are enabled and disabled by other transactions, and
PostgreSQL queues the waiters; the same holds of Alembic commands that wait for the
version row.  `WF` on the failure of a `Deadlocked` request:
PostgreSQL's deadlock detector.  `WF` on the limiter's `Tick`: time passes.  Nothing is
assumed of arrivals, aborts, crashes or operators; the sessions' clock may stop.

### What the runs refute

Each of these runs states what a document of the code says, and TLC shows a
behaviour of the code that violates it.

| Run | The code |
|---|---|
| `sessions_grace` | every accepted reuse of an old token writes `used_at` again, so the grace period starts anew: it need never end |
| `sessions_logout_all` | a rotation that commits while logout_all waits for its row leaves its new session logged in |
| `keys_current` | a worker that has read the old public key still serves it after a complete rotation, for as long as it lives: nothing clears its cache |
| `accounts_names` | a profile update stores a first name of one or two characters; afterwards profile, login and Google sign-in fail to validate the account |

## 4. The proofs

All theorems hold for every value of the constants that satisfies the named
assumptions of the module (non-negative times, `NoUser` and `NoToken` outside the sets, a
limit of at least one, finitely many requests; `Null` and `NoRow` no values of a row;
`Empty` and `Unread` no keys; targets that are revisions).

`RefreshTokensProofs`.  `TypeOK` is not inductive: that a committed row is a token,
and that the successor of a rotation has not been stored before, follows only
from what the handler between `Mark` and `CommitRotation` knows.  `IInv` adds

- `LocksExclude`, `HeldRowsExist`: a row has one holder, and a held row stays in the
  table until its holder commits, so a commit acts on what its statement saw;
- `HandlersOK`, `TargetsOK`: which request is where, that a DELETE aims only at
  rows of its own user, and that of `logout_one` at a single row;
- `NewRowsOK`: the successor in hand is fresh, belongs to the same user, was born
  at the time about to be written to `used_at`, and is in nobody else's hands;
- `RowsOK`, `NoSessionLost`: the table and the history of logouts agree.

`Invariance` proves it, one step per action and one lemma per part; `TypeCorrect`,
`LogoutIsFinal`, `SessionsLast`, `RotationsAreOfLiveRows` and `SpentTokensStaySpent`
follow from it or from a step under it; `UsedMeansRotated` strengthens it with
`UsedMatches`.  `Refinement` maps every commit to the abstract step it stands for
and every other step to a stutter.

`WaitCirclesDetected` justifies the fairness on `Deadlocked` requests: if some requests
wait for nothing but each other, one of them is a logout_all in a circle of such, which
PostgreSQL fails.  A rotation waits before it has locked anything (the UPDATE precedes the
INSERT in its flush), and `logout_one` has only one row to lock, so whoever holds a
row and still waits for another is a logout_all (`WaitingHolder`); the logout_alls among the
requests are then the circle.

`SessionStoreProofs`, `AccountStoreProofs`.  What the abstract stores promise has
consequences that are proved once and inherited: a module that implements a store
INSTANCEs these proofs with its refinement mapping, and its refinement theorem
turns `Families`, `Roots`, `Steadiness`, `Uniqueness` and `Lastingness` into theorems about
the code.  `Roots` is the one that needs an argument: a rotation adds a session whose token is
fresh and therefore nobody's origin, so the rest of any set of live sessions was one
before, and still has its root; a `Close` only takes sessions away.  `RefreshTokens`
inherits `RefreshKeepsUser`, `FamiliesGoBack` and `RowsAreSteady`, `UserAccounts` inherits
`AccountsStay`, and `OAuthCallback` `OneAccountEach`.

`LoginRateLimiterProofs`.  `LimiterTypes`, `LimitEnforced` (an INCR past the limit adds
a member to `Blocking`, a crash moves one into `crashes`, every DEL clears the
debt), `CountersExpire`, and the corollary `FailsBounded`.  `BlocksBounded` is about a
block under way: the remaining time plus one full block for each request in
`Late`, those that `is_blocked` let through before, never grows.  A request leaves `Late`
when it sets the block again, and none enters it while there is a block; that is what
makes the block end, though the login that overtook it still prolongs it once.

`UserAccountsProofs`.  Neither `KeysOK` nor the two properties of the events is
inductive: they depend on what a request between its flush and its commit or event
may still write.  `IInv` adds

- `HandlersOK`, `ObjectsOK`: what a request has read at each step, and that its object
  differs from the row it read only in the columns it was asked to write;
- `InsertedOK`: an inserted row has one creator, and where the creator is tells
  whether the row is committed and announced;
- `WritersOK`: transactions that have written exclude each other by row and by
  unique value, and no committed row has a value they are about to commit;
- `UpdatesOK`, `EventsOK`: the only update of an account knows what its row shows, and
  the last event shows the row until the next update has committed.

One lemma per action says what it changes and with which types, one per part of
`IInv` says when a step preserves it, and one per action puts these together; the
commit is the long one.  `Invariance` gives `TypesHold`, `KeysHold`, `AnnouncementsHold`
and `EventsHold`; `ColumnsHold` follows from `ObjectsOK` and the step `Commit`.
`StoreRefinement` maps `Commit` to `Create` or `Change`, by `ColumnsHold` and `KeysOK` of the
next state, and every other step to a stutter.

`OAuthCallbackProofs` has two layers.  `IInv` relies on Google, which accepts a code
once, and on nothing about states: `OneHandlerPerCode` says that only one callback is past
the exchange of a code, `HandlerOK` what it knows there (the newest grant of its code, no
session and no stored token of it yet), `HoldsAccount` what still holds of the account
it has read, `CodesOK` that a code leaves nothing behind before its exchange.
`CodesSignInOnce` follows.  `StatesOK` relies on Redis and on nothing about codes but the
record `via`: a state that nobody raced for has admitted one callback at most
(`Admitted`), is gone once that one has deleted it, and admits nobody any more
once a session has been opened with it.  `StatesSignInOnce` follows, for any codes.  The
commit is the long case: its row is the caller's own, or differs from the committed
one only where `crossed` or `relinked` say so.  `AccountsComposed` and
`SessionsComposed` show that its steps on the two tables are steps of `AccountStore`
and `SessionStore`: the callback relies on nothing else of them.

`KeyRotationProofs`.  `FilesOK` ties the files to the step of the script, `SteadyOK` the
cache of a steady worker to the files, `TokensOK` the tokens of steady workers to the
private key; `CachesOK` says that nobody holds a pair that is still to come.

`SchemaMigrationsProofs`.  `SchemaAt(v)` describes revision `v` apart from how a database
gets there.  `IInv` says that the committed schema, and what each transaction would
commit, are the ones of their revisions; the work is one lemma per upgrade and
downgrade, that it takes `SchemaAt(v)` to `SchemaAt(v + 1)` or back, LIKE patterns
included.  `CommandOK` carries the interleaving with registrations: a transaction that has
run a migration without locking `users` or the roles agrees with the committed
schema on all that `Fits` depends on, so a row that is inserted meanwhile fits both.
From it follow the five invariants, and with the guards of `Migrate` the action
properties.  `CommandsComeNearer` adds that each migration brings its command one revision
nearer to its target, which is most of `CommandsEnd`.  `DeploymentsAtomic` is the
refinement of `Deployment`: the rows that a transaction agrees with fit the revision
it commits, whatever was registered since it began, and a target is all it can commit.
`AccountsOutlastDeployments` follows from it alone.

Only model-checked: `RequestsComplete` of the sessions and of the accounts, `BlockEnds`,
`CounterEnds` and `CommandsEnd`, since fairness and ENABLED are out of the provers'
reach; the safety part of their arguments is proved (`WaitCirclesDetected`, `BlocksBounded`,
`CountersExpire`, `CommandsComeNearer`).  The assumptions on PostgreSQL are part of the models and are not proved:
READ COMMITTED, row locks, unique keys that make a writer wait, transactional DDL.

## 5. Not modelled

- `verify_google_id_token`, `cleanup_expired_and_used_sessions`, `find_all`, `update_one`,
  `delete_one`, `send_kafka_event`: nothing calls them, or nothing gets that far.
- HTTP surface, schemas, exception handlers, middleware, logging: stateless; where an answer
  matters it is part of an action's guard.
- Kafka producer, Redis client, lifespan: they open and close connections; `send` is
  `Publish` of `UserAccounts`.
- Access tokens beyond the pair they verify with: they are never stored.
- The offline mode of Alembic, which prints SQL; containers and their configuration.

Met while modelling, and shown by no run: a Google sign-in never looks at `is_active`
(`user_service.py:135`); a login that asked `is_blocked` before the block was set
succeeds during it (`user_service.py:50`); the loser of two simultaneous registrations
gets 500, not the documented 400 (`user_service.py:30`); the downgrade of revision
`148735856383` cannot be compiled (its line 37), which `FailuresExplained` counts among the
reasons to fail; two callbacks with one state and two codes, of a consent page finished
twice, that both get past `redis.get` before either has deleted the state both sign in
(`auth.py:250`-`258`), which `OneSignInPerState` exempts by `raced`; from
`open(private_key_file, "wb")` on, and for good if the script is killed there, the old public
key is served although its private key is gone (`rotate_keys.py:19`-`29`):
`NewPublicHasPrivate` is about the new pair only.
