---------------------------- MODULE KeyRotation ----------------------------
(***************************************************************************)
(* The RSA key pair that signs and verifies access tokens: the script that *)
(* replaces it (keys/rotate_keys.py), the worker processes that cache the  *)
(* two files separately on first use, and the tokens signed meanwhile.     *)
(***************************************************************************)
EXTENDS Naturals

CONSTANTS
  Workers,    \* worker processes of gunicorn
  MaxPairs,   \* bound: key pairs generated after the first one
  Empty,      \* a file that open(..., "wb") has truncated
  Unread      \* a cached_property not evaluated yet

ASSUME MaxPairsAssumption == MaxPairs \in Nat
ASSUME NoKeyAssumption == Empty \notin Nat /\ Unread \notin Nat /\ Empty # Unread

VARIABLES
  private, public,  \* what the two files hold
  script,           \* where the script is
  newest,           \* the last pair generated
  cache,            \* worker -> its settings.private_key and settings.public_key
  tokens,           \* access tokens that have not expired
  steady            \* history: workers started, and tokens signed by one of
                    \* them, since the files last changed

vars == <<private, public, script, newest, cache, tokens, steady>>
files == <<private, public, script, newest>>

-----------------------------------------------------------------------------
Pairs == 0..MaxPairs

Files == Pairs \cup {Empty}
Cached == Files \cup {Unread}

Steps == {"idle", "write_private", "open_public", "write_public", "clear"}

\* A token, by the pair that signed it.  "new": signed by a steady worker.
Token == [pair: Pairs, new: BOOLEAN]

Cold == [private |-> Unread, public |-> Unread]

Init ==
  /\ private = 0
  /\ public = 0
  /\ script = "idle"
  /\ newest = 0
  /\ cache = [w \in Workers |-> Cold]
  /\ tokens = {}
  /\ steady = Workers

\* The files change: what was read or signed before is no longer new.
FilesChange ==
  /\ steady' = {}
  /\ tokens' = {[t EXCEPT !.new = FALSE] : t \in tokens}
  /\ UNCHANGED cache

-----------------------------------------------------------------------------
(* rotate_keys.py.                                                         *)

\* Mutant: the public key is written first.
PublicFirst ==
  /\ script = "idle"
  /\ newest < MaxPairs
  /\ newest' = newest + 1
  /\ private' = Empty
  /\ public' = newest + 1
  /\ script' = "write_private"
  /\ FilesChange

\* open(private_key_file, "wb")
OpenPrivate ==
  /\ script = "idle"
  /\ newest < MaxPairs
  /\ newest' = newest + 1
  /\ private' = Empty
  /\ script' = "write_private"
  /\ FilesChange
  /\ UNCHANGED public

WritePrivate ==
  /\ script = "write_private"
  /\ private' = newest
  /\ script' = "open_public"
  /\ FilesChange
  /\ UNCHANGED <<public, newest>>

OpenPublic ==
  /\ script = "open_public"
  /\ public' = Empty
  /\ script' = "write_public"
  /\ FilesChange
  /\ UNCHANGED <<private, newest>>

WritePublic ==
  /\ script = "write_public"
  /\ public' = newest
  /\ script' = "clear"
  /\ FilesChange
  /\ UNCHANGED <<private, newest>>

\* clear_keys_cache: a cached_property has no fdel, so the script ends here with
\* an AttributeError and send_kafka_event never runs.  The cache it meant to
\* clear would be the script's own.
ClearKeysCache ==
  /\ script = "clear"
  /\ script' = "idle"
  /\ UNCHANGED <<private, public, newest, cache, tokens, steady>>

\* The script is killed; what it has written stays.
Kill ==
  /\ script # "idle"
  /\ script' = "idle"
  /\ UNCHANGED <<private, public, newest, cache, tokens, steady>>

-----------------------------------------------------------------------------
(* The workers.                                                            *)

\* Mutant: a worker inherits the cache of the master that forked it.
RestartWarm(w) ==
  /\ steady' = steady \cup {w}
  /\ UNCHANGED <<files, tokens, cache>>

\* A gunicorn worker starts again, with nothing cached.
Restart(w) ==
  /\ cache' = [cache EXCEPT ![w] = Cold]
  /\ steady' = steady \cup {w}
  /\ UNCHANGED <<files, tokens>>

\* settings.private_key and settings.public_key: the first use reads the file,
\* whatever it holds just then.
PrivateKey(w) == IF cache[w].private = Unread THEN private ELSE cache[w].private
PublicKey(w) == IF cache[w].public = Unread THEN public ELSE cache[w].public

\* Mutant: an empty key signs as well.
SignAnyway(w) ==
  /\ cache' = [cache EXCEPT ![w].private = PrivateKey(w)]
  /\ tokens' = tokens \cup {[pair |-> PrivateKey(w), new |-> w \in steady]}
  /\ UNCHANGED <<files, steady>>

\* create_access_token: an empty key cannot sign, but stays cached.
Sign(w) ==
  /\ cache' = [cache EXCEPT ![w].private = PrivateKey(w)]
  /\ tokens' = IF PrivateKey(w) = Empty
                 THEN tokens
                 ELSE tokens \cup {[pair |-> PrivateKey(w), new |-> w \in steady]}
  /\ UNCHANGED <<files, steady>>

\* decode_access_token and GET /public_key.
ReadPublic(w) ==
  /\ cache' = [cache EXCEPT ![w].public = PublicKey(w)]
  /\ UNCHANGED <<files, tokens, steady>>

\* ACCESS_TOKEN_EXPIRE_MINUTES later.
Expire(t) ==
  /\ tokens' = tokens \ {t}
  /\ UNCHANGED <<files, cache, steady>>

-----------------------------------------------------------------------------
Script ==
  \/ OpenPrivate \/ WritePrivate \/ OpenPublic \/ WritePublic
  \/ ClearKeysCache \/ Kill

Next ==
  \/ Script
  \/ \E w \in Workers : Restart(w) \/ Sign(w) \/ ReadPublic(w)
  \/ \E t \in tokens : Expire(t)

Spec == Init /\ [][Next]_vars

-----------------------------------------------------------------------------
\* The files, the caches and the tokens have their types: no token is signed
\* with an empty key.
TypeOK ==
  /\ private \in Files
  /\ public \in Files
  /\ script \in Steps
  /\ newest \in Pairs
  /\ cache \in [Workers -> [private: Cached, public: Cached]]
  /\ tokens \subseteq Token
  /\ steady \subseteq Workers

\* Nobody is given the public key of a new pair, from the file or a cache, before
\* its private key is on disk, wherever the script is killed.  The pair before is
\* another matter: from open(private_key_file, "wb") on its public key is out, and
\* its private key is gone.
NewPublicHasPrivate ==
  \A w \in Workers :
    newest \in {public, cache[w].public} => private = newest

\* Once a rotation is complete and every worker has been started again, each of
\* them accepts the tokens of the others.  Before, none of this is certain: a
\* worker may sign with the pair before the rotation and verify with the one
\* after it, or have cached an empty file.
NewTokensVerify ==
  private = public =>
    \A t \in tokens, w \in steady : t.new => PublicKey(w) = t.pair

-----------------------------------------------------------------------------
\* GET /public_key: "Get current public key".  When no rotation is under way, a
\* worker that has read a key, and not an empty file, serves the current one.
ServesCurrentKey ==
  \A w \in Workers :
    script = "idle" /\ private = public /\ cache[w].public \in Pairs =>
      cache[w].public = public

-----------------------------------------------------------------------------
(* The inductive invariant behind the safety properties.                   *)

\* What the files hold at each step of the script.
FilesOK ==
  /\ script = "write_private" => newest \notin {private, public}
  /\ script \in {"open_public", "write_public"} => private = newest
  /\ script = "clear" => private = newest /\ public = newest
  /\ private \in {Empty, newest}
  /\ public \in Pairs => public <= newest

\* A worker started since the files last changed has cached what they hold.
SteadyOK ==
  \A w \in steady :
    /\ cache[w].private \in {Unread, private}
    /\ cache[w].public \in {Unread, public}

\* A worker holds no pair that does not exist yet.
CachesOK ==
  \A w \in Workers :
    /\ cache[w].private \in Pairs => cache[w].private <= newest
    /\ cache[w].public \in Pairs => cache[w].public <= newest

TokensOK == \A t \in tokens : t.new => t.pair = private

\* The inductive invariant.
IInv == TypeOK /\ FilesOK /\ SteadyOK /\ CachesOK /\ TokensOK /\ NewPublicHasPrivate
=============================================================================
