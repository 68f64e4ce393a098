-------------------------- MODULE LoginRateLimiter --------------------------
(***************************************************************************)
(* The login attempts of one email address: LoginRateLimiter's two Redis   *)
(* keys (the keys of different addresses are independent) and the requests *)
(* to /login/ that read and write them.  A Redis command is atomic; the    *)
(* handler awaits each one, so the commands of several requests interleave.*)
(***************************************************************************)
EXTENDS Integers, FiniteSets

CONSTANTS
  Requests,     \* login requests being served at the same time
  MaxAttempts,  \* max_attempts (5 in the code)
  BlockSeconds, \* block_seconds (600 in the code), in units of Tick
  MaxCrashes    \* bound on the requests that fail half way

ASSUME RequestsAssumption == IsFiniteSet(Requests)
ASSUME MaxAttemptsAssumption == MaxAttempts \in Nat \ {0}
ASSUME BlockSecondsAssumption == BlockSeconds \in Nat \ {0}
ASSUME MaxCrashesAssumption == MaxCrashes \in Nat

VARIABLES
  fails,     \* failed_login:<email>; 0: no such key
  failTtl,   \* its time to live; 0: none, or no such key
  blockTtl,  \* time to live of blocked_user:<email>; 0: no such key
  pc,        \* request -> the command its handler awaits
  attempts,  \* request -> incr_attempts' local variable
  crashes    \* history: requests that failed half way

vars == <<fails, failTtl, blockTtl, pc, attempts, crashes>>
keys == <<fails, failTtl, blockTtl>>

PCs == {"idle", "check", "incr", "expire", "block", "clear", "reset"}

-----------------------------------------------------------------------------
Init ==
  /\ fails = 0
  /\ failTtl = 0
  /\ blockTtl = 0
  /\ pc = [r \in Requests |-> "idle"]
  /\ attempts = [r \in Requests |-> 0]
  /\ crashes = 0

Goto(r, step) == pc' = [pc EXCEPT ![r] = step]

\* Mutant: an attempt made while blocked starts the block again.
AttemptExtends(r) ==
  /\ pc[r] = "idle"
  /\ IF blockTtl > 0
       THEN blockTtl' = BlockSeconds /\ UNCHANGED <<fails, failTtl, pc>>
       ELSE Goto(r, "check") /\ UNCHANGED keys
  /\ UNCHANGED <<attempts, crashes>>

\* Mutant: is_blocked is not asked.
AttemptUnchecked(r) ==
  /\ pc[r] = "idle"
  /\ Goto(r, "check")
  /\ UNCHANGED <<keys, attempts, crashes>>

\* POST /login/: is_blocked; raises BlockedUserException while the key exists.
Attempt(r) ==
  /\ pc[r] = "idle"
  /\ blockTtl = 0
  /\ Goto(r, "check")
  /\ UNCHANGED <<keys, attempts, crashes>>

\* The account is looked up and the password verified: unknown or inactive,
\* wrong, or right.
CheckPassword(r) ==
  /\ pc[r] = "check"
  /\ \E step \in {"idle", "incr", "reset"} : Goto(r, step)
  /\ UNCHANGED <<keys, attempts, crashes>>

\* Mutant: the block is set by the attempt that makes the limit, and no other.
BlockAtLimit(n) == IF n = MaxAttempts THEN "block" ELSE "idle"

\* What follows the INCR, and the EXPIRE, of incr_attempts.
BlockOrEnd(n) == IF n >= MaxAttempts THEN "block" ELSE "idle"

\* Mutant: the first attempt does not give the counter a time to live.
IncrForever(r) ==
  /\ pc[r] = "incr"
  /\ fails' = fails + 1
  /\ attempts' = [attempts EXCEPT ![r] = fails + 1]
  /\ Goto(r, BlockOrEnd(fails + 1))
  /\ UNCHANGED <<failTtl, blockTtl, crashes>>

\* INCR creates the key without, and keeps it with, its time to live.
Incr(r) ==
  /\ pc[r] = "incr"
  /\ fails' = fails + 1
  /\ attempts' = [attempts EXCEPT ![r] = fails + 1]
  /\ Goto(r, IF fails + 1 = 1 THEN "expire" ELSE BlockOrEnd(fails + 1))
  /\ UNCHANGED <<failTtl, blockTtl, crashes>>

\* EXPIRE does nothing to a key that another request has deleted.
Expire(r) ==
  /\ pc[r] = "expire"
  /\ failTtl' = IF fails > 0 THEN BlockSeconds ELSE 0
  /\ Goto(r, BlockOrEnd(attempts[r]))
  /\ UNCHANGED <<fails, blockTtl, attempts, crashes>>

\* Mutant: a block that is set again is added to what is left of it.
SetBlockLonger(r) ==
  /\ pc[r] = "block"
  /\ blockTtl' = blockTtl + BlockSeconds
  /\ Goto(r, "clear")
  /\ UNCHANGED <<fails, failTtl, attempts, crashes>>

\* SET with a time to live, whether or not a block is set already.
SetBlock(r) ==
  /\ pc[r] = "block"
  /\ blockTtl' = BlockSeconds
  /\ Goto(r, "clear")
  /\ UNCHANGED <<fails, failTtl, attempts, crashes>>

\* DEL of the counter: after the block was set, or after a right password.
DeleteCounter(r) ==
  /\ pc[r] \in {"clear", "reset"}
  /\ fails' = 0
  /\ failTtl' = 0
  /\ Goto(r, "idle")
  /\ UNCHANGED <<blockTtl, attempts, crashes>>

\* A worker dies, the request is cancelled, or a Redis or database call fails.
Crash(r) ==
  /\ pc[r] # "idle"
  /\ crashes < MaxCrashes
  /\ crashes' = crashes + 1
  /\ Goto(r, "idle")
  /\ UNCHANGED <<keys, attempts>>

\* Time passes for Redis, and a key whose time is up is gone.
Tick ==
  /\ failTtl > 0 \/ blockTtl > 0
  /\ failTtl' = IF failTtl > 0 THEN failTtl - 1 ELSE 0
  /\ fails' = IF failTtl = 1 THEN 0 ELSE fails
  /\ blockTtl' = IF blockTtl > 0 THEN blockTtl - 1 ELSE 0
  /\ UNCHANGED <<pc, attempts, crashes>>

Work(r) ==
  \/ CheckPassword(r) \/ Incr(r) \/ Expire(r) \/ SetBlock(r) \/ DeleteCounter(r)

Next ==
  \/ \E r \in Requests : Attempt(r) \/ Work(r) \/ Crash(r)
  \/ Tick

Spec == Init /\ [][Next]_vars

\* Time passes, and a worker goes on with the requests it serves.
Fairness == WF_vars(Tick) /\ \A r \in Requests : WF_vars(Work(r))

FairSpec == Spec /\ Fairness

-----------------------------------------------------------------------------
\* The keys and the local variables have their types.
TypeOK ==
  /\ fails \in Nat
  /\ failTtl \in 0 .. BlockSeconds
  /\ blockTtl \in 0 .. BlockSeconds
  /\ pc \in [Requests -> PCs]
  /\ attempts \in [Requests -> Nat]
  /\ crashes \in 0 .. MaxCrashes

\* The requests that reached the limit and have not cleared the counter yet.
Blocking == {r \in Requests : \/ pc[r] \in {"block", "clear"}
                              \/ pc[r] = "expire" /\ attempts[r] >= MaxAttempts}

\* Every wrong password from the limit on leads to a block: the counter passes
\* max_attempts - 1 only by as many requests as are still about to set one and
\* clear it, or failed before they could (the INCR of several requests before
\* the first of them gets to its DEL, and the test between the two).
LimitIsEnforced ==
  fails >= MaxAttempts =>
    fails - MaxAttempts + 1 <= Cardinality(Blocking) + crashes

\* The counter has a time to live, or the request that created it is about to
\* set one, or a request failed between INCR and EXPIRE: deletes and creations
\* by other requests leave no counter that stays for ever.
CounterExpires ==
  fails > 0 /\ failTtl = 0 => crashes > 0 \/ \E r \in Requests : pc[r] = "expire"

\* The requests that is_blocked let through before the block was set, and the
\* longest it can last if each of them sets it once more, as late as it can.
Late == {r \in Requests : pc[r] \in {"check", "incr", "expire", "block"}}
BlockHorizon == blockTtl + BlockSeconds * Cardinality(Late)

\* No step, of whichever request, puts the end of a block off beyond that, and
\* time brings it nearer: attempts made during a block never prolong it, those
\* that overtook it prolong it once each.
BlocksAreBounded ==
  [][blockTtl > 0 =>
       /\ BlockHorizon' <= BlockHorizon
       /\ blockTtl' < blockTtl => BlockHorizon' < BlockHorizon]_vars

\* README: "temporarily blocking": a block ends, whatever is attempted
\* meanwhile.
BlockEnds == blockTtl > 0 ~> blockTtl = 0

\* As long as no request fails half way, wrong passwords are forgotten: by a
\* login, by a block or by time.
CounterEnds == fails > 0 /\ crashes = 0 ~> fails = 0 \/ crashes > 0

=============================================================================
