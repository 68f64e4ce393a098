----------------------- MODULE LoginRateLimiterProofs -----------------------
(* Theorems about LoginRateLimiter, for any requests, limit and time.       *)
EXTENDS LoginRateLimiter, FiniteSetTheorems, TLAPS

USE RequestsAssumption, MaxAttemptsAssumption, BlockSecondsAssumption,
    MaxCrashesAssumption
USE DEF keys

\* The inductive invariant: each part is inductive once the types are known.
LimiterInv == TypeOK /\ LimitIsEnforced /\ CounterExpires

\* A step of Next, one case per action.
LEMMA NextCases ==
  ASSUME [Next]_vars
  PROVE  \/ \E r \in Requests :
              \/ Attempt(r) \/ CheckPassword(r) \/ Incr(r) \/ Expire(r)
              \/ SetBlock(r) \/ DeleteCounter(r) \/ Crash(r)
         \/ Tick
         \/ UNCHANGED vars
BY DEF Next, Work

LEMMA TypeInit == Init => TypeOK
BY DEF Init, TypeOK, PCs

LEMMA TypeStep == TypeOK /\ [Next]_vars => TypeOK'
<1> SUFFICES ASSUME TypeOK, [Next]_vars PROVE TypeOK'
  OBVIOUS
<1> USE DEF TypeOK, PCs, Goto, BlockOrEnd
<1>1. ASSUME NEW r \in Requests, Attempt(r) PROVE TypeOK'
  BY <1>1 DEF Attempt
<1>2. ASSUME NEW r \in Requests, CheckPassword(r) PROVE TypeOK'
  BY <1>2 DEF CheckPassword
<1>3. ASSUME NEW r \in Requests, Incr(r) PROVE TypeOK'
  BY <1>3 DEF Incr
<1>4. ASSUME NEW r \in Requests, Expire(r) PROVE TypeOK'
  BY <1>4 DEF Expire
<1>5. ASSUME NEW r \in Requests, SetBlock(r) PROVE TypeOK'
  BY <1>5 DEF SetBlock
<1>6. ASSUME NEW r \in Requests, DeleteCounter(r) PROVE TypeOK'
  BY <1>6 DEF DeleteCounter
<1>7. ASSUME NEW r \in Requests, Crash(r) PROVE TypeOK'
  BY <1>7 DEF Crash
<1>8. CASE Tick
  BY <1>8 DEF Tick
<1>9. CASE UNCHANGED vars
  BY <1>9 DEF vars
<1> QED
  BY <1>1, <1>2, <1>3, <1>4, <1>5, <1>6, <1>7, <1>8, <1>9, NextCases

\* At every step the number of blocking requests is a number.
LEMMA BlockingFinite ==
  /\ IsFiniteSet(Blocking)
  /\ Cardinality(Blocking) \in Nat
  /\ Cardinality(Blocking) <= Cardinality(Requests)
BY FS_Subset, FS_CardinalityType DEF Blocking

LEMMA LimitInit == Init => LimitIsEnforced
BY DEF Init, LimitIsEnforced

LEMMA LimitStep ==
  TypeOK /\ LimitIsEnforced /\ [Next]_vars => LimitIsEnforced'
<1> SUFFICES ASSUME TypeOK, LimitIsEnforced, [Next]_vars
             PROVE  LimitIsEnforced'
  OBVIOUS
<1> USE DEF TypeOK, Goto
<1>0. IsFiniteSet(Blocking) /\ Cardinality(Blocking) \in Nat
  BY BlockingFinite
\* Nothing to show when neither the counter nor the blocking requests change.
<1>s. ASSUME Blocking' = Blocking, fails' \in {fails, 0}, crashes' = crashes
      PROVE  LimitIsEnforced'
  BY <1>s DEF LimitIsEnforced
<1>1. ASSUME NEW r \in Requests, Attempt(r) PROVE LimitIsEnforced'
  <2>1. Blocking' = Blocking
    BY <1>1 DEF Attempt, Blocking
  <2> QED
    BY <1>1, <2>1, <1>s DEF Attempt
<1>2. ASSUME NEW r \in Requests, CheckPassword(r) PROVE LimitIsEnforced'
  <2>1. Blocking' = Blocking
    BY <1>2 DEF CheckPassword, Blocking
  <2> QED
    BY <1>2, <2>1, <1>s DEF CheckPassword
<1>3. ASSUME NEW r \in Requests, Incr(r) PROVE LimitIsEnforced'
  <2>1. r \notin Blocking
    BY <1>3 DEF Incr, Blocking
  <2>2. CASE fails + 1 >= MaxAttempts
    <3>1. Blocking' = Blocking \cup {r}
      BY <1>3, <2>2 DEF Incr, Blocking, BlockOrEnd
    <3>2. Cardinality(Blocking') = Cardinality(Blocking) + 1
      BY <1>0, <2>1, <3>1, FS_AddElement
    <3> QED
      BY <1>0, <1>3, <2>2, <3>2 DEF Incr, LimitIsEnforced
  <2>3. CASE ~ (fails + 1 >= MaxAttempts)
    BY <1>3, <2>3 DEF Incr, LimitIsEnforced
  <2> QED
    BY <2>2, <2>3
<1>4. ASSUME NEW r \in Requests, Expire(r) PROVE LimitIsEnforced'
  <2>1. Blocking' = Blocking
    BY <1>4 DEF Expire, Blocking, BlockOrEnd
  <2> QED
    BY <1>4, <2>1, <1>s DEF Expire
<1>5. ASSUME NEW r \in Requests, SetBlock(r) PROVE LimitIsEnforced'
  <2>1. Blocking' = Blocking
    BY <1>5 DEF SetBlock, Blocking
  <2> QED
    BY <1>5, <2>1, <1>s DEF SetBlock
<1>6. ASSUME NEW r \in Requests, DeleteCounter(r) PROVE LimitIsEnforced'
  BY <1>6 DEF DeleteCounter, LimitIsEnforced
<1>7. ASSUME NEW r \in Requests, Crash(r) PROVE LimitIsEnforced'
  <2>1. Blocking' = Blocking \ {r}
    BY <1>7 DEF Crash, Blocking
  <2>2. Cardinality(Blocking') >= Cardinality(Blocking) - 1
    <3>1. Cardinality(Blocking \ {r}) = IF r \in Blocking
                                         THEN Cardinality(Blocking) - 1
                                         ELSE Cardinality(Blocking)
      BY <1>0, FS_RemoveElement
    <3> QED
      BY <1>0, <2>1, <3>1
  <2>3. Cardinality(Blocking') \in Nat
    BY <1>0, <2>1, FS_RemoveElement, FS_CardinalityType
  <2> QED
    BY <1>0, <1>7, <2>2, <2>3 DEF Crash, LimitIsEnforced
<1>8. CASE Tick
  <2>1. Blocking' = Blocking
    BY <1>8 DEF Tick, Blocking
  <2> QED
    BY <1>8, <2>1, <1>s DEF Tick
<1>9. CASE UNCHANGED vars
  <2>1. Blocking' = Blocking
    BY <1>9 DEF vars, Blocking
  <2> QED
    BY <1>9, <2>1, <1>s DEF vars
<1> QED
  BY <1>1, <1>2, <1>3, <1>4, <1>5, <1>6, <1>7, <1>8, <1>9, NextCases

LEMMA ExpiresInit == Init => CounterExpires
BY DEF Init, CounterExpires

LEMMA ExpiresStep == TypeOK /\ CounterExpires /\ [Next]_vars => CounterExpires'
<1> SUFFICES ASSUME TypeOK, CounterExpires, [Next]_vars
             PROVE  CounterExpires'
  OBVIOUS
<1> USE DEF TypeOK, Goto, CounterExpires
<1>1. ASSUME NEW r \in Requests, Attempt(r) PROVE CounterExpires'
  BY <1>1 DEF Attempt
<1>2. ASSUME NEW r \in Requests, CheckPassword(r) PROVE CounterExpires'
  BY <1>2 DEF CheckPassword
<1>3. ASSUME NEW r \in Requests, Incr(r) PROVE CounterExpires'
  <2>1. CASE fails = 0
    BY <1>3, <2>1 DEF Incr
  <2>2. CASE fails # 0
    BY <1>3, <2>2 DEF Incr
  <2> QED
    BY <2>1, <2>2
<1>4. ASSUME NEW r \in Requests, Expire(r) PROVE CounterExpires'
  BY <1>4 DEF Expire
<1>5. ASSUME NEW r \in Requests, SetBlock(r) PROVE CounterExpires'
  BY <1>5 DEF SetBlock
<1>6. ASSUME NEW r \in Requests, DeleteCounter(r) PROVE CounterExpires'
  BY <1>6 DEF DeleteCounter
<1>7. ASSUME NEW r \in Requests, Crash(r) PROVE CounterExpires'
  BY <1>7 DEF Crash
<1>8. CASE Tick
  BY <1>8 DEF Tick
<1>9. CASE UNCHANGED vars
  BY <1>9 DEF vars
<1> QED
  BY <1>1, <1>2, <1>3, <1>4, <1>5, <1>6, <1>7, <1>8, <1>9, NextCases

LEMMA Inductive == Spec => []LimiterInv
<1>1. Init => LimiterInv
  BY TypeInit, LimitInit, ExpiresInit DEF LimiterInv
<1>2. LimiterInv /\ [Next]_vars => LimiterInv'
  BY TypeStep, LimitStep, ExpiresStep DEF LimiterInv
<1> QED
  BY <1>1, <1>2, PTL DEF Spec

\* The keys and the local variables of authenticate_user and incr_attempts
\* have their types in every reachable state.
THEOREM LimiterTypes == Spec => []TypeOK
<1>1. LimiterInv => TypeOK
  BY DEF LimiterInv
<1> QED
  BY <1>1, Inductive, PTL

\* However many requests count wrong passwords at once, the counter passes the
\* limit by no more than those that have still to set and clear the block.
THEOREM LimitEnforced == Spec => []LimitIsEnforced
<1>1. LimiterInv => LimitIsEnforced
  BY DEF LimiterInv
<1> QED
  BY <1>1, Inductive, PTL

\* No interleaving of INCR, EXPIRE and DEL leaves a counter for ever: only a
\* request that fails between the first two does.
THEOREM CountersExpire == Spec => []CounterExpires
<1>1. LimiterInv => CounterExpires
  BY DEF LimiterInv
<1> QED
  BY <1>1, Inductive, PTL

\* The number of wrong passwords of one address that are counted at any time
\* is bounded: INCR cannot run away from the test that follows it.
THEOREM FailsBounded ==
  Spec => [](fails <= MaxAttempts - 1 + Cardinality(Requests) + MaxCrashes)
<1>1. LimiterInv => fails <= MaxAttempts - 1 + Cardinality(Requests) + MaxCrashes
  <2> SUFFICES ASSUME LimiterInv
               PROVE  fails <= MaxAttempts - 1 + Cardinality(Requests)
                               + MaxCrashes
    OBVIOUS
  <2>1. Cardinality(Requests) \in Nat
    BY FS_CardinalityType
  <2>2. CASE fails >= MaxAttempts
    BY <2>1, <2>2, BlockingFinite DEF LimiterInv, TypeOK, LimitIsEnforced
  <2>3. CASE ~ (fails >= MaxAttempts)
    BY <2>1, <2>3 DEF LimiterInv, TypeOK
  <2> QED
    BY <2>2, <2>3
<1> QED
  BY <1>1, Inductive, PTL

-----------------------------------------------------------------------------
(* How long a block lasts.                                                 *)

LEMMA LateFinite == IsFiniteSet(Late) /\ Cardinality(Late) \in Nat
BY FS_Subset, FS_CardinalityType DEF Late

\* A step of one request, during a block, sends none past is_blocked.
LEMMA LateShrinks ==
  ASSUME TypeOK, [Next]_vars, blockTtl > 0
  PROVE  Late' \subseteq Late
<1> USE DEF TypeOK, Late, Goto, BlockOrEnd
<1>1. ASSUME NEW r \in Requests, CheckPassword(r) PROVE Late' \subseteq Late
  BY <1>1 DEF CheckPassword
<1>2. ASSUME NEW r \in Requests, Incr(r) PROVE Late' \subseteq Late
  BY <1>2 DEF Incr
<1>3. ASSUME NEW r \in Requests, Expire(r) PROVE Late' \subseteq Late
  BY <1>3 DEF Expire
<1>4. ASSUME NEW r \in Requests, SetBlock(r) \/ DeleteCounter(r) \/ Crash(r)
      PROVE  Late' \subseteq Late
  BY <1>4 DEF SetBlock, DeleteCounter, Crash
<1> QED
  BY <1>1, <1>2, <1>3, <1>4, NextCases DEF Attempt, Tick, vars

\* The request that sets the block again cannot do so once more.
LEMMA BlockLeaves ==
  ASSUME TypeOK, NEW r \in Requests, SetBlock(r)
  PROVE  Late' = Late \ {r} /\ r \in Late
BY DEF TypeOK, SetBlock, Late, Goto

\* Fewer requests left, less time left.
LEMMA HorizonArithmetic ==
  ASSUME NEW m \in Nat, NEW n \in Nat
  PROVE  /\ BlockSeconds * m \in Nat
         /\ m <= n => BlockSeconds * m <= BlockSeconds * n
         /\ BlockSeconds * (n - 1) = BlockSeconds * n - BlockSeconds
OBVIOUS

\* A block ends after at most block_seconds, and as much again for each request
\* that passed is_blocked before: what is attempted meanwhile does not matter
\* (is_blocked before incr_attempts in login, SETEX in incr_attempts).
THEOREM BlocksBounded == Spec => BlocksAreBounded
<1> DEFINE Bounded == blockTtl > 0 =>
                        /\ BlockHorizon' <= BlockHorizon
                        /\ blockTtl' < blockTtl => BlockHorizon' < BlockHorizon
<1>1. TypeOK /\ TypeOK' /\ [Next]_vars => [Bounded]_vars
  <2> SUFFICES ASSUME TypeOK, TypeOK', [Next]_vars, blockTtl > 0
               PROVE  /\ BlockHorizon' <= BlockHorizon
                      /\ blockTtl' < blockTtl => BlockHorizon' < BlockHorizon
    OBVIOUS
  <2>1. blockTtl \in Nat /\ blockTtl' \in Nat /\ blockTtl' <= BlockSeconds
    BY DEF TypeOK
  <2>2. Late' \subseteq Late /\ Cardinality(Late') \in Nat /\ Cardinality(Late) \in Nat
    BY LateShrinks, LateFinite, FS_Subset, FS_CardinalityType
  <2>3. Cardinality(Late') <= Cardinality(Late)
    BY <2>2, LateFinite, FS_Subset
  <2>4. CASE blockTtl' <= blockTtl
    <3>1. /\ BlockSeconds * Cardinality(Late') \in Nat
          /\ BlockSeconds * Cardinality(Late) \in Nat
          /\ BlockSeconds * Cardinality(Late') <= BlockSeconds * Cardinality(Late)
      BY <2>2, <2>3, HorizonArithmetic
    <3> QED
      BY <2>1, <2>4, <3>1 DEF BlockHorizon
  <2>5. CASE blockTtl' > blockTtl
    <3>1. PICK r \in Requests : SetBlock(r)
      BY <2>1, <2>5, NextCases DEF Attempt, CheckPassword, Incr, Expire, DeleteCounter,
         Crash, Tick, vars
    <3>2. Cardinality(Late') = Cardinality(Late) - 1
      BY <3>1, BlockLeaves, LateFinite, FS_RemoveElement
    <3>3. /\ BlockSeconds * Cardinality(Late) \in Nat
          /\ BlockSeconds * Cardinality(Late')
               = BlockSeconds * Cardinality(Late) - BlockSeconds
      BY <2>2, <3>2, HorizonArithmetic
    <3> QED
      BY <2>1, <2>5, <3>3 DEF BlockHorizon
  <2> QED
    BY <2>1, <2>4, <2>5
<1>2. Spec => [][Bounded]_vars
  BY <1>1, LimiterTypes, PTL DEF Spec
<1> QED
  BY <1>2 DEF BlocksAreBounded
=============================================================================
