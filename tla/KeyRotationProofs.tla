------------------------- MODULE KeyRotationProofs -------------------------
(***************************************************************************)
(* The safety properties of KeyRotation hold for any number of workers and *)
(* rotations.  The invariant says what the two files hold at each step of  *)
(* the script, and ties to them what steady workers have cached and signed. *)
(***************************************************************************)
EXTENDS KeyRotation, TLAPS

\* In the first state the two files hold the first pair and nothing is cached.
LEMMA InitEstablishes == Init => IInv
  <1> USE NoKeyAssumption, MaxPairsAssumption
  <1> SUFFICES ASSUME Init PROVE IInv
    OBVIOUS
  <1>1. TypeOK
    BY DEF Init, TypeOK, Files, Pairs, Steps, Cached, Cold
  <1>2. FilesOK /\ TokensOK
    BY DEF Init, FilesOK, TokensOK, Pairs
  <1>3. SteadyOK /\ CachesOK /\ NewPublicHasPrivate
    BY DEF Init, SteadyOK, CachesOK, NewPublicHasPrivate, Pairs, Cold
  <1> QED
    BY <1>1, <1>2, <1>3 DEF IInv

\* What every step of the script that touches a file does to the rest: nothing
\* cached changes, and nothing is steady or new any more.
LEMMA ChangePreserves ==
  ASSUME IInv, FilesChange
  PROVE  /\ cache' = cache
         /\ tokens' \subseteq Token /\ steady' \subseteq Workers
         /\ SteadyOK' /\ TokensOK'
  <1>1. \A t \in tokens : [t EXCEPT !.new = FALSE] \in Token
    BY DEF IInv, TypeOK, Token
  <1>2. \A t \in tokens' : t.new = FALSE
    BY DEF FilesChange, IInv, TypeOK, Token
  <1> QED
    BY <1>1, <1>2 DEF FilesChange, SteadyOK, TokensOK

\* A step of rotate_keys.py preserves the invariant.
LEMMA ScriptPreserves == ASSUME IInv, Script PROVE IInv'
  <1> USE NoKeyAssumption, MaxPairsAssumption
  <1> USE DEF IInv
  <1> DEFINE Rest == CachesOK' /\ NewPublicHasPrivate'
  <1>1. CASE OpenPrivate
    <2>1. cache' = cache /\ tokens' \subseteq Token /\ steady' \subseteq Workers
          /\ SteadyOK' /\ TokensOK'
      BY <1>1, ChangePreserves DEF OpenPrivate
    <2>2. newest' = newest + 1 /\ newest' \in Pairs /\ private' = Empty /\ public' = public
          /\ script' = "write_private"
      BY <1>1 DEF OpenPrivate, TypeOK, Pairs
    <2>3. TypeOK'
      BY <2>1, <2>2 DEF TypeOK, Files, Steps
    <2>4. FilesOK'
      BY <2>2 DEF FilesOK, TypeOK, Files, Pairs
    <2>5. CachesOK'
      BY <2>1, <2>2 DEF CachesOK, TypeOK, Cached, Files, Pairs
    <2>6. NewPublicHasPrivate'
      BY <2>1, <2>2 DEF NewPublicHasPrivate, CachesOK, FilesOK, TypeOK, Files, Pairs
    <2> QED
      BY <2>1, <2>3, <2>4, <2>5, <2>6
  <1>2. CASE WritePrivate
    <2>1. cache' = cache /\ tokens' \subseteq Token /\ steady' \subseteq Workers
          /\ SteadyOK' /\ TokensOK'
      BY <1>2, ChangePreserves DEF WritePrivate
    <2>2. TypeOK' /\ FilesOK'
      BY <1>2, <2>1 DEF WritePrivate, TypeOK, FilesOK, Files, Steps, Pairs
    <2>3. CachesOK' /\ NewPublicHasPrivate'
      BY <1>2, <2>1 DEF WritePrivate, CachesOK, NewPublicHasPrivate
    <2> QED
      BY <2>1, <2>2, <2>3
  <1>3. CASE OpenPublic
    <2>1. cache' = cache /\ tokens' \subseteq Token /\ steady' \subseteq Workers
          /\ SteadyOK' /\ TokensOK'
      BY <1>3, ChangePreserves DEF OpenPublic
    <2>2. TypeOK' /\ FilesOK'
      BY <1>3, <2>1 DEF OpenPublic, TypeOK, FilesOK, Files, Steps, Pairs
    <2>3. CachesOK' /\ NewPublicHasPrivate'
      BY <1>3, <2>1 DEF OpenPublic, CachesOK, NewPublicHasPrivate, FilesOK
    <2> QED
      BY <2>1, <2>2, <2>3
  <1>4. CASE WritePublic
    <2>1. cache' = cache /\ tokens' \subseteq Token /\ steady' \subseteq Workers
          /\ SteadyOK' /\ TokensOK'
      BY <1>4, ChangePreserves DEF WritePublic
    <2>2. TypeOK' /\ FilesOK'
      BY <1>4, <2>1 DEF WritePublic, TypeOK, FilesOK, Files, Steps, Pairs
    <2>3. CachesOK' /\ NewPublicHasPrivate'
      BY <1>4, <2>1 DEF WritePublic, CachesOK, NewPublicHasPrivate, FilesOK
    <2> QED
      BY <2>1, <2>2, <2>3
  <1>5. CASE ClearKeysCache \/ Kill
    <2>1. UNCHANGED <<private, public, newest, cache, tokens, steady>> /\ script' = "idle"
      BY <1>5 DEF ClearKeysCache, Kill
    <2>2. TypeOK' /\ FilesOK'
      BY <2>1 DEF TypeOK, FilesOK, Steps
    <2>3. SteadyOK' /\ CachesOK' /\ TokensOK' /\ NewPublicHasPrivate'
      BY <2>1 DEF SteadyOK, CachesOK, TokensOK, NewPublicHasPrivate
    <2> QED
      BY <2>2, <2>3
  <1> QED
    BY <1>1, <1>2, <1>3, <1>4, <1>5 DEF Script

\* What a worker reads, or has read, is a pair that exists or an empty file,
\* and what the file holds if the worker is steady.
LEMMA KeysRead ==
  ASSUME IInv, NEW w \in Workers
  PROVE  /\ PrivateKey(w) \in Files /\ PublicKey(w) \in Files
         /\ PrivateKey(w) \in Pairs => PrivateKey(w) <= newest
         /\ PublicKey(w) \in Pairs => PublicKey(w) <= newest
         /\ w \in steady => PrivateKey(w) = private /\ PublicKey(w) = public
         /\ PublicKey(w) \in {public, cache[w].public}
  <1> USE NoKeyAssumption, MaxPairsAssumption
  <1>1. cache[w].private \in Cached /\ cache[w].public \in Cached
    BY DEF IInv, TypeOK
  <1>2. /\ private \in Pairs => private <= newest
        /\ public \in Pairs => public <= newest
    BY DEF IInv, TypeOK, FilesOK, Pairs
  <1>3. PrivateKey(w) \in Files /\ PublicKey(w) \in Files
    BY <1>1 DEF PrivateKey, PublicKey, IInv, TypeOK, Cached
  <1>4. /\ PrivateKey(w) \in Pairs => PrivateKey(w) <= newest
        /\ PublicKey(w) \in Pairs => PublicKey(w) <= newest
    BY <1>2 DEF PrivateKey, PublicKey, IInv, CachesOK
  <1>5. w \in steady => PrivateKey(w) = private /\ PublicKey(w) = public
    BY DEF PrivateKey, PublicKey, IInv, SteadyOK
  <1> QED
    BY <1>3, <1>4, <1>5 DEF PublicKey

\* A worker that starts, signs, or reads the public key preserves the invariant.
LEMMA WorkerPreserves ==
  ASSUME IInv, NEW w \in Workers, Restart(w) \/ Sign(w) \/ ReadPublic(w)
  PROVE  IInv'
  <1> USE NoKeyAssumption, MaxPairsAssumption
  <1>1. UNCHANGED files
    BY DEF Restart, Sign, ReadPublic
  <1>2. FilesOK'
    BY <1>1 DEF files, FilesOK, IInv
  <1>3. CASE Restart(w)
    <2>1. \A v \in Workers : cache'[v] = IF v = w THEN Cold ELSE cache[v]
      BY <1>3 DEF Restart, IInv, TypeOK
    <2>2. cache' \in [Workers -> [private: Cached, public: Cached]]
      BY <1>3 DEF Restart, IInv, TypeOK, Cold, Cached
    <2>3. TypeOK'
      BY <1>1, <1>3, <2>2 DEF Restart, files, IInv, TypeOK
    <2>4. SteadyOK'
      BY <1>1, <1>3, <2>1 DEF Restart, files, IInv, SteadyOK, TypeOK, Cold
    <2>5. CachesOK'
      BY <1>1, <2>1 DEF files, IInv, CachesOK, Cold, Pairs
    <2>6. TokensOK'
      BY <1>1, <1>3 DEF Restart, files, IInv, TokensOK
    <2>7. NewPublicHasPrivate'
      BY <1>1, <2>1 DEF files, IInv, NewPublicHasPrivate, Cold, TypeOK, Pairs
    <2> QED
      BY <1>2, <2>3, <2>4, <2>5, <2>6, <2>7 DEF IInv
  <1>4. CASE Sign(w)
    <2>1. \A v \in Workers : /\ cache'[v].public = cache[v].public
                             /\ cache'[v].private =
                                  IF v = w THEN PrivateKey(w) ELSE cache[v].private
      BY <1>4 DEF Sign, IInv, TypeOK
    <2>2. cache' \in [Workers -> [private: Cached, public: Cached]]
      BY <1>4, KeysRead DEF Sign, IInv, TypeOK, Cached
    <2> DEFINE signed == [pair |-> PrivateKey(w), new |-> w \in steady]
    <2>3. PrivateKey(w) # Empty => PrivateKey(w) \in Pairs
      BY KeysRead DEF Files
    <2>4. PrivateKey(w) # Empty => signed \in Token
      <3>1. (w \in steady) \in BOOLEAN
        OBVIOUS
      <3> QED
        BY <2>3, <3>1, Zenon DEF Token
    <2>5. signed.pair = PrivateKey(w) /\ (signed.new <=> w \in steady)
      BY Zenon
    <2>6. tokens' \subseteq tokens \cup {signed}
          /\ (signed \in tokens' => signed \in tokens \/ PrivateKey(w) # Empty)
      BY <1>4 DEF Sign
    <2> HIDE DEF signed
    <2>7. tokens' \subseteq Token
      BY <2>4, <2>6 DEF IInv, TypeOK
    <2>8. TypeOK'
      BY <1>1, <1>4, <2>2, <2>7 DEF Sign, files, IInv, TypeOK
    <2>9. SteadyOK'
      BY <1>1, <1>4, <2>1, KeysRead DEF Sign, files, IInv, SteadyOK, TypeOK
    <2>10. CachesOK'
      BY <1>1, <2>1, KeysRead DEF files, IInv, CachesOK
    <2>11. TokensOK'
      BY <1>1, <2>5, <2>6, KeysRead DEF files, IInv, TokensOK
    <2>12. NewPublicHasPrivate'
      BY <1>1, <2>1 DEF files, IInv, NewPublicHasPrivate
    <2> QED
      BY <1>2, <2>8, <2>9, <2>10, <2>11, <2>12 DEF IInv
  <1>5. CASE ReadPublic(w)
    <2>1. \A v \in Workers : /\ cache'[v].private = cache[v].private
                             /\ cache'[v].public =
                                  IF v = w THEN PublicKey(w) ELSE cache[v].public
      BY <1>5 DEF ReadPublic, IInv, TypeOK
    <2>2. cache' \in [Workers -> [private: Cached, public: Cached]]
      BY <1>5, KeysRead DEF ReadPublic, IInv, TypeOK, Cached
    <2>3. TypeOK'
      BY <1>1, <1>5, <2>2 DEF ReadPublic, files, IInv, TypeOK
    <2>4. SteadyOK'
      BY <1>1, <1>5, <2>1, KeysRead DEF ReadPublic, files, IInv, SteadyOK, TypeOK
    <2>5. CachesOK'
      BY <1>1, <2>1, KeysRead DEF files, IInv, CachesOK
    <2>6. TokensOK'
      BY <1>1, <1>5 DEF ReadPublic, files, IInv, TokensOK
    <2>7. NewPublicHasPrivate'
      BY <1>1, <2>1, KeysRead DEF files, IInv, NewPublicHasPrivate
    <2> QED
      BY <1>2, <2>3, <2>4, <2>5, <2>6, <2>7 DEF IInv
  <1> QED
    BY <1>3, <1>4, <1>5

\* A token that expires preserves the invariant, and so does a stutter.
LEMMA ExpiryPreserves ==
  ASSUME IInv, (\E t \in tokens : Expire(t)) \/ UNCHANGED vars
  PROVE  IInv'
  <1>1. UNCHANGED <<files, cache, steady>> /\ tokens' \subseteq tokens
    BY DEF Expire, vars, files
  <1>2. TypeOK' /\ FilesOK' /\ SteadyOK'
    BY <1>1 DEF files, IInv, TypeOK, FilesOK, SteadyOK
  <1>3. CachesOK' /\ TokensOK' /\ NewPublicHasPrivate'
    BY <1>1 DEF files, IInv, CachesOK, TokensOK, NewPublicHasPrivate
  <1> QED
    BY <1>2, <1>3 DEF IInv

\* What the files, the caches and the tokens hold is consistent at every step of
\* the script and wherever it is killed.
THEOREM Invariance == Spec => []IInv
  <1>1. IInv /\ [Next]_vars => IInv'
    BY ScriptPreserves, WorkerPreserves, ExpiryPreserves DEF Next
  <1> QED
    BY InitEstablishes, <1>1, PTL DEF Spec

\* The files, the caches and the tokens are well typed.
THEOREM TypesHold == Spec => []TypeOK
  BY Invariance, PTL DEF IInv

\* The public key of a pair is on disk or in a cache only if its private key is
\* on disk, or a later rotation has begun.
THEOREM NewPublicKeysHavePrivate == Spec => []NewPublicHasPrivate
  BY Invariance, PTL DEF IInv

\* Workers started since a complete rotation accept each other's tokens.
THEOREM NewTokensAreAccepted == Spec => []NewTokensVerify
  <1>1. IInv => NewTokensVerify
    BY KeysRead DEF IInv, NewTokensVerify, TokensOK, TypeOK
  <1> QED
    BY Invariance, <1>1, PTL
=============================================================================
