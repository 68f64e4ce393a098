------------------------- MODULE SessionStoreProofs -------------------------
(* What the promises of SessionStore imply, for any users and tokens; every *)
(* specification that implements SessionStore inherits it.                  *)
EXTENDS SessionStore, TLAPS

\* Only a rotation gives a session an origin.
OriginsOfLive == \A t \in Tokens \ Live : origin[t] = NoToken

\* What holds of the sessions between two steps.
StoreInv == StoreTypes /\ FamiliesHaveOneUser /\ OriginsOfLive

LEMMA StoreInitInv == StoreInit => StoreInv
  BY DEF StoreInit, StoreInv, StoreTypes, FamiliesHaveOneUser, OriginsOfLive, Live

\* A new session is nobody's origin.
LEMMA OpenStep ==
  ASSUME StoreInv, NEW u \in Users, NEW t \in Tokens, Open(u, t)
  PROVE  StoreInv'
<1>1. /\ t \notin Live /\ t \notin closed
      /\ session' = [session EXCEPT ![t] = u]
      /\ UNCHANGED <<origin, spent, closed>>
  BY DEF Open, Fresh
<1>2. Live' \subseteq Live \cup {t} /\ Live \subseteq Live'
  BY <1>1 DEF StoreInv, StoreTypes, Live
<1>3. StoreTypes'
  BY <1>1, <1>2 DEF StoreInv, StoreTypes, Live
<1>4. FamiliesHaveOneUser'
  BY <1>1, <1>2 DEF StoreInv, StoreTypes, FamiliesHaveOneUser, OriginsOfLive, Live
<1>5. OriginsOfLive'
  BY <1>1, <1>2 DEF StoreInv, StoreTypes, OriginsOfLive
<1> QED
  BY <1>3, <1>4, <1>5 DEF StoreInv

\* The new session gets the user of the old one.
LEMMA RotateStep ==
  ASSUME StoreInv, NEW t \in Tokens, NEW new \in Tokens, Rotate(t, new)
  PROVE  StoreInv'
<1>1. /\ t \in Live /\ new \notin Live /\ new \notin closed
      /\ session' = [session EXCEPT ![new] = session[t]]
      /\ origin' = [origin EXCEPT ![new] = t]
      /\ spent' = spent \cup {t} /\ closed' = closed
  BY DEF Rotate, Fresh
<1>2. Live' = Live \cup {new}
  BY <1>1 DEF StoreInv, StoreTypes, Live
<1>3. StoreTypes'
  BY <1>1, <1>2 DEF StoreInv, StoreTypes, Live
<1>4. FamiliesHaveOneUser'
  BY <1>1, <1>2 DEF StoreInv, StoreTypes, FamiliesHaveOneUser, OriginsOfLive, Live
<1>5. OriginsOfLive'
  BY <1>1, <1>2 DEF StoreInv, StoreTypes, OriginsOfLive
<1> QED
  BY <1>3, <1>4, <1>5 DEF StoreInv

\* What is closed stays the origin of what was rotated from it.
LEMMA CloseStep ==
  ASSUME StoreInv, NEW u \in Users, NEW S \in SUBSET Tokens, Close(u, S)
  PROVE  StoreInv'
<1>1. /\ session' = [t \in Tokens |-> IF t \in S THEN NoUser ELSE session[t]]
      /\ origin' = [t \in Tokens |-> IF t \in S THEN NoToken ELSE origin[t]]
      /\ spent' = spent \ S /\ closed' = closed \cup S
  BY DEF Close
<1>2. Live' = Live \ S
  BY <1>1 DEF Live
<1>3. StoreTypes'
  BY <1>1, <1>2 DEF StoreInv, StoreTypes
<1>4. FamiliesHaveOneUser'
  BY <1>1, <1>2 DEF StoreInv, StoreTypes, FamiliesHaveOneUser, OriginsOfLive, Live
<1>5. OriginsOfLive'
  BY <1>1, <1>2 DEF StoreInv, StoreTypes, OriginsOfLive
<1> QED
  BY <1>3, <1>4, <1>5 DEF StoreInv

LEMMA StoreStepInv == StoreInv /\ [StoreNext]_storeVars => StoreInv'
<1>1. StoreInv /\ UNCHANGED storeVars => StoreInv'
  BY DEF storeVars, StoreInv, StoreTypes, FamiliesHaveOneUser, OriginsOfLive, Live
<1> QED
  BY <1>1, OpenStep, RotateStep, CloseStep DEF StoreNext

\* The sessions are well typed, no closed one is live, and a refresh never
\* crosses users: a live session belongs to the user of the one it came from.
THEOREM Families == StoreSpec => [](StoreTypes /\ FamiliesHaveOneUser)
<1>1. StoreInv => StoreTypes /\ FamiliesHaveOneUser
  BY DEF StoreInv
<1> QED
  BY <1>1, StoreInitInv, StoreStepInv, PTL DEF StoreSpec

\* A rotation adds a leaf to its family, and a logout takes sessions away.
LEMMA RootsStep ==
  ASSUME NoToken \notin Tokens, StoreInv, FamiliesHaveRoots, StoreNext
  PROVE  FamiliesHaveRoots'
<1> SUFFICES ASSUME NEW S \in SUBSET Tokens, S \subseteq Live', S # {}
             PROVE  \E t \in S : origin'[t] \notin S
  BY DEF FamiliesHaveRoots, Live
<1>1. ASSUME NEW u \in Users, NEW t \in Tokens, Open(u, t)
      PROVE  \E s \in S : origin'[s] \notin S
  <2>1. /\ t \notin Live /\ origin' = origin /\ S \subseteq Live \cup {t}
    BY <1>1 DEF Open, Fresh, StoreInv, StoreTypes, Live
  <2>2. CASE t \in S
    BY <2>1, <2>2 DEF StoreInv, OriginsOfLive
  <2>3. CASE t \notin S
    BY <2>1, <2>3 DEF FamiliesHaveRoots
  <2> QED
    BY <2>2, <2>3
<1>2. ASSUME NEW t \in Tokens, NEW new \in Tokens, Rotate(t, new)
      PROVE  \E s \in S : origin'[s] \notin S
  <2>1. /\ t \in Live /\ new \notin Live /\ new \notin closed
        /\ origin'[new] = t /\ \A s \in Tokens \ {new} : origin'[s] = origin[s]
        /\ S \subseteq Live \cup {new}
    BY <1>2 DEF Rotate, Fresh, StoreInv, StoreTypes, Live
  <2>2. CASE S \subseteq {new}
    BY <2>1, <2>2
  <2>3. CASE ~ (S \subseteq {new})
    <3>1. S \ {new} \in SUBSET Live /\ S \ {new} # {}
      BY <2>1, <2>3
    <3>2. PICK s \in S \ {new} : origin[s] \notin S \ {new}
      BY <3>1 DEF FamiliesHaveRoots
    <3>3. origin[s] # new
      <4>1. s \in Live
        BY <3>1, <3>2
      <4> QED
        BY <2>1, <4>1 DEF StoreInv, StoreTypes, FamiliesHaveOneUser
    <3> QED
      BY <2>1, <3>2, <3>3
  <2> QED
    BY <2>2, <2>3
<1>3. ASSUME NEW u \in Users, NEW C \in SUBSET Tokens, Close(u, C)
      PROVE  \E s \in S : origin'[s] \notin S
  <2>1. S \in SUBSET Live /\ \A s \in S : origin'[s] = origin[s]
    BY <1>3 DEF Close, Live
  <2> QED
    BY <2>1 DEF FamiliesHaveRoots
<1> QED
  BY <1>1, <1>2, <1>3 DEF StoreNext

\* No session is its own ancestor, however often families are rotated, closed in
\* part, and rotated again.
THEOREM Roots ==
  ASSUME NoToken \notin Tokens
  PROVE  StoreSpec => []FamiliesHaveRoots
<1>1. StoreInit => FamiliesHaveRoots
  BY DEF StoreInit, FamiliesHaveRoots, Live
<1>2. StoreInv /\ FamiliesHaveRoots /\ [StoreNext]_storeVars => FamiliesHaveRoots'
  <2>1. FamiliesHaveRoots /\ UNCHANGED storeVars => FamiliesHaveRoots'
    BY DEF storeVars, FamiliesHaveRoots, Live
  <2> QED
    BY <2>1, RootsStep
<1> QED
  BY <1>1, <1>2, StoreInitInv, StoreStepInv, PTL DEF StoreSpec

\* A session ends only by being closed, for ever, and keeps its user until then.
THEOREM Steadiness == StoreSpec => SessionsAreSteady
<1>1. StoreInv /\ [StoreNext]_storeVars => [Steady]_storeVars
  <2> SUFFICES ASSUME StoreInv, StoreNext PROVE Steady
    OBVIOUS
  <2>1. ASSUME NEW u \in Users, NEW t \in Tokens, Open(u, t) PROVE Steady
    BY <2>1 DEF Steady, Open, Fresh, Live
  <2>2. ASSUME NEW t \in Tokens, NEW new \in Tokens, Rotate(t, new) PROVE Steady
    BY <2>2 DEF Steady, Rotate, Fresh, Live
  <2>3. ASSUME NEW u \in Users, NEW S \in SUBSET Tokens, Close(u, S) PROVE Steady
    BY <2>3 DEF Steady, Close, Live
  <2> QED
    BY <2>1, <2>2, <2>3 DEF StoreNext
<1>2. StoreSpec => [][Steady]_storeVars
  BY <1>1, StoreInitInv, StoreStepInv, PTL DEF StoreSpec
<1> QED
  BY <1>2 DEF SessionsAreSteady
=============================================================================
