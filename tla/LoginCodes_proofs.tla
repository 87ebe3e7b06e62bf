--------------------------- MODULE LoginCodes_proofs ---------------------------
(***************************************************************************)
(* Proofs about LoginCodes, for any number of requests, codes and guesses. *)
(***************************************************************************)
EXTENDS LoginCodes, FiniteSetTheorems, TLAPS

\* A counter that goes up by one still counts.
LEMMA CountUp ==
  ASSUME NEW S, NEW f \in [S -> Nat], NEW s \in S
  PROVE  [f EXCEPT ![s] = @ + 1] \in [S -> Nat]
OBVIOUS

\* The state keeps its shape under every transaction of RequestCode,
\* VerifyCode and VerifyGoogle, and under the maintenance.
THEOREM TypeCorrect == Spec => []TypeOK
<1> USE ConstantsAssumption DEF TypeOK, NoCode
<1>1. Init => TypeOK
  <2> SUFFICES ASSUME Init PROVE TypeOK
    OBVIOUS
  <2>1. verified \in BOOLEAN /\ first \in [Handler -> BOOLEAN]
    BY Zenon DEF Init
  <2>2. attempts \in [Code -> Nat] /\ logins \in [Code -> Nat] /\ age \in [Code -> 0..3]
    BY DEF Init
  <2>3. code \in [Code -> {"none", "open", "unused", "used", "gone"}] /\ welcomed \in Nat
    BY DEF Init
  <2>4. superseded \in [Handler -> SUBSET Code] /\ target \in [Handler -> Code \cup {NoCode}]
    BY Zenon DEF Init
  <2>5. /\ op \in [Handler -> {"idle", "counted", "marked", "spend", "miss", "login", "google"}]
        /\ \A h \in Handler : op[h] \in {"idle", "google"} <=> target[h] = NoCode
    BY DEF Init
  <2>6. QED
    BY <2>1, <2>2, <2>3, <2>4, <2>5
<1>2. TypeOK /\ [Next]_vars => TypeOK'
  <2> SUFFICES ASSUME TypeOK, [Next]_vars PROVE TypeOK'
    OBVIOUS
  <2> USE DEF codes, user, handlers
  <2>1. ASSUME NEW h \in Handler, NEW c \in Code, RequestCodeCount(h, c)
        PROVE  TypeOK'
    BY <2>1 DEF RequestCodeCount, Begin
  <2>2. ASSUME NEW h \in Handler, RequestCodeMark(h)
        PROVE  TypeOK'
    BY <2>2 DEF RequestCodeMark, Unused
  <2>3. ASSUME NEW h \in Handler, RequestCodeCommit(h)
        PROVE  TypeOK'
    BY <2>3 DEF RequestCodeCommit, End
  <2>4. ASSUME NEW h \in Handler, NEW right \in BOOLEAN, VerifyCodeFind(h, right)
        PROVE  TypeOK'
    <3>1. PICK c \in Unused : Begin(h, Verdict(c, right), c, ~verified) /\ UNCHANGED <<codes, user>>
      BY <2>4 DEF VerifyCodeFind
    <3>2. c \in Code /\ Verdict(c, right) \in {"spend", "miss", "login"}
      BY DEF Unused, Verdict
    <3>3. QED
      BY <3>1, <3>2 DEF Begin
  <2>5. ASSUME NEW h \in Handler, VerifyCodeSpend(h)
        PROVE  TypeOK'
    BY <2>5 DEF VerifyCodeSpend, End
  <2>6. ASSUME NEW h \in Handler, VerifyCodeMiss(h)
        PROVE  TypeOK'
    <3>1. target[h] \in Code
      BY <2>6 DEF VerifyCodeMiss
    <3>2. attempts' \in [Code -> Nat]
      BY <2>6, <3>1, CountUp DEF VerifyCodeMiss
    <3>3. QED
      BY <2>6, <3>2 DEF VerifyCodeMiss, End
  <2>7. ASSUME NEW h \in Handler, VerifyCodeLogin(h)
        PROVE  TypeOK'
    <3>1. target[h] \in Code
      BY <2>7 DEF VerifyCodeLogin
    <3>2. logins' \in [Code -> Nat] /\ code' \in [Code -> {"none", "open", "unused", "used", "gone"}]
      BY <2>7, <3>1, CountUp DEF VerifyCodeLogin
    <3>3. QED
      BY <2>7, <3>2 DEF VerifyCodeLogin, End, SignIn
  <2>8. ASSUME NEW h \in Handler, VerifyGoogleFind(h)
        PROVE  TypeOK'
    BY <2>8 DEF VerifyGoogleFind, Begin
  <2>9. ASSUME NEW h \in Handler, VerifyGoogleLogin(h)
        PROVE  TypeOK'
    BY <2>9 DEF VerifyGoogleLogin, End, SignIn
  <2>10. ASSUME NEW h \in Handler, Rollback(h)
         PROVE  TypeOK'
    BY <2>10 DEF Rollback, End
  <2>11. ASSUME NEW c \in Code, TimePasses(c)
         PROVE  TypeOK'
    BY <2>11 DEF TimePasses
  <2>12. CASE CleanupVerificationCodes
    BY <2>12 DEF CleanupVerificationCodes
  <2>13. CASE UNCHANGED vars
    BY <2>13 DEF vars
  <2>14. QED
    BY <2>1, <2>2, <2>3, <2>4, <2>5, <2>6, <2>7, <2>8, <2>9, <2>10, <2>11, <2>12, <2>13
    DEF Next, RequestCode, VerifyCode, VerifyGoogle
<1>3. QED
  BY <1>1, <1>2, PTL DEF Spec

-------------------------------------------------------------------------------
(***************************************************************************)
(* The budgets count handlers; these lemmas say how the sets of handlers   *)
(* that they count change.                                                 *)
(***************************************************************************)
LEMMA HandlersAreFinite ==
  ASSUME NEW S \in SUBSET Handler
  PROVE  /\ IsFiniteSet(S)
         /\ Cardinality(S) \in Nat
         /\ Cardinality(Handler) \in Nat
         /\ Cardinality(S) <= Cardinality(Handler)
BY ConstantsAssumption, FS_Subset, FS_CardinalityType

LEMMA BeginChangesAbout ==
  ASSUME TypeOK, NEW h \in Handler, NEW w, NEW c, NEW n, Begin(h, w, c, n),
         NEW x \in {"login", "miss"}, NEW d
  PROVE  IF w = x /\ c = d THEN About(x, d)' \in SUBSET Handler
                           ELSE About(x, d)' = About(x, d)
BY DEF Begin, About, TypeOK

LEMMA EndChangesAbout ==
  ASSUME TypeOK, NEW h \in Handler, End(h), NEW x \in {"login", "miss"}, NEW d
  PROVE  About(x, d)' = About(x, d) \ {h}
BY DEF End, About, TypeOK

LEMMA EndFreesAbout ==
  ASSUME TypeOK, NEW h \in Handler, End(h), NEW x \in {"login", "miss"}, NEW d
  PROVE  /\ Cardinality(About(x, d)) \in Nat
         /\ Cardinality(About(x, d)') \in Nat
         /\ Cardinality(About(x, d)') = IF op[h] = x /\ target[h] = d
                                        THEN Cardinality(About(x, d)) - 1
                                        ELSE Cardinality(About(x, d))
<1>1. About(x, d) \in SUBSET Handler
  BY DEF About
<1>2. About(x, d)' = About(x, d) \ {h}
  BY EndChangesAbout
<1>3. h \in About(x, d) <=> op[h] = x /\ target[h] = d
  BY DEF About
<1>4. IsFiniteSet(About(x, d)) /\ Cardinality(About(x, d)) \in Nat
  BY <1>1, HandlersAreFinite
<1>5. IsFiniteSet(About(x, d) \ {h})
  BY <1>4, FS_RemoveElement
<1>6. Cardinality(About(x, d) \ {h}) \in Nat
  BY <1>5, FS_CardinalityType
<1>7. Cardinality(About(x, d) \ {h}) = IF h \in About(x, d) THEN Cardinality(About(x, d)) - 1
                                                         ELSE Cardinality(About(x, d))
  BY <1>4, FS_RemoveElement
<1>8. QED
  BY <1>2, <1>3, <1>4, <1>6, <1>7

-------------------------------------------------------------------------------
\* The codes that handlers are at work on are in the state that their
\* transactions found or made.
LEMMA TargetsInduction == Spec => []TargetsMatch
<1> USE DEF Requesting
<1>1. Init => TargetsMatch
  BY DEF Init, TargetsMatch
<1>2. TypeOK /\ TargetsMatch /\ [Next]_vars => TargetsMatch'
  <2> SUFFICES ASSUME TypeOK, TargetsMatch, [Next]_vars PROVE TargetsMatch'
    OBVIOUS
  <2> USE DEF TypeOK, TargetsMatch, codes, user, handlers
  <2>1. ASSUME NEW h \in Handler, NEW c \in Code, RequestCodeCount(h, c)
        PROVE  TargetsMatch'
    BY <2>1 DEF RequestCodeCount, Begin
  <2>2. ASSUME NEW h \in Handler, RequestCodeMark(h)
        PROVE  TargetsMatch'
    BY <2>2 DEF RequestCodeMark
  <2>3. ASSUME NEW h \in Handler, RequestCodeCommit(h)
        PROVE  TargetsMatch'
    BY <2>3 DEF RequestCodeCommit, End
  <2>4. ASSUME NEW h \in Handler, NEW right \in BOOLEAN, VerifyCodeFind(h, right)
        PROVE  TargetsMatch'
    <3>1. PICK c \in Unused : Begin(h, Verdict(c, right), c, ~verified) /\ UNCHANGED <<codes, user>>
      BY <2>4 DEF VerifyCodeFind
    <3>2. c \in Code /\ code[c] = "unused" /\ Verdict(c, right) \in {"spend", "miss", "login"}
      BY DEF Unused, Verdict
    <3>3. QED
      BY <3>1, <3>2 DEF Begin
  <2>5. ASSUME NEW h \in Handler, VerifyCodeSpend(h)
        PROVE  TargetsMatch'
    BY <2>5 DEF VerifyCodeSpend, End
  <2>6. ASSUME NEW h \in Handler, VerifyCodeMiss(h)
        PROVE  TargetsMatch'
    BY <2>6 DEF VerifyCodeMiss, End
  <2>7. ASSUME NEW h \in Handler, VerifyCodeLogin(h)
        PROVE  TargetsMatch'
    BY <2>7 DEF VerifyCodeLogin, End
  <2>8. ASSUME NEW h \in Handler, VerifyGoogleFind(h)
        PROVE  TargetsMatch'
    BY <2>8 DEF VerifyGoogleFind, Begin
  <2>9. ASSUME NEW h \in Handler, VerifyGoogleLogin(h)
        PROVE  TargetsMatch'
    BY <2>9 DEF VerifyGoogleLogin, End
  <2>10. ASSUME NEW h \in Handler, Rollback(h)
         PROVE  TargetsMatch'
    <3>1. /\ op'[h] = "idle"
          /\ \A g \in Handler \ {h} : op'[g] = op[g] /\ target'[g] = target[g]
      BY <2>10 DEF Rollback, End
    <3>2. \A c \in Code : code'[c] = IF c = target[h] /\ code[c] = "open" THEN "gone" ELSE code[c]
      BY <2>10 DEF Rollback
    <3>3. \A g \in Handler : op[g] \in {"counted", "marked", "spend", "miss", "login"} => target[g] \in Code
      OBVIOUS
    <3>4. ASSUME NEW g \in Handler, Requesting(g)'
          PROVE  code'[target'[g]] = "open"
      <4>1. g # h /\ Requesting(g) /\ target'[g] = target[g]
        BY <3>1, <3>4
      <4>2. target[g] \in Code /\ code[target[g]] = "open"
        BY <3>3, <4>1
      <4>3. op[h] # "idle"
        BY <2>10 DEF Rollback
      <4>4. CASE target[g] # target[h]
        BY <3>2, <4>1, <4>2, <4>4
      <4>5. CASE target[g] = target[h]
        <5>1. op[h] \notin {"spend", "miss", "login"}
          BY <4>2, <4>5
        <5>2. op[h] # "google"
          BY ConstantsAssumption, <4>2, <4>5 DEF NoCode
        <5>3. QED
          BY <4>1, <4>3, <4>5, <5>1, <5>2
      <4>6. QED
        BY <4>4, <4>5
    <3>5. QED
      BY <3>1, <3>2, <3>3, <3>4
  <2>11. ASSUME NEW c \in Code, TimePasses(c)
         PROVE  TargetsMatch'
    BY <2>11 DEF TimePasses
  <2>12. CASE CleanupVerificationCodes
    BY <2>12 DEF CleanupVerificationCodes, Outdated, Row
  <2>13. CASE UNCHANGED vars
    BY <2>13 DEF vars
  <2>14. QED
    BY <2>1, <2>2, <2>3, <2>4, <2>5, <2>6, <2>7, <2>8, <2>9, <2>10, <2>11, <2>12, <2>13
    DEF Next, RequestCode, VerifyCode, VerifyGoogle
<1>3. QED
  BY <1>1, <1>2, TypeCorrect, PTL DEF Spec
-------------------------------------------------------------------------------
\* No action but VerifyCodeFind adds to the handlers that are about to log in,
\* or to count a guess.
LEMMA BeginKeepsAbout ==
  ASSUME TypeOK, NEW h \in Handler, NEW w, NEW c, NEW n, Begin(h, w, c, n),
         NEW x \in {"login", "miss"}, NEW d, ~(w = x /\ c = d)
  PROVE  About(x, d)' = About(x, d)
BY BeginChangesAbout

\* The sessions that a code has opened, and those that it is about to open.
LEMMA LoginsInduction == Spec => []LoginsBudget
<1>1. Init => LoginsBudget
  <2> SUFFICES ASSUME Init, NEW c \in Code
               PROVE  /\ logins[c] = 0
                      /\ logins[c] + Cardinality(About("login", c)) <= Cardinality(Handler)
    BY DEF LoginsBudget
  <2>1. logins[c] = 0 /\ About("login", c) \in SUBSET Handler
    BY DEF Init, About
  <2>2. QED
    BY <2>1, HandlersAreFinite
<1>2. TypeOK /\ TargetsMatch /\ LoginsBudget /\ [Next]_vars => LoginsBudget'
  <2> SUFFICES ASSUME TypeOK, TargetsMatch, LoginsBudget, [Next]_vars, NEW d \in Code
               PROVE  /\ code'[d] \in {"none", "open", "unused"} => logins'[d] = 0
                      /\ logins'[d] + Cardinality(About("login", d)') <= Cardinality(Handler)
    BY DEF LoginsBudget
  <2> DEFINE Goal == /\ code'[d] \in {"none", "open", "unused"} => logins'[d] = 0
                     /\ logins'[d] + Cardinality(About("login", d)') <= Cardinality(Handler)
             L == Cardinality(About("login", d))
  <2>a. /\ code[d] \in {"none", "open", "unused"} => logins[d] = 0
        /\ logins[d] + L <= Cardinality(Handler)
    BY DEF LoginsBudget
  <2>b. logins[d] \in Nat /\ L \in Nat /\ Cardinality(Handler) \in Nat
    <3>1. About("login", d) \in SUBSET Handler
      BY DEF About
    <3>2. QED
      BY <3>1, HandlersAreFinite DEF TypeOK
  <2>c. ASSUME NEW h \in Handler, End(h)
        PROVE  Cardinality(About("login", d)') \in Nat /\ Cardinality(About("login", d)') <= L
    BY <2>b, <2>c, EndFreesAbout
  <2>1. ASSUME NEW h \in Handler, NEW c \in Code, RequestCodeCount(h, c)
        PROVE  Goal
    <3>1. About("login", d)' = About("login", d)
      BY <2>1, BeginKeepsAbout DEF RequestCodeCount
    <3>2. QED
      BY <2>1, <2>a, <3>1 DEF RequestCodeCount, TypeOK
  <2>2. ASSUME NEW h \in Handler, RequestCodeMark(h)
        PROVE  Goal
    <3>1. About("login", d)' = About("login", d)
      BY <2>2 DEF RequestCodeMark, About, TypeOK
    <3>2. QED
      BY <2>2, <2>a, <3>1 DEF RequestCodeMark, codes
  <2>3. ASSUME NEW h \in Handler, RequestCodeCommit(h)
        PROVE  Goal
    <3>1. logins'[d] = logins[d] /\ End(h)
      BY <2>3 DEF RequestCodeCommit
    <3>2. code[target[h]] = "open"
      BY <2>3 DEF RequestCodeCommit, TargetsMatch, Requesting
    <3>3. code'[d] \in {"none", "open", "unused"} => code[d] \in {"none", "open", "unused"}
      BY <2>3, <3>2 DEF RequestCodeCommit
    <3>4. QED
      BY <2>a, <2>b, <2>c, <3>1, <3>3
  <2>4. ASSUME NEW h \in Handler, NEW right \in BOOLEAN, VerifyCodeFind(h, right)
        PROVE  Goal
    <3>1. PICK c \in Unused : Begin(h, Verdict(c, right), c, ~verified) /\ UNCHANGED <<codes, user>>
      BY <2>4 DEF VerifyCodeFind
    <3>2. code'[d] = code[d] /\ logins'[d] = logins[d] /\ code[c] = "unused"
      BY <3>1 DEF codes, Unused
    <3>3. CASE Verdict(c, right) = "login" /\ c = d
      <4>1. logins[d] = 0
        BY <2>a, <3>2, <3>3
      <4>2. About("login", d)' \in SUBSET Handler
        BY <3>1, <3>3, BeginChangesAbout
      <4>3. QED
        BY <3>2, <4>1, <4>2, HandlersAreFinite
    <3>4. CASE ~(Verdict(c, right) = "login" /\ c = d)
      BY <2>a, <3>1, <3>2, <3>4, BeginKeepsAbout
    <3>5. QED
      BY <3>3, <3>4
  <2>5. ASSUME NEW h \in Handler, VerifyCodeSpend(h)
        PROVE  Goal
    <3>1. /\ logins'[d] = logins[d] /\ End(h)
          /\ code'[d] \in {"none", "open", "unused"} => code[d] \in {"none", "open", "unused"}
      BY <2>5 DEF VerifyCodeSpend, TypeOK
    <3>2. QED
      BY <2>a, <2>b, <2>c, <3>1
  <2>6. ASSUME NEW h \in Handler, VerifyCodeMiss(h)
        PROVE  Goal
    <3>1. logins'[d] = logins[d] /\ End(h) /\ code'[d] = code[d]
      BY <2>6 DEF VerifyCodeMiss
    <3>2. QED
      BY <2>a, <2>b, <2>c, <3>1
  <2>7. ASSUME NEW h \in Handler, VerifyCodeLogin(h)
        PROVE  Goal
    <3>1. op[h] = "login" /\ End(h)
      BY <2>7 DEF VerifyCodeLogin
    <3>2. CASE target[h] = d
      <4>1. Cardinality(About("login", d)') = L - 1
        BY <3>1, <3>2, EndFreesAbout
      <4>2. logins'[d] = logins[d] + 1
        BY <2>7, <3>2 DEF VerifyCodeLogin, TypeOK
      <4>3. code[d] \in {"unused", "used", "gone"}
        BY <3>1, <3>2 DEF TargetsMatch
      <4>4. code'[d] \in {"used", "gone"}
        BY <2>7, <3>2, <4>3 DEF VerifyCodeLogin, TypeOK
      <4>5. QED
        BY <2>a, <2>b, <4>1, <4>2, <4>4
    <3>3. CASE target[h] # d
      <4>1. logins'[d] = logins[d] /\ code'[d] = code[d]
        BY <2>7, <3>3 DEF VerifyCodeLogin, TypeOK
      <4>2. QED
        BY <2>a, <2>b, <2>c, <3>1, <4>1
    <3>4. QED
      BY <3>2, <3>3
  <2>8. ASSUME NEW h \in Handler, VerifyGoogleFind(h)
        PROVE  Goal
    <3>1. About("login", d)' = About("login", d)
      BY <2>8, BeginKeepsAbout DEF VerifyGoogleFind
    <3>2. QED
      BY <2>8, <2>a, <3>1 DEF VerifyGoogleFind, codes
  <2>9. ASSUME NEW h \in Handler, VerifyGoogleLogin(h)
        PROVE  Goal
    <3>1. logins'[d] = logins[d] /\ End(h) /\ code'[d] = code[d]
      BY <2>9 DEF VerifyGoogleLogin, codes
    <3>2. QED
      BY <2>a, <2>b, <2>c, <3>1
  <2>10. ASSUME NEW h \in Handler, Rollback(h)
         PROVE  Goal
    <3>1. /\ logins'[d] = logins[d] /\ End(h)
          /\ code'[d] \in {"none", "open", "unused"} => code[d] \in {"none", "open", "unused"}
      BY <2>10 DEF Rollback
    <3>2. QED
      BY <2>a, <2>b, <2>c, <3>1
  <2>11. ASSUME NEW c \in Code, TimePasses(c)
         PROVE  Goal
    BY <2>11, <2>a DEF TimePasses, handlers, About
  <2>12. CASE CleanupVerificationCodes
    BY <2>12, <2>a DEF CleanupVerificationCodes, handlers, About
  <2>13. CASE UNCHANGED vars
    BY <2>13, <2>a DEF vars, codes, handlers, About
  <2>14. QED
    BY <2>1, <2>2, <2>3, <2>4, <2>5, <2>6, <2>7, <2>8, <2>9, <2>10, <2>11, <2>12, <2>13
    DEF Next, RequestCode, VerifyCode, VerifyGoogle
<1>3. QED
  BY <1>1, <1>2, TypeCorrect, TargetsInduction, PTL DEF Spec

\* However the requests interleave, a code opens no more sessions than there
\* are requests served at the same time.
THEOREM LoginsAreBounded == Spec => []LoginsBounded
<1>1. TypeOK /\ LoginsBudget => LoginsBounded
  <2> SUFFICES ASSUME TypeOK, LoginsBudget, NEW c \in Code
               PROVE  logins[c] <= Cardinality(Handler)
    BY DEF LoginsBounded
  <2>1. About("login", c) \in SUBSET Handler
    BY DEF About
  <2>2. Cardinality(About("login", c)) \in Nat /\ Cardinality(Handler) \in Nat
    BY <2>1, HandlersAreFinite
  <2>3. logins[c] \in Nat /\ logins[c] + Cardinality(About("login", c)) <= Cardinality(Handler)
    BY DEF TypeOK, LoginsBudget
  <2>4. QED
    BY <2>2, <2>3
<1>2. QED
  BY <1>1, TypeCorrect, LoginsInduction, PTL
-------------------------------------------------------------------------------
\* The guesses at a code that are counted, and those about to be.
LEMMA AttemptsInduction == Spec => []AttemptsBudget
<1>1. Init => AttemptsBudget
  <2> SUFFICES ASSUME Init, NEW c \in Code
               PROVE  attempts[c] + Cardinality(About("miss", c))
                        < MaxVerifyAttempts + Cardinality(Handler)
    BY DEF AttemptsBudget
  <2>1. attempts[c] = 0 /\ About("miss", c) \in SUBSET Handler
    BY DEF Init, About
  <2>2. QED
    BY <2>1, HandlersAreFinite, ConstantsAssumption
<1>2. TypeOK /\ AttemptsBudget /\ [Next]_vars => AttemptsBudget'
  <2> SUFFICES ASSUME TypeOK, AttemptsBudget, [Next]_vars, NEW d \in Code
               PROVE  attempts'[d] + Cardinality(About("miss", d)')
                        < MaxVerifyAttempts + Cardinality(Handler)
    BY DEF AttemptsBudget
  <2> DEFINE Goal == attempts'[d] + Cardinality(About("miss", d)')
                       < MaxVerifyAttempts + Cardinality(Handler)
             M == Cardinality(About("miss", d))
  <2>a. attempts[d] + M < MaxVerifyAttempts + Cardinality(Handler)
    BY DEF AttemptsBudget
  <2>b. attempts[d] \in Nat /\ M \in Nat /\ Cardinality(Handler) \in Nat /\ MaxVerifyAttempts \in Nat
    <3>1. About("miss", d) \in SUBSET Handler
      BY DEF About
    <3>2. QED
      BY <3>1, HandlersAreFinite, ConstantsAssumption DEF TypeOK
  <2>c. ASSUME NEW h \in Handler, End(h)
        PROVE  Cardinality(About("miss", d)') \in Nat /\ Cardinality(About("miss", d)') <= M
    BY <2>b, <2>c, EndFreesAbout
  <2>d. ASSUME NEW h \in Handler, End(h), attempts'[d] = attempts[d]
        PROVE  Goal
    BY <2>a, <2>b, <2>c, <2>d
  <2>1. ASSUME NEW h \in Handler, RequestCode(h)
        PROVE  Goal
    <3>1. CASE \E c \in Code : RequestCodeCount(h, c)
      <4>1. About("miss", d)' = About("miss", d) /\ attempts' = attempts
        BY <3>1, BeginKeepsAbout DEF RequestCodeCount
      <4>2. QED
        BY <2>a, <4>1
    <3>2. CASE RequestCodeMark(h)
      <4>1. About("miss", d)' = About("miss", d) /\ attempts' = attempts
        BY <3>2 DEF RequestCodeMark, About, TypeOK, codes
      <4>2. QED
        BY <2>a, <4>1
    <3>3. CASE RequestCodeCommit(h)
      BY <2>d, <3>3 DEF RequestCodeCommit
    <3>4. QED
      BY <2>1, <3>1, <3>2, <3>3 DEF RequestCode
  <2>2. ASSUME NEW h \in Handler, NEW right \in BOOLEAN, VerifyCodeFind(h, right)
        PROVE  Goal
    <3>1. PICK c \in Unused : Begin(h, Verdict(c, right), c, ~verified) /\ UNCHANGED <<codes, user>>
      BY <2>2 DEF VerifyCodeFind
    <3>2. attempts'[d] = attempts[d]
      BY <3>1 DEF codes
    <3>3. CASE Verdict(c, right) = "miss" /\ c = d
      <4>1. attempts[d] < MaxVerifyAttempts
        BY <2>b, <3>3 DEF Verdict
      <4>2. About("miss", d)' \in SUBSET Handler
        BY <3>1, <3>3, BeginChangesAbout
      <4>3. Cardinality(About("miss", d)') \in Nat /\ Cardinality(About("miss", d)') <= Cardinality(Handler)
        BY <4>2, HandlersAreFinite
      <4>4. QED
        BY <2>b, <3>2, <4>1, <4>3
    <3>4. CASE ~(Verdict(c, right) = "miss" /\ c = d)
      BY <2>a, <3>1, <3>2, <3>4, BeginKeepsAbout
    <3>5. QED
      BY <3>3, <3>4
  <2>3. ASSUME NEW h \in Handler, VerifyCodeSpend(h) \/ VerifyCodeLogin(h) \/ Rollback(h)
        PROVE  Goal
    BY <2>3, <2>d DEF VerifyCodeSpend, VerifyCodeLogin, Rollback
  <2>4. ASSUME NEW h \in Handler, VerifyCodeMiss(h)
        PROVE  Goal
    <3>1. op[h] = "miss" /\ End(h)
      BY <2>4 DEF VerifyCodeMiss
    <3>2. CASE target[h] = d
      <4>1. Cardinality(About("miss", d)') = M - 1
        BY <3>1, <3>2, EndFreesAbout
      <4>2. attempts'[d] = attempts[d] + 1
        BY <2>4, <3>2 DEF VerifyCodeMiss, TypeOK
      <4>3. QED
        BY <2>a, <2>b, <4>1, <4>2
    <3>3. CASE target[h] # d
      <4>1. attempts'[d] = attempts[d]
        BY <2>4, <3>3 DEF VerifyCodeMiss, TypeOK
      <4>2. QED
        BY <2>d, <3>1, <4>1
    <3>4. QED
      BY <3>2, <3>3
  <2>5. ASSUME NEW h \in Handler, VerifyGoogle(h)
        PROVE  Goal
    <3>1. CASE VerifyGoogleFind(h)
      <4>1. About("miss", d)' = About("miss", d) /\ attempts' = attempts
        BY <3>1, BeginKeepsAbout DEF VerifyGoogleFind, codes
      <4>2. QED
        BY <2>a, <4>1
    <3>2. CASE VerifyGoogleLogin(h)
      BY <2>d, <3>2 DEF VerifyGoogleLogin, codes
    <3>3. QED
      BY <2>5, <3>1, <3>2 DEF VerifyGoogle
  <2>6. ASSUME NEW c \in Code, TimePasses(c)
        PROVE  Goal
    BY <2>6, <2>a DEF TimePasses, handlers, About
  <2>7. CASE CleanupVerificationCodes
    BY <2>7, <2>a DEF CleanupVerificationCodes, handlers, About
  <2>8. CASE UNCHANGED vars
    BY <2>8, <2>a DEF vars, codes, handlers, About
  <2>9. QED
    BY <2>1, <2>2, <2>3, <2>4, <2>5, <2>6, <2>7, <2>8 DEF Next, VerifyCode
<1>3. QED
  BY <1>1, <1>2, TypeCorrect, PTL DEF Spec

\* However the requests interleave, the counted guesses at a code stay below
\* the limit and the number of requests served at the same time together.
THEOREM AttemptsAreBounded == Spec => []AttemptsBounded
<1>1. TypeOK /\ AttemptsBudget => AttemptsBounded
  <2> SUFFICES ASSUME TypeOK, AttemptsBudget, NEW c \in Code
               PROVE  attempts[c] < MaxVerifyAttempts + Cardinality(Handler)
    BY DEF AttemptsBounded
  <2>1. About("miss", c) \in SUBSET Handler
    BY DEF About
  <2>2. Cardinality(About("miss", c)) \in Nat /\ Cardinality(Handler) \in Nat
    BY <2>1, HandlersAreFinite
  <2>3. /\ attempts[c] \in Nat /\ MaxVerifyAttempts \in Nat
        /\ attempts[c] + Cardinality(About("miss", c)) < MaxVerifyAttempts + Cardinality(Handler)
    BY ConstantsAssumption DEF TypeOK, AttemptsBudget
  <2>4. QED
    BY <2>2, <2>3
<1>2. QED
  BY <1>1, TypeCorrect, AttemptsInduction, PTL

-------------------------------------------------------------------------------
\* The welcome emails that were sent, and those about to be.
LEMMA EndFreesWelcoming ==
  ASSUME TypeOK, NEW h \in Handler, End(h)
  PROVE  /\ Cardinality(Welcoming) \in Nat
         /\ Cardinality(Welcoming') \in Nat
         /\ Cardinality(Welcoming') = IF h \in Welcoming THEN Cardinality(Welcoming) - 1
                                                         ELSE Cardinality(Welcoming)
<1>1. Welcoming \in SUBSET Handler
  BY DEF Welcoming
<1>2. Welcoming' = Welcoming \ {h}
  BY DEF End, Welcoming, TypeOK
<1>3. IsFiniteSet(Welcoming) /\ Cardinality(Welcoming) \in Nat
  BY <1>1, HandlersAreFinite
<1>4. IsFiniteSet(Welcoming \ {h})
  BY <1>3, FS_RemoveElement
<1>5. Cardinality(Welcoming \ {h}) \in Nat
  BY <1>4, FS_CardinalityType
<1>6. Cardinality(Welcoming \ {h}) = IF h \in Welcoming THEN Cardinality(Welcoming) - 1
                                                         ELSE Cardinality(Welcoming)
  BY <1>3, FS_RemoveElement
<1>7. QED
  BY <1>2, <1>3, <1>5, <1>6

LEMMA WelcomesInduction == Spec => []WelcomesBudget
<1>1. Init => WelcomesBudget
  <2> SUFFICES ASSUME Init PROVE WelcomesBudget
    OBVIOUS
  <2>1. welcomed = 0 /\ Welcoming \in SUBSET Handler
    BY DEF Init, Welcoming
  <2>2. QED
    BY <2>1, HandlersAreFinite DEF WelcomesBudget
<1>2. TypeOK /\ WelcomesBudget /\ [Next]_vars => WelcomesBudget'
  <2> SUFFICES ASSUME TypeOK, WelcomesBudget, [Next]_vars
               PROVE  /\ ~verified' => welcomed' = 0
                      /\ welcomed' + Cardinality(Welcoming') <= Cardinality(Handler)
    BY DEF WelcomesBudget
  <2> DEFINE Goal == /\ ~verified' => welcomed' = 0
                     /\ welcomed' + Cardinality(Welcoming') <= Cardinality(Handler)
  <2>a. /\ ~verified => welcomed = 0
        /\ welcomed + Cardinality(Welcoming) <= Cardinality(Handler)
    BY DEF WelcomesBudget
  <2>b. welcomed \in Nat /\ Cardinality(Welcoming) \in Nat /\ Cardinality(Handler) \in Nat
    <3>1. Welcoming \in SUBSET Handler
      BY DEF Welcoming
    <3>2. QED
      BY <3>1, HandlersAreFinite DEF TypeOK
  <2>c. ASSUME NEW h \in Handler, End(h), UNCHANGED user
        PROVE  Goal
    <3>1. verified' = verified /\ welcomed' = welcomed
      BY <2>c DEF user
    <3>2. Cardinality(Welcoming') \in Nat /\ Cardinality(Welcoming') <= Cardinality(Welcoming)
      BY <2>b, <2>c, EndFreesWelcoming
    <3>3. QED
      BY <2>a, <2>b, <3>1, <3>2
  <2>d. ASSUME NEW h \in Handler, End(h), SignIn(h), op[h] \in {"login", "google"}
        PROVE  Goal
    <3>1. verified'
      BY <2>d DEF SignIn
    <3>2. CASE first[h]
      <4>1. h \in Welcoming /\ welcomed' = welcomed + 1
        BY <2>d, <3>2 DEF Welcoming, SignIn
      <4>2. Cardinality(Welcoming') = Cardinality(Welcoming) - 1
        BY <2>d, <4>1, EndFreesWelcoming
      <4>3. QED
        BY <2>a, <2>b, <3>1, <4>1, <4>2
    <3>3. CASE ~first[h]
      <4>1. welcomed' = welcomed
        BY <2>b, <2>d, <3>3 DEF SignIn
      <4>2. h \notin Welcoming
        BY <3>3 DEF Welcoming
      <4>3. Cardinality(Welcoming') = Cardinality(Welcoming)
        BY <2>d, <4>2, EndFreesWelcoming
      <4>4. QED
        BY <2>a, <3>1, <4>1, <4>3
    <3>4. QED
      BY <3>2, <3>3
  <2>e. ASSUME NEW h \in Handler, NEW w, NEW c, Begin(h, w, c, ~verified), UNCHANGED user
        PROVE  Goal
    <3>1. verified' = verified /\ welcomed' = welcomed
      BY <2>e DEF user
    <3>2. CASE verified
      <4>1. Welcoming' = Welcoming
        BY <2>e, <3>2 DEF Begin, Welcoming, TypeOK
      <4>2. QED
        BY <2>a, <3>1, <4>1
    <3>3. CASE ~verified
      <4>1. Welcoming' \in SUBSET Handler
        BY DEF Welcoming
      <4>2. Cardinality(Welcoming') \in Nat /\ Cardinality(Welcoming') <= Cardinality(Handler)
        BY <4>1, HandlersAreFinite
      <4>3. QED
        BY <2>a, <2>b, <3>1, <3>3, <4>2
    <3>4. QED
      BY <3>2, <3>3
  <2>1. ASSUME NEW h \in Handler, RequestCode(h)
        PROVE  Goal
    <3>1. CASE \E c \in Code : RequestCodeCount(h, c)
      <4>1. Welcoming' = Welcoming /\ UNCHANGED user
        BY <3>1 DEF RequestCodeCount, Begin, Welcoming, TypeOK
      <4>2. QED
        BY <2>a, <4>1 DEF user
    <3>2. CASE RequestCodeMark(h)
      <4>1. Welcoming' = Welcoming /\ UNCHANGED user
        BY <3>2 DEF RequestCodeMark, Welcoming, TypeOK
      <4>2. QED
        BY <2>a, <4>1 DEF user
    <3>3. CASE RequestCodeCommit(h)
      BY <2>c, <3>3 DEF RequestCodeCommit
    <3>4. QED
      BY <2>1, <3>1, <3>2, <3>3 DEF RequestCode
  <2>2. ASSUME NEW h \in Handler, VerifyCode(h)
        PROVE  Goal
    <3>1. CASE \E right \in BOOLEAN : VerifyCodeFind(h, right)
      BY <2>e, <3>1 DEF VerifyCodeFind
    <3>2. CASE VerifyCodeSpend(h) \/ VerifyCodeMiss(h)
      BY <2>c, <3>2 DEF VerifyCodeSpend, VerifyCodeMiss
    <3>3. CASE VerifyCodeLogin(h)
      BY <2>d, <3>3 DEF VerifyCodeLogin
    <3>4. QED
      BY <2>2, <3>1, <3>2, <3>3 DEF VerifyCode
  <2>3. ASSUME NEW h \in Handler, VerifyGoogle(h)
        PROVE  Goal
    BY <2>3, <2>d, <2>e DEF VerifyGoogle, VerifyGoogleFind, VerifyGoogleLogin
  <2>4. ASSUME NEW h \in Handler, Rollback(h)
        PROVE  Goal
    BY <2>4, <2>c DEF Rollback
  <2>5. ASSUME NEW c \in Code, TimePasses(c)
        PROVE  Goal
    BY <2>5, <2>a DEF TimePasses, handlers, user, Welcoming
  <2>6. CASE CleanupVerificationCodes
    BY <2>6, <2>a DEF CleanupVerificationCodes, handlers, user, Welcoming
  <2>7. CASE UNCHANGED vars
    BY <2>7, <2>a DEF vars, user, handlers, Welcoming
  <2>8. QED
    BY <2>1, <2>2, <2>3, <2>4, <2>5, <2>6, <2>7 DEF Next
<1>3. QED
  BY <1>1, <1>2, TypeCorrect, PTL DEF Spec

\* However the first logins of a user interleave, there are no more welcome
\* emails than requests served at the same time.
THEOREM WelcomesAreBounded == Spec => []WelcomesBounded
<1>1. TypeOK /\ WelcomesBudget => WelcomesBounded
  <2> SUFFICES ASSUME TypeOK, WelcomesBudget PROVE welcomed <= Cardinality(Handler)
    BY DEF WelcomesBounded
  <2>1. Welcoming \in SUBSET Handler
    BY DEF Welcoming
  <2>2. Cardinality(Welcoming) \in Nat /\ Cardinality(Handler) \in Nat
    BY <2>1, HandlersAreFinite
  <2>3. welcomed \in Nat /\ welcomed + Cardinality(Welcoming) <= Cardinality(Handler)
    BY DEF TypeOK, WelcomesBudget
  <2>4. QED
    BY <2>2, <2>3
<1>2. QED
  BY <1>1, TypeCorrect, WelcomesInduction, PTL
-------------------------------------------------------------------------------
\* The unused codes that none of the transactions in S has found.
Left(S) == Unused \ UNION {superseded[g] : g \in S}

\* A set that gains at most one element gains at most one in size.
LEMMA GrowsByOne ==
  ASSUME NEW A, IsFiniteSet(A), NEW x, NEW B \in SUBSET (A \cup {x})
  PROVE  /\ IsFiniteSet(B)
         /\ Cardinality(A) \in Nat
         /\ Cardinality(B) \in Nat
         /\ Cardinality(B) <= Cardinality(A) + 1
<1>1. /\ IsFiniteSet(A \cup {x})
      /\ Cardinality(A \cup {x}) = IF x \in A THEN Cardinality(A) ELSE Cardinality(A) + 1
  BY FS_AddElement
<1>2. IsFiniteSet(B) /\ Cardinality(B) <= Cardinality(A \cup {x})
  BY <1>1, FS_Subset
<1>3. Cardinality(A) \in Nat /\ Cardinality(B) \in Nat
  BY <1>2, FS_CardinalityType
<1>4. QED
  BY <1>1, <1>2, <1>3

\* The budget survives every step after which nothing new is unused, no other
\* transaction is marked, and those marked have found the same codes.
LEMMA UnusedShrinks ==
  ASSUME UnusedBudget,
         Unused' \in SUBSET Unused,
         Marked' \in SUBSET Marked,
         \A g \in Marked' : superseded'[g] = superseded[g]
  PROVE  UnusedBudget'
<1> USE DEF Left
<1>1. IsFiniteSet(Unused) /\ IsFiniteSet(Unused')
  BY FS_Subset DEF UnusedBudget
<1>2. ASSUME NEW S \in SUBSET Marked'
      PROVE  Cardinality(Left(S)') + Cardinality(S) <= Cardinality(Handler)
  <2>1. S \in SUBSET Marked
    OBVIOUS
  <2>2. Left(S)' \in SUBSET Left(S)
    BY Zenon
  <2>3. IsFiniteSet(Left(S))
    BY <1>1, FS_Difference
  <2>4. IsFiniteSet(Left(S)') /\ Cardinality(Left(S)') <= Cardinality(Left(S))
    BY <2>2, <2>3, FS_Subset
  <2>5. Cardinality(Left(S)) \in Nat /\ Cardinality(Left(S)') \in Nat
    BY <2>3, <2>4, FS_CardinalityType
  <2>6. S \in SUBSET Handler
    BY <2>1 DEF Marked
  <2>7. Cardinality(S) \in Nat /\ Cardinality(Handler) \in Nat
    BY <2>6, HandlersAreFinite
  <2>8. Cardinality(Left(S)) + Cardinality(S) <= Cardinality(Handler)
    BY <2>1 DEF UnusedBudget
  <2>9. QED
    BY <2>4, <2>5, <2>7, <2>8
<1>3. QED
  BY <1>1, <1>2 DEF UnusedBudget

\* The UPDATE of RequestCode finds every code that is unused.
LEMMA MarkKeepsBudget ==
  ASSUME TypeOK, UnusedBudget, NEW h \in Handler, RequestCodeMark(h)
  PROVE  UnusedBudget'
<1> USE DEF Left
<1>1. Unused' = Unused
  BY DEF RequestCodeMark, codes, Unused
<1>2. IsFiniteSet(Unused')
  BY <1>1 DEF UnusedBudget
<1>3. superseded'[h] = Unused /\ Marked' = Marked \cup {h}
  BY DEF RequestCodeMark, Marked, TypeOK
<1>4. \A g \in Handler \ {h} : superseded'[g] = superseded[g]
  BY DEF RequestCodeMark, TypeOK
<1>5. ASSUME NEW S \in SUBSET Marked'
      PROVE  Cardinality(Left(S)') + Cardinality(S) <= Cardinality(Handler)
  <2>1. S \in SUBSET Handler
    BY DEF Marked
  <2>2. CASE h \in S
    <3>1. Left(S)' = {}
      BY <1>1, <1>3, <2>2
    <3>2. Cardinality(Left(S)') = 0
      BY <3>1, FS_EmptySet
    <3>3. QED
      BY <2>1, <3>2, HandlersAreFinite
  <2>3. CASE h \notin S
    <3>1. S \in SUBSET Marked
      BY <1>3, <2>3
    <3>2. \A g \in S : superseded'[g] = superseded[g]
      BY <1>4, <2>1, <2>3
    <3>3. Left(S)' = Left(S)
      BY <1>1, <3>2
    <3>4. QED
      BY <3>1, <3>3 DEF UnusedBudget
  <2>4. QED
    BY <2>2, <2>3
<1>6. QED
  BY <1>2, <1>5 DEF UnusedBudget

\* The commit of RequestCode adds a code, and gives up a transaction that had
\* found the others.
LEMMA CommitKeepsBudget ==
  ASSUME TypeOK, UnusedBudget, NEW h \in Handler, RequestCodeCommit(h)
  PROVE  UnusedBudget'
<1> USE DEF Left
<1>1. h \in Marked /\ Marked' = Marked \ {h}
  BY DEF RequestCodeCommit, End, Marked, TypeOK
<1>2. Unused' \in SUBSET ((Unused \ superseded[h]) \cup {target[h]})
  BY DEF RequestCodeCommit, Unused
<1>3. \A g \in Handler \ {h} : superseded'[g] = superseded[g]
  BY DEF RequestCodeCommit, End, TypeOK
<1>4. IsFiniteSet(Unused)
  BY DEF UnusedBudget
<1>5. IsFiniteSet(Unused')
  <2>1. Unused' \in SUBSET (Unused \cup {target[h]})
    BY <1>2
  <2>2. QED
    BY <1>4, <2>1, GrowsByOne
<1>6. ASSUME NEW S \in SUBSET Marked'
      PROVE  Cardinality(Left(S)') + Cardinality(S) <= Cardinality(Handler)
  <2>1. S \in SUBSET Handler /\ h \notin S /\ S \cup {h} \in SUBSET Marked
    BY <1>1 DEF Marked
  <2>2. \A g \in S : superseded'[g] = superseded[g]
    BY <1>3, <2>1
  <2>3. Left(S)' \in SUBSET (Left(S \cup {h}) \cup {target[h]})
    BY <1>2, <2>2
  <2>4. IsFiniteSet(Left(S \cup {h}))
    BY <1>4, FS_Difference
  <2>5. /\ Cardinality(Left(S \cup {h})) \in Nat
        /\ Cardinality(Left(S)') \in Nat
        /\ Cardinality(Left(S)') <= Cardinality(Left(S \cup {h})) + 1
    <3>1. \A A, x : IsFiniteSet(A) =>
            \A B \in SUBSET (A \cup {x}) :
              /\ Cardinality(A) \in Nat
              /\ Cardinality(B) \in Nat
              /\ Cardinality(B) <= Cardinality(A) + 1
      BY GrowsByOne
    <3>2. QED
      BY <2>3, <2>4, <3>1
  <2>6. IsFiniteSet(S) /\ Cardinality(S) \in Nat /\ Cardinality(Handler) \in Nat
    BY <2>1, HandlersAreFinite
  <2>7. Cardinality(S \cup {h}) = Cardinality(S) + 1
    BY <2>1, <2>6, FS_AddElement
  <2>8. Cardinality(Left(S \cup {h})) + Cardinality(S \cup {h}) <= Cardinality(Handler)
    BY <2>1 DEF UnusedBudget
  <2>9. QED
    BY <2>5, <2>6, <2>7, <2>8
<1>7. QED
  BY <1>5, <1>6 DEF UnusedBudget

LEMMA UnusedInduction == Spec => []UnusedBudget
<1>1. Init => UnusedBudget
  <2> SUFFICES ASSUME Init PROVE UnusedBudget
    OBVIOUS
  <2>1. Unused = {} /\ Marked = {}
    BY DEF Init, Unused, Marked
  <2>2. ASSUME NEW S \in SUBSET Marked
        PROVE  Cardinality(Left(S)) + Cardinality(S) <= Cardinality(Handler)
    <3>1. S = {} /\ Left(S) = {}
      BY <2>1 DEF Left
    <3>2. Cardinality(Left(S)) = 0 /\ Cardinality(S) = 0
      BY <3>1, FS_EmptySet
    <3>3. Cardinality(Handler) \in Nat
      BY HandlersAreFinite
    <3>4. QED
      BY <3>2, <3>3
  <2>3. QED
    BY <2>1, <2>2, FS_EmptySet DEF UnusedBudget, Left
<1>2. TypeOK /\ TargetsMatch /\ UnusedBudget /\ [Next]_vars => UnusedBudget'
  <2> SUFFICES ASSUME TypeOK, TargetsMatch, UnusedBudget, [Next]_vars PROVE UnusedBudget'
    OBVIOUS
  <2>a. ASSUME NEW h \in Handler, End(h), op[h] # "idle", Unused' \in SUBSET Unused
        PROVE  UnusedBudget'
    <3>1. Marked' \in SUBSET Marked /\ \A g \in Marked' : superseded'[g] = superseded[g]
      BY <2>a DEF End, Marked, TypeOK
    <3>2. QED
      BY <2>a, <3>1, UnusedShrinks
  <2>b. ASSUME NEW h \in Handler, NEW w, NEW c, NEW n, Begin(h, w, c, n), w # "marked",
               Unused' \in SUBSET Unused
        PROVE  UnusedBudget'
    <3>1. Marked' \in SUBSET Marked /\ \A g \in Marked' : superseded'[g] = superseded[g]
      BY <2>b DEF Begin, Marked, TypeOK
    <3>2. QED
      BY <2>b, <3>1, UnusedShrinks
  <2>c. ASSUME UNCHANGED handlers, Unused' \in SUBSET Unused
        PROVE  UnusedBudget'
    <3>1. Marked' \in SUBSET Marked /\ \A g \in Marked' : superseded'[g] = superseded[g]
      BY <2>c DEF handlers, Marked
    <3>2. QED
      BY <2>c, <3>1, UnusedShrinks
  <2>1. ASSUME NEW h \in Handler, NEW c \in Code, RequestCodeCount(h, c)
        PROVE  UnusedBudget'
    <3>1. Unused' \in SUBSET Unused
      BY <2>1 DEF RequestCodeCount, Unused, TypeOK
    <3>2. QED
      BY <2>1, <2>b, <3>1 DEF RequestCodeCount
  <2>2. ASSUME NEW h \in Handler, RequestCodeMark(h)
        PROVE  UnusedBudget'
    BY <2>2, MarkKeepsBudget
  <2>3. ASSUME NEW h \in Handler, RequestCodeCommit(h)
        PROVE  UnusedBudget'
    BY <2>3, CommitKeepsBudget
  <2>4. ASSUME NEW h \in Handler, NEW right \in BOOLEAN, VerifyCodeFind(h, right)
        PROVE  UnusedBudget'
    <3>1. PICK c \in Unused : Begin(h, Verdict(c, right), c, ~verified) /\ UNCHANGED <<codes, user>>
      BY <2>4 DEF VerifyCodeFind
    <3>2. Verdict(c, right) # "marked" /\ Unused' \in SUBSET Unused
      BY <3>1 DEF Verdict, codes, Unused
    <3>3. QED
      BY <2>b, <3>1, <3>2
  <2>5. ASSUME NEW h \in Handler, VerifyCodeSpend(h)
        PROVE  UnusedBudget'
    <3>1. Unused' \in SUBSET Unused
      BY <2>5 DEF VerifyCodeSpend, Unused, TypeOK
    <3>2. QED
      BY <2>5, <2>a, <3>1 DEF VerifyCodeSpend
  <2>6. ASSUME NEW h \in Handler, VerifyCodeMiss(h)
        PROVE  UnusedBudget'
    BY <2>6, <2>a DEF VerifyCodeMiss, Unused
  <2>7. ASSUME NEW h \in Handler, VerifyCodeLogin(h)
        PROVE  UnusedBudget'
    <3>1. Unused' \in SUBSET Unused
      BY <2>7 DEF VerifyCodeLogin, Unused, TypeOK
    <3>2. QED
      BY <2>7, <2>a, <3>1 DEF VerifyCodeLogin
  <2>8. ASSUME NEW h \in Handler, VerifyGoogleFind(h)
        PROVE  UnusedBudget'
    BY <2>8, <2>b DEF VerifyGoogleFind, codes, Unused
  <2>9. ASSUME NEW h \in Handler, VerifyGoogleLogin(h)
        PROVE  UnusedBudget'
    BY <2>9, <2>a DEF VerifyGoogleLogin, codes, Unused
  <2>10. ASSUME NEW h \in Handler, Rollback(h)
         PROVE  UnusedBudget'
    BY <2>10, <2>a DEF Rollback, Unused
  <2>11. ASSUME NEW c \in Code, TimePasses(c)
         PROVE  UnusedBudget'
    BY <2>11, <2>c DEF TimePasses, Unused
  <2>12. CASE CleanupVerificationCodes
    BY <2>12, <2>c DEF CleanupVerificationCodes, Unused
  <2>13. CASE UNCHANGED vars
    BY <2>13, <2>c DEF vars, codes, Unused
  <2>14. QED
    BY <2>1, <2>2, <2>3, <2>4, <2>5, <2>6, <2>7, <2>8, <2>9, <2>10, <2>11, <2>12, <2>13
    DEF Next, RequestCode, VerifyCode, VerifyGoogle
<1>3. QED
  BY <1>1, <1>2, TypeCorrect, TargetsInduction, PTL DEF Spec

\* However the requests for codes interleave, there are no more unused codes
\* than requests served at the same time.
THEOREM UnusedIsBounded == Spec => []UnusedBounded
<1>1. UnusedBudget => UnusedBounded
  <2> SUFFICES ASSUME UnusedBudget PROVE Cardinality(Unused) <= Cardinality(Handler)
    BY DEF UnusedBounded
  <2>1. Cardinality(Left({})) + Cardinality({}) <= Cardinality(Handler)
    BY DEF UnusedBudget, Left
  <2>2. Left({}) = Unused /\ IsFiniteSet(Unused)
    BY DEF Left, UnusedBudget
  <2>3. Cardinality({}) = 0 /\ Cardinality(Unused) \in Nat
    BY <2>2, FS_EmptySet, FS_CardinalityType
  <2>4. QED
    BY <2>1, <2>2, <2>3
<1>2. QED
  BY <1>1, UnusedInduction, PTL
===============================================================================
