------------------------------- MODULE LoginCodes -------------------------------
(***************************************************************************)
(* The login codes of one account: its rows of verification_codes, and the *)
(* transactions of RequestCode, VerifyCode and VerifyGoogle.  They run     *)
(* READ COMMITTED and lock nothing that they read, so a transaction acts   *)
(* on what it found, whatever has been committed since.  Each is a step    *)
(* per read it decides on, and the step that commits what it writes.       *)
(***************************************************************************)
EXTENDS Integers, FiniteSets

CONSTANTS Handler,           \* requests served at the same time
          Code,              \* codes, numbered in the order of created_at
          MaxVerifyAttempts  \* cfg.MaxVerifyAttempts

ASSUME ConstantsAssumption ==
  /\ IsFiniteSet(Handler)
  /\ Code \subseteq Nat \ {0}
  /\ MaxVerifyAttempts \in Nat \ {0}

VARIABLES
  code,        \* code -> "none", or "open" (not committed yet), or its row:
               \* "unused" or "used", or "gone"
  age,         \* code -> 0; past expires_at 1; past an hour 2; past a day more 3
  attempts,    \* code -> verification_codes.attempts
  logins,      \* code -> the sessions that were opened with it
  verified,    \* users.is_verified
  welcomed,    \* the welcome emails sent
  op,          \* handler -> what its transaction is about to do
  target,      \* handler -> the code it does it to
  superseded,  \* handler -> the codes that its UPDATE found unused
  first        \* handler -> it found the user not verified

codes    == <<code, age, attempts, logins>>
user     == <<verified, welcomed>>
handlers == <<op, target, superseded, first>>
vars     == <<codes, user, handlers>>

NoCode == 0
Row(c) == code[c] \in {"unused", "used"}

TypeOK ==
  /\ code \in [Code -> {"none", "open", "unused", "used", "gone"}]
  /\ age \in [Code -> 0..3]
  /\ attempts \in [Code -> Nat]
  /\ logins \in [Code -> Nat]
  /\ verified \in BOOLEAN
  /\ welcomed \in Nat
  /\ op \in [Handler -> {"idle", "counted", "marked", "spend", "miss", "login", "google"}]
  /\ target \in [Handler -> Code \cup {NoCode}]
  /\ superseded \in [Handler -> SUBSET Code]
  /\ first \in [Handler -> BOOLEAN]
  /\ \A h \in Handler : op[h] \in {"idle", "google"} <=> target[h] = NoCode

Init ==
  /\ code = [c \in Code |-> "none"]
  /\ age = [c \in Code |-> 0]
  /\ attempts = [c \in Code |-> 0]
  /\ logins = [c \in Code |-> 0]
  /\ verified = FALSE
  /\ welcomed = 0
  /\ op = [h \in Handler |-> "idle"]
  /\ target = [h \in Handler |-> NoCode]
  /\ superseded = [h \in Handler |-> {}]
  /\ first = [h \in Handler |-> FALSE]

Begin(h, what, c, new) ==
  /\ op[h] = "idle"
  /\ op' = [op EXCEPT ![h] = what]
  /\ target' = [target EXCEPT ![h] = c]
  /\ first' = [first EXCEPT ![h] = new]
  /\ UNCHANGED superseded

End(h) ==
  /\ op' = [op EXCEPT ![h] = "idle"]
  /\ target' = [target EXCEPT ![h] = NoCode]
  /\ superseded' = [superseded EXCEPT ![h] = {}]
  /\ first' = [first EXCEPT ![h] = FALSE]

Unused == {c \in Code : code[c] = "unused"}

(***************************************************************************)
(* RequestCode.                                                            *)
(***************************************************************************)

\* The transaction begins, which fixes created_at, and counts the unused
\* codes of the last hour; with three it answers 429 and rolls back.
RequestCodeCount(h, c) ==
  /\ code[c] = "none"
  /\ \A d \in Code : d < c => code[d] # "none"
  /\ Cardinality({d \in Unused : age[d] < 2}) < 3
  /\ Begin(h, "counted", c, FALSE)
  /\ code' = [code EXCEPT ![c] = "open"]
  /\ UNCHANGED <<age, attempts, logins, user>>

\* The UPDATE that uses up the codes sent before, as far as they are
\* committed when it looks.
RequestCodeMark(h) ==
  /\ op[h] = "counted"
  /\ op' = [op EXCEPT ![h] = "marked"]
  /\ superseded' = [superseded EXCEPT ![h] = Unused]
  /\ UNCHANGED <<codes, user, target, first>>

\* Mutant of RequestCodeCommit: the codes sent before stay unused.
RequestCodeCommitInsert(h) ==
  /\ op[h] = "marked"
  /\ code' = [code EXCEPT ![target[h]] = "unused"]
  /\ End(h)
  /\ UNCHANGED <<age, attempts, logins, user>>

RequestCodeCommit(h) ==
  /\ op[h] = "marked"
  /\ code' = [c \in Code |->
       IF c = target[h] THEN "unused"
       ELSE IF c \in superseded[h] /\ code[c] = "unused" THEN "used"
       ELSE code[c]]
  /\ End(h)
  /\ UNCHANGED <<age, attempts, logins, user>>

(***************************************************************************)
(* VerifyCode and VerifyGoogle.                                            *)
(***************************************************************************)

\* Mutant of Verdict: one guess more than MaxVerifyAttempts.
VerdictLate(c, right) ==
  IF age[c] > 0 \/ attempts[c] > MaxVerifyAttempts THEN "spend"
  ELSE IF right THEN "login" ELSE "miss"

Verdict(c, right) ==
  IF age[c] > 0 \/ attempts[c] >= MaxVerifyAttempts THEN "spend"
  ELSE IF right THEN "login" ELSE "miss"

\* The newest unused code is found, and judged as it is now.
VerifyCodeFind(h, right) ==
  \E c \in Unused :
    /\ \A d \in Unused : d <= c
    /\ Begin(h, Verdict(c, right), c, ~verified)
    /\ UNCHANGED <<codes, user>>

\* An expired or exhausted code is used up.
VerifyCodeSpend(h) ==
  /\ op[h] = "spend"
  /\ code' = [code EXCEPT ![target[h]] = IF @ = "unused" THEN "used" ELSE @]
  /\ End(h)
  /\ UNCHANGED <<age, attempts, logins, user>>

VerifyCodeMiss(h) ==
  /\ op[h] = "miss"
  /\ attempts' = [attempts EXCEPT ![target[h]] = @ + 1]
  /\ End(h)
  /\ UNCHANGED <<code, age, logins, user>>

\* Mutant of SignIn: the user is not marked as verified.
SignInUnverified(h) ==
  /\ welcomed' = welcomed + IF first[h] THEN 1 ELSE 0
  /\ UNCHANGED verified

\* The user's row, and the welcome email after the commit.
SignIn(h) ==
  /\ verified' = TRUE
  /\ welcomed' = welcomed + IF first[h] THEN 1 ELSE 0

\* Mutant of VerifyCodeLogin: the code is not used up.
VerifyCodeLoginReusable(h) ==
  /\ op[h] = "login"
  /\ logins' = [logins EXCEPT ![target[h]] = @ + 1]
  /\ SignIn(h)
  /\ End(h)
  /\ UNCHANGED <<code, age, attempts>>

VerifyCodeLogin(h) ==
  /\ op[h] = "login"
  /\ code' = [code EXCEPT ![target[h]] = IF @ = "unused" THEN "used" ELSE @]
  /\ logins' = [logins EXCEPT ![target[h]] = @ + 1]
  /\ SignIn(h)
  /\ End(h)
  /\ UNCHANGED <<age, attempts>>

VerifyGoogleFind(h) ==
  /\ Begin(h, "google", NoCode, ~verified)
  /\ UNCHANGED <<codes, user>>

VerifyGoogleLogin(h) ==
  /\ op[h] = "google"
  /\ SignIn(h)
  /\ End(h)
  /\ UNCHANGED codes

\* A statement or the commit fails, or the client goes away (the transaction
\* runs under the context of the request): all of it is rolled back.
Rollback(h) ==
  /\ op[h] # "idle"
  /\ code' = [c \in Code |->
       IF c = target[h] /\ code[c] = "open" THEN "gone" ELSE code[c]]
  /\ End(h)
  /\ UNCHANGED <<age, attempts, logins, user>>

(***************************************************************************)
(* Time and the daily maintenance.                                         *)
(***************************************************************************)
TimePasses(c) ==
  /\ Row(c)
  /\ age[c] < 3
  /\ \A d \in Code : d < c /\ Row(d) => age[d] > age[c]
  /\ age' = [age EXCEPT ![c] = @ + 1]
  /\ UNCHANGED <<code, attempts, logins, user, handlers>>

Outdated == {c \in Code : Row(c) /\ age[c] = 3}

CleanupVerificationCodes ==
  /\ Outdated # {}
  /\ code' = [c \in Code |-> IF c \in Outdated THEN "gone" ELSE code[c]]
  /\ UNCHANGED <<age, attempts, logins, user, handlers>>

-------------------------------------------------------------------------------
RequestCode(h) ==
  \/ \E c \in Code : RequestCodeCount(h, c)
  \/ RequestCodeMark(h)
  \/ RequestCodeCommit(h)

VerifyCode(h) ==
  \/ \E right \in BOOLEAN : VerifyCodeFind(h, right)
  \/ VerifyCodeSpend(h)
  \/ VerifyCodeMiss(h)
  \/ VerifyCodeLogin(h)

VerifyGoogle(h) == VerifyGoogleFind(h) \/ VerifyGoogleLogin(h)

Next ==
  \/ \E h \in Handler : RequestCode(h) \/ VerifyCode(h) \/ VerifyGoogle(h) \/ Rollback(h)
  \/ \E c \in Code : TimePasses(c)
  \/ CleanupVerificationCodes

Spec == Init /\ [][Next]_vars

-------------------------------------------------------------------------------
\* A code opens at most one session for every request that is served at the
\* same time: once one of them has committed, nobody finds the code any more.
\* (With one request at a time it opens one session.)
LoginsBounded == \A c \in Code : logins[c] <= Cardinality(Handler)

\* The guesses at a code that are counted exceed MaxVerifyAttempts by the
\* requests that were served at the same time, less one, and no more.
AttemptsBounded ==
  \A c \in Code : attempts[c] < MaxVerifyAttempts + Cardinality(Handler)

\* There are never more unused codes than requests served at the same time.
\* (One request at a time leaves one unused code, and then the limit of three
\* in RequestCode is out of reach.)
UnusedBounded == Cardinality(Unused) <= Cardinality(Handler)

\* The user is welcomed once for every login that was under way when the user
\* was not verified yet, and never again.
WelcomesBounded == welcomed <= Cardinality(Handler)

-------------------------------------------------------------------------------
(***************************************************************************)
(* The strengthenings that make the bounds inductive: what has been done   *)
(* and what is about to be done share one budget.                          *)
(***************************************************************************)
About(what, c) == {h \in Handler : op[h] = what /\ target[h] = c}
Welcoming      == {h \in Handler : op[h] \in {"login", "google"} /\ first[h]}
Marked         == {h \in Handler : op[h] = "marked"}
Requesting(h)  == op[h] \in {"counted", "marked"}

\* A code that is being requested is open and has one maker; a code that is
\* being verified has had a row.
TargetsMatch ==
  /\ \A h \in Handler : Requesting(h) => code[target[h]] = "open"
  /\ \A g, h \in Handler : Requesting(g) /\ Requesting(h) /\ target[g] = target[h] => g = h
  /\ \A h \in Handler :
       op[h] \in {"spend", "miss", "login"} => code[target[h]] \in {"unused", "used", "gone"}

LoginsBudget ==
  \A c \in Code :
    /\ code[c] \in {"none", "open", "unused"} => logins[c] = 0
    /\ logins[c] + Cardinality(About("login", c)) <= Cardinality(Handler)

AttemptsBudget ==
  \A c \in Code :
    attempts[c] + Cardinality(About("miss", c)) < MaxVerifyAttempts + Cardinality(Handler)

\* Of the codes that none of the transactions in S has found unused, there are
\* no more than handlers outside S.
UnusedBudget ==
  /\ IsFiniteSet(Unused)
  /\ \A S \in SUBSET Marked :
       Cardinality(Unused \ UNION {superseded[h] : h \in S}) + Cardinality(S)
         <= Cardinality(Handler)

WelcomesBudget ==
  /\ ~verified => welcomed = 0
  /\ welcomed + Cardinality(Welcoming) <= Cardinality(Handler)
===============================================================================
