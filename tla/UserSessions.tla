------------------------------ MODULE UserSessions ------------------------------
(***************************************************************************)
(* The sessions of one account: its rows of sessions, the cookies of its   *)
(* browsers, and the requests under way that log in, refresh, log out and  *)
(* revoke.  A request authenticates or looks its session up with one       *)
(* statement and acts with another, with no transaction around the two,    *)
(* and its answer reaches the browser later still, or never.               *)
(*                                                                         *)
(* A pair of tokens is known by its session and its age: createToken signs *)
(* the same text for the same session in the same second.                  *)
(***************************************************************************)
EXTENDS Naturals, FiniteSets

CONSTANTS Handler,      \* requests under way at the same time
          Browser,      \* the browsers of the account
          Session,      \* sessions.id
          AccessLife,   \* cfg.AccessTokenMinutes, in ticks
          RefreshLife,  \* cfg.RefreshTokenDays, in ticks
          MaxLosses     \* bound: answers that are lost

ASSUME ConstantsAssumption ==
  /\ Session \subseteq Nat \ {0}
  /\ AccessLife \in Nat \ {0}
  /\ RefreshLife \in Nat
  /\ AccessLife <= RefreshLife
  /\ MaxLosses \in Nat

VARIABLES
  state,    \* session -> "none", its row: "live" or "revoked", or "deleted"
  age,      \* session -> the age of the tokens whose hashes its row holds
  cookie,   \* browser -> the session and the age of its token cookies
  op,       \* handler -> what its request is about to do
  client,   \* handler -> the browser that waits for it
  session,  \* handler -> claims.SessionID
  minted,   \* handler -> the age of the tokens it has made
  raced,    \* history: a session was refreshed by two requests at once
  losses

rows     == <<state, age>>
requests == <<op, client, session, minted>>
vars     == <<rows, cookie, requests, raced, losses>>

NoSession == 0
NoBrowser == "none"
Age       == 0..RefreshLife + 1
Older(a)  == IF a > RefreshLife THEN a ELSE a + 1
NoCookie  == [session |-> NoSession, age |-> 0]

TypeOK ==
  /\ state \in [Session -> {"none", "live", "revoked", "deleted"}]
  /\ age \in [Session -> Age]
  /\ cookie \in [Browser -> [session : Session \cup {NoSession}, age : Age]]
  /\ op \in [Handler -> {"idle", "refresh", "act", "answer", "clear"}]
  /\ client \in [Handler -> Browser \cup {NoBrowser}]
  /\ session \in [Handler -> Session \cup {NoSession}]
  /\ minted \in [Handler -> Age]
  /\ \A h \in Handler : op[h] # "idle" => client[h] \in Browser
  /\ \A h \in Handler : op[h] \in {"refresh", "act", "answer"} => session[h] \in Session
  /\ raced \in BOOLEAN
  /\ losses \in 0..MaxLosses

Init ==
  /\ state = [s \in Session |-> "none"]
  /\ age = [s \in Session |-> 0]
  /\ cookie = [b \in Browser |-> NoCookie]
  /\ op = [h \in Handler |-> "idle"]
  /\ client = [h \in Handler |-> NoBrowser]
  /\ session = [h \in Handler |-> NoSession]
  /\ minted = [h \in Handler |-> 0]
  /\ raced = FALSE
  /\ losses = 0

Begin(h, what, b, s) ==
  /\ op[h] = "idle"
  /\ op' = [op EXCEPT ![h] = what]
  /\ client' = [client EXCEPT ![h] = b]
  /\ session' = [session EXCEPT ![h] = s]
  /\ minted' = [minted EXCEPT ![h] = 0]

Answer(h, what) ==
  /\ op' = [op EXCEPT ![h] = what]
  /\ UNCHANGED <<client, session, minted>>

End(h) ==
  /\ op' = [op EXCEPT ![h] = "idle"]
  /\ client' = [client EXCEPT ![h] = NoBrowser]
  /\ session' = [session EXCEPT ![h] = NoSession]
  /\ minted' = [minted EXCEPT ![h] = 0]

Revoked(S) == [s \in Session |-> IF s \in S /\ state[s] = "live" THEN "revoked" ELSE state[s]]

\* What the browser sends is what the row holds.
Presents(b, s) ==
  /\ cookie[b].session = s
  /\ cookie[b].age = age[s]
  /\ state[s] = "live"

(***************************************************************************)
(* Logging in and refreshing.                                              *)
(***************************************************************************)

\* The commit of VerifyCode or VerifyGoogle inserts a session with its
\* tokens; the answer carries them.
Login(h, b, s) ==
  /\ state[s] = "none"
  /\ \A t \in Session : t < s => state[t] # "none"
  /\ Begin(h, "answer", b, s)
  /\ state' = [state EXCEPT ![s] = "live"]
  /\ age' = [age EXCEPT ![s] = 0]
  /\ UNCHANGED <<cookie, raced, losses>>

\* The session is looked up and the new tokens are made.
RefreshTokenFind(h, b, s) ==
  /\ Presents(b, s)
  /\ age[s] < RefreshLife
  /\ Begin(h, "refresh", b, s)
  /\ raced' = (raced \/ \E g \in Handler : op[g] \in {"refresh", "answer"} /\ session[g] = s)
  /\ UNCHANGED <<rows, cookie, losses>>

\* Mutants of RefreshTokenStore: the UPDATE revives the row; the UPDATE
\* keeps the hashes that the row held.
RefreshTokenStoreRevive(h) ==
  /\ op[h] = "refresh"
  /\ state' = [state EXCEPT ![session[h]] = "live"]
  /\ age' = [age EXCEPT ![session[h]] = minted[h]]
  /\ Answer(h, "answer")
  /\ UNCHANGED <<cookie, raced, losses>>

RefreshTokenStoreNothing(h) ==
  /\ op[h] = "refresh"
  /\ Answer(h, "answer")
  /\ UNCHANGED <<rows, cookie, raced, losses>>

\* The UPDATE by id alone: it reaches a row that was revoked meanwhile, and
\* no row when it was deleted, and answers with the tokens in every case.
RefreshTokenStore(h) ==
  /\ op[h] = "refresh"
  /\ age' = [age EXCEPT ![session[h]] =
       IF state[session[h]] = "deleted" THEN @ ELSE minted[h]]
  /\ Answer(h, "answer")
  /\ UNCHANGED <<state, cookie, raced, losses>>

(***************************************************************************)
(* The requests behind WithAuth: one statement authenticates, one acts.    *)
(***************************************************************************)
AuthenticateUser(h, b, s) ==
  /\ Presents(b, s)
  /\ age[s] < AccessLife
  /\ Begin(h, "act", b, s)
  /\ UNCHANGED <<rows, cookie, raced, losses>>

Logout(h) ==
  /\ op[h] = "act"
  /\ state' = Revoked({session[h]})
  /\ Answer(h, "clear")
  /\ UNCHANGED <<age, cookie, raced, losses>>

LogoutAll(h) ==
  /\ op[h] = "act"
  /\ state' = Revoked(Session)
  /\ Answer(h, "clear")
  /\ UNCHANGED <<age, cookie, raced, losses>>

RevokeSession(h, s) ==
  /\ op[h] = "act"
  /\ state' = Revoked({s})
  /\ End(h)
  /\ UNCHANGED <<age, cookie, raced, losses>>

RevokeAllOtherSessions(h) ==
  /\ op[h] = "act"
  /\ state' = Revoked(Session \ {session[h]})
  /\ End(h)
  /\ UNCHANGED <<age, cookie, raced, losses>>

\* An administrator logs the user out.
AdminForceLogout ==
  /\ state' = Revoked(Session)
  /\ UNCHANGED <<age, cookie, requests, raced, losses>>

\* The statement fails: the browser gets a 500 and keeps its cookies.
Fail(h) ==
  /\ op[h] \in {"refresh", "act"}
  /\ End(h)
  /\ UNCHANGED <<rows, cookie, raced, losses>>

(***************************************************************************)
(* The answer's Set-Cookie headers reach the browser, or the answer is     *)
(* lost after the database has changed.                                    *)
(***************************************************************************)
SetAuthCookies(h) ==
  /\ op[h] = "answer"
  /\ cookie' = [cookie EXCEPT ![client[h]] = [session |-> session[h], age |-> minted[h]]]
  /\ End(h)
  /\ UNCHANGED <<rows, raced, losses>>

ClearAuthCookies(h) ==
  /\ op[h] = "clear"
  /\ cookie' = [cookie EXCEPT ![client[h]] = NoCookie]
  /\ End(h)
  /\ UNCHANGED <<rows, raced, losses>>

LoseAnswer(h) ==
  /\ op[h] \in {"answer", "clear"}
  /\ losses < MaxLosses
  /\ losses' = losses + 1
  /\ End(h)
  /\ UNCHANGED <<rows, cookie, raced>>

(***************************************************************************)
(* Time and the daily maintenance.                                         *)
(***************************************************************************)
Tick ==
  /\ age' = [s \in Session |-> IF state[s] = "none" THEN 0 ELSE Older(age[s])]
  /\ cookie' = [b \in Browser |->
       IF cookie[b].session = NoSession THEN NoCookie
       ELSE [session |-> cookie[b].session, age |-> Older(cookie[b].age)]]
  /\ minted' = [h \in Handler |->
       IF op[h] \in {"refresh", "answer"} THEN Older(minted[h]) ELSE minted[h]]
  /\ UNCHANGED <<state, op, client, session, raced, losses>>

Expired(s) == age[s] > RefreshLife

\* Mutant of RevokeExpired: only rows without an expiry are revoked, and no
\* row is without one.
RevokeExpiredNull ==
  /\ FALSE
  /\ UNCHANGED vars

RevokeExpired ==
  /\ \E s \in Session : state[s] = "live" /\ Expired(s)
  /\ state' = Revoked({s \in Session : Expired(s)})
  /\ UNCHANGED <<age, cookie, requests, raced, losses>>

\* Thirty days after its last change a revoked session is deleted; its
\* tokens have expired long before.
CleanupRevokedSessions(s) ==
  /\ state[s] = "revoked"
  /\ Expired(s)
  /\ state' = [state EXCEPT ![s] = "deleted"]
  /\ UNCHANGED <<age, cookie, requests, raced, losses>>

-------------------------------------------------------------------------------
Serve(h) ==
  \/ RefreshTokenStore(h)
  \/ Logout(h) \/ LogoutAll(h) \/ RevokeAllOtherSessions(h)
  \/ \E s \in Session : RevokeSession(h, s)
  \/ Fail(h)
  \/ SetAuthCookies(h) \/ ClearAuthCookies(h) \/ LoseAnswer(h)

Next ==
  \/ \E h \in Handler, b \in Browser, s \in Session :
       Login(h, b, s) \/ RefreshTokenFind(h, b, s) \/ AuthenticateUser(h, b, s)
  \/ \E h \in Handler : Serve(h)
  \/ AdminForceLogout
  \/ Tick
  \/ RevokeExpired
  \/ \E s \in Session : CleanupRevokedSessions(s)

Spec == Init /\ [][Next]_vars

\* Time passes, requests are served, and the daily maintenance runs.
Serves(h) == WF_vars(Serve(h))

Fairness ==
  /\ WF_vars(Tick)
  /\ WF_vars(RevokeExpired)
  /\ \A h \in Handler : Serves(h)

FairSpec == Spec /\ Fairness

-------------------------------------------------------------------------------
\* A revoked session never comes back, whatever was under way for it when it
\* was revoked: a refresh that found it live stores its tokens in a row that
\* stays revoked (RefreshToken against Logout and the maintenance).
RevocationIsFinal ==
  [][\A s \in Session :
       /\ state[s] = "revoked" => state'[s] \in {"revoked", "deleted"}
       /\ state[s] = "deleted" => state'[s] = "deleted"]_vars

\* A browser loses a live session it holds cookies of only after two of its
\* tabs have refreshed at once, or an answer was lost: otherwise the tokens
\* of the row are in its cookies or in an answer on the way to it.
LockoutNeedsRaceOrLoss ==
  ~raced /\ losses = 0 =>
    \A b \in Browser, s \in Session :
      cookie[b].session = s /\ state[s] = "live" =>
        \/ cookie[b].age = age[s]
        \/ \E h \in Handler :
             op[h] = "answer" /\ client[h] = b /\ session[h] = s /\ minted[h] = age[s]

\* A session that is no longer refreshed does not stay live for ever.
AbandonedSessionEnds ==
  \A s \in Session :
    state[s] = "live" ~> \/ state[s] # "live"
                         \/ \E h \in Handler : op[h] = "refresh" /\ session[h] = s

-------------------------------------------------------------------------------
(***************************************************************************)
(* The strengthenings that make LockoutNeedsRaceOrLoss inductive.          *)
(***************************************************************************)
Holds(b, s) ==
  \/ cookie[b].session = s
  \/ \E h \in Handler :
       op[h] \in {"refresh", "act", "answer"} /\ client[h] = b /\ session[h] = s

\* A session belongs to the browser that logged in.
OneOwner ==
  \A s \in Session, a \in Browser :
    Holds(a, s) =>
      /\ state[s] # "none"
      /\ \A b \in Browser : Holds(b, s) => a = b

Renewing(h) == op[h] \in {"refresh", "answer"}

\* Without a race one request at a time makes tokens for a session, and an
\* answer carries the tokens of the row.
Synced ==
  ~raced =>
    /\ \A g, h \in Handler : Renewing(g) /\ Renewing(h) /\ session[g] = session[h] => g = h
    /\ \A h \in Handler :
         op[h] = "answer" /\ state[session[h]] = "live" => minted[h] = age[session[h]]

\* Time can pass while a session has not expired, and the maintenance has
\* something to do when it has.
SessionsGoOn ==
  \A s \in Session :
    state[s] = "live" =>
      IF Expired(s) THEN ENABLED <<RevokeExpired>>_vars ELSE ENABLED <<Tick>>_vars
===============================================================================
