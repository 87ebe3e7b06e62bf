-------------------------- MODULE UserSessions_proofs --------------------------
(***************************************************************************)
(* Proofs about UserSessions, for any number of requests, browsers and     *)
(* sessions, and any lifetimes of the tokens.                              *)
(***************************************************************************)
EXTENDS UserSessions, TLAPS

LEMMA Ages ==
  /\ 0 \in Age
  /\ \A a \in Age : Older(a) \in Age
BY ConstantsAssumption DEF Age, Older

LEMMA RevokedType ==
  ASSUME TypeOK, NEW S
  PROVE  Revoked(S) \in [Session -> {"none", "live", "revoked", "deleted"}]
BY DEF Revoked, TypeOK

\* The state keeps its shape under logins, refreshes, logouts, answers, the
\* passing of time and the maintenance.
THEOREM TypeCorrect == Spec => []TypeOK
<1> USE DEF TypeOK
<1>1. Init => TypeOK
  <2> SUFFICES ASSUME Init PROVE TypeOK
    OBVIOUS
  <2>1. 0 \in Age /\ losses \in 0..MaxLosses
    BY Ages, ConstantsAssumption DEF Init
  <2>2. raced \in BOOLEAN
    BY DEF Init
  <2>3. /\ state \in [Session -> {"none", "live", "revoked", "deleted"}]
        /\ age \in [Session -> Age]
        /\ cookie \in [Browser -> [session : Session \cup {NoSession}, age : Age]]
    BY <2>1 DEF Init, NoCookie
  <2>4. /\ op \in [Handler -> {"idle", "refresh", "act", "answer", "clear"}]
        /\ client \in [Handler -> Browser \cup {NoBrowser}]
        /\ session \in [Handler -> Session \cup {NoSession}]
        /\ minted \in [Handler -> Age]
        /\ \A h \in Handler : op[h] # "idle" => client[h] \in Browser
        /\ \A h \in Handler : op[h] \in {"refresh", "act", "answer"} => session[h] \in Session
    BY <2>1 DEF Init
  <2>5. QED
    BY <2>1, <2>2, <2>3, <2>4
<1>2. TypeOK /\ [Next]_vars => TypeOK'
  <2> SUFFICES ASSUME TypeOK, [Next]_vars PROVE TypeOK'
    OBVIOUS
  <2> USE DEF rows, requests
  <2>1. ASSUME NEW h \in Handler, NEW b \in Browser, NEW s \in Session, Login(h, b, s)
        PROVE  TypeOK'
    BY <2>1, Ages DEF Login, Begin
  <2>2. ASSUME NEW h \in Handler, NEW b \in Browser, NEW s \in Session, RefreshTokenFind(h, b, s)
        PROVE  TypeOK'
    <3>1. raced' \in BOOLEAN
      BY <2>2 DEF RefreshTokenFind
    <3>2. Begin(h, "refresh", b, s) /\ UNCHANGED <<rows, cookie, losses>>
      BY <2>2 DEF RefreshTokenFind
    <3>3. QED
      BY <3>1, <3>2, Ages DEF Begin
  <2>3. ASSUME NEW h \in Handler, NEW b \in Browser, NEW s \in Session, AuthenticateUser(h, b, s)
        PROVE  TypeOK'
    BY <2>3, Ages DEF AuthenticateUser, Begin
  <2>4. ASSUME NEW h \in Handler, RefreshTokenStore(h)
        PROVE  TypeOK'
    <3>1. client[h] \in Browser /\ session[h] \in Session /\ minted[h] \in Age
      BY <2>4 DEF RefreshTokenStore
    <3>2. age' \in [Session -> Age]
      BY <2>4, <3>1 DEF RefreshTokenStore
    <3>3. QED
      BY <2>4, <3>1, <3>2 DEF RefreshTokenStore, Answer
  <2>5. ASSUME NEW h \in Handler, Logout(h) \/ LogoutAll(h)
        PROVE  TypeOK'
    <3>1. /\ Answer(h, "clear") /\ UNCHANGED <<age, cookie, raced, losses>>
          /\ \E S : state' = Revoked(S)
      BY <2>5 DEF Logout, LogoutAll
    <3>2. state' \in [Session -> {"none", "live", "revoked", "deleted"}]
      BY <3>1, RevokedType
    <3>3. client[h] \in Browser
      BY <2>5 DEF Logout, LogoutAll
    <3>4. QED
      BY <3>1, <3>2, <3>3 DEF Answer
  <2>6. ASSUME NEW h \in Handler, RevokeAllOtherSessions(h) \/ \E s \in Session : RevokeSession(h, s)
        PROVE  TypeOK'
    <3>1. /\ End(h) /\ UNCHANGED <<age, cookie, raced, losses>>
          /\ \E S : state' = Revoked(S)
      BY <2>6 DEF RevokeAllOtherSessions, RevokeSession
    <3>2. state' \in [Session -> {"none", "live", "revoked", "deleted"}]
      BY <3>1, RevokedType
    <3>3. QED
      BY <3>1, <3>2, Ages DEF End
  <2>7. ASSUME NEW h \in Handler, Fail(h)
        PROVE  TypeOK'
    BY <2>7, Ages DEF Fail, End
  <2>8. ASSUME NEW h \in Handler, SetAuthCookies(h)
        PROVE  TypeOK'
    <3>1. client[h] \in Browser /\ session[h] \in Session /\ minted[h] \in Age
      BY <2>8 DEF SetAuthCookies
    <3>2. cookie' \in [Browser -> [session : Session \cup {NoSession}, age : Age]]
      BY <2>8, <3>1 DEF SetAuthCookies
    <3>3. QED
      BY <2>8, <3>2, Ages DEF SetAuthCookies, End
  <2>9. ASSUME NEW h \in Handler, ClearAuthCookies(h)
        PROVE  TypeOK'
    <3>1. cookie' \in [Browser -> [session : Session \cup {NoSession}, age : Age]]
      BY <2>9, Ages DEF ClearAuthCookies, NoCookie
    <3>2. QED
      BY <2>9, <3>1, Ages DEF ClearAuthCookies, End
  <2>10. ASSUME NEW h \in Handler, LoseAnswer(h)
         PROVE  TypeOK'
    <3>1. losses' \in 0..MaxLosses
      BY <2>10, ConstantsAssumption DEF LoseAnswer
    <3>2. QED
      BY <2>10, <3>1, Ages DEF LoseAnswer, End
  <2>11. CASE AdminForceLogout
    BY <2>11, RevokedType DEF AdminForceLogout
  <2>12. CASE Tick
    <3>1. cookie' \in [Browser -> [session : Session \cup {NoSession}, age : Age]]
      BY <2>12, Ages DEF Tick, NoCookie
    <3>2. age' \in [Session -> Age] /\ minted' \in [Handler -> Age]
      BY <2>12, Ages DEF Tick
    <3>3. QED
      BY <2>12, <3>1, <3>2 DEF Tick
  <2>13. CASE RevokeExpired
    BY <2>13, RevokedType DEF RevokeExpired
  <2>14. ASSUME NEW s \in Session, CleanupRevokedSessions(s)
         PROVE  TypeOK'
    BY <2>14 DEF CleanupRevokedSessions
  <2>15. CASE UNCHANGED vars
    BY <2>15 DEF vars
  <2>16. QED
    BY <2>1, <2>2, <2>3, <2>4, <2>5, <2>6, <2>7, <2>8, <2>9, <2>10, <2>11, <2>12, <2>13,
       <2>14, <2>15
    DEF Next, Serve
<1>3. QED
  BY <1>1, <1>2, PTL DEF Spec

-------------------------------------------------------------------------------
\* Whatever is under way when a session is revoked, the session stays revoked
\* until it is deleted.
THEOREM RevocationStays == Spec => RevocationIsFinal
<1> DEFINE Stays == \A s \in Session :
                      /\ state[s] = "revoked" => state'[s] \in {"revoked", "deleted"}
                      /\ state[s] = "deleted" => state'[s] = "deleted"
<1>1. TypeOK /\ [Next]_vars => [Stays]_vars
  <2> SUFFICES ASSUME TypeOK, Next, NEW s \in Session
               PROVE  /\ state[s] = "revoked" => state'[s] \in {"revoked", "deleted"}
                      /\ state[s] = "deleted" => state'[s] = "deleted"
    BY DEF vars
  <2> DEFINE Goal == /\ state[s] = "revoked" => state'[s] \in {"revoked", "deleted"}
                     /\ state[s] = "deleted" => state'[s] = "deleted"
  <2> USE DEF TypeOK, rows
  <2>1. ASSUME NEW h \in Handler, NEW b \in Browser, NEW t \in Session,
               Login(h, b, t) \/ RefreshTokenFind(h, b, t) \/ AuthenticateUser(h, b, t)
        PROVE  Goal
    BY <2>1 DEF Login, RefreshTokenFind, AuthenticateUser
  <2>2. ASSUME NEW h \in Handler, Serve(h)
        PROVE  Goal
    <3>1. CASE RefreshTokenStore(h) \/ Fail(h)
      BY <3>1 DEF RefreshTokenStore, Fail
    <3>2. CASE Logout(h) \/ LogoutAll(h) \/ RevokeAllOtherSessions(h)
      BY <3>2 DEF Logout, LogoutAll, RevokeAllOtherSessions, Revoked
    <3>3. CASE \E t \in Session : RevokeSession(h, t)
      BY <3>3 DEF RevokeSession, Revoked
    <3>4. CASE SetAuthCookies(h) \/ ClearAuthCookies(h) \/ LoseAnswer(h)
      BY <3>4 DEF SetAuthCookies, ClearAuthCookies, LoseAnswer
    <3>5. QED
      BY <2>2, <3>1, <3>2, <3>3, <3>4 DEF Serve
  <2>3. CASE AdminForceLogout \/ RevokeExpired \/ Tick
    BY <2>3 DEF AdminForceLogout, RevokeExpired, Tick, Revoked
  <2>4. ASSUME NEW t \in Session, CleanupRevokedSessions(t)
        PROVE  Goal
    BY <2>4 DEF CleanupRevokedSessions
  <2>5. QED
    BY <2>1, <2>2, <2>3, <2>4 DEF Next
<1>2. QED
  BY <1>1, TypeCorrect, PTL DEF Spec, RevocationIsFinal

-------------------------------------------------------------------------------
\* Ownership survives every step after which nobody holds a session that they
\* did not hold before.
LEMMA OwnersShrink ==
  ASSUME OneOwner,
         \A s \in Session : state[s] # "none" => state'[s] # "none",
         \A s \in Session, b \in Browser : Holds(b, s)' => Holds(b, s)
  PROVE  OneOwner'
BY DEF OneOwner

LEMMA EndOnlyFrees ==
  ASSUME TypeOK, NEW h \in Handler, End(h), UNCHANGED cookie,
         NEW b \in Browser, NEW s \in Session, Holds(b, s)'
  PROVE  Holds(b, s)
BY DEF End, Holds, TypeOK

LEMMA RevokedExists ==
  ASSUME NEW S, state' = Revoked(S), NEW s \in Session, state[s] # "none"
  PROVE  state'[s] # "none"
BY DEF Revoked

\* A session belongs to one browser.
LEMMA OwnerInduction == Spec => []OneOwner
<1>1. Init => OneOwner
  <2> SUFFICES ASSUME Init, NEW s \in Session, NEW b \in Browser PROVE ~Holds(b, s)
    BY DEF OneOwner
  <2>1. cookie[b].session # s
    BY ConstantsAssumption DEF Init, NoCookie, NoSession
  <2>2. \A h \in Handler : op[h] = "idle"
    BY DEF Init
  <2>3. QED
    BY <2>1, <2>2 DEF Holds
<1>2. TypeOK /\ OneOwner /\ [Next]_vars => OneOwner'
  <2> SUFFICES ASSUME TypeOK, OneOwner, [Next]_vars PROVE OneOwner'
    OBVIOUS
  <2>1. ASSUME NEW h \in Handler, NEW b \in Browser, NEW s \in Session, Login(h, b, s)
        PROVE  OneOwner'
    <3>1. \A a \in Browser : ~Holds(a, s)
      BY <2>1 DEF Login, OneOwner
    <3>2. ASSUME NEW a \in Browser, NEW t \in Session, Holds(a, t)', t # s
          PROVE  Holds(a, t)
      BY <2>1, <3>2 DEF Login, Begin, Holds, TypeOK
    <3>3. ASSUME NEW a \in Browser, Holds(a, s)'
          PROVE  a = b
      BY <2>1, <3>1, <3>3 DEF Login, Begin, Holds, TypeOK
    <3>4. state'[s] = "live" /\ \A t \in Session \ {s} : state'[t] = state[t]
      BY <2>1 DEF Login, TypeOK
    <3>5. QED
      BY <3>2, <3>3, <3>4 DEF OneOwner
  <2>2. ASSUME NEW h \in Handler, NEW b \in Browser, NEW s \in Session,
               RefreshTokenFind(h, b, s) \/ AuthenticateUser(h, b, s)
        PROVE  OneOwner'
    <3>1. state' = state /\ cookie' = cookie /\ cookie[b].session = s
      BY <2>2 DEF RefreshTokenFind, AuthenticateUser, Presents, rows
    <3>2. Begin(h, "refresh", b, s) \/ Begin(h, "act", b, s)
      BY <2>2 DEF RefreshTokenFind, AuthenticateUser
    <3>3. ASSUME NEW a \in Browser, NEW t \in Session, Holds(a, t)'
          PROVE  Holds(a, t)
      BY <3>1, <3>2, <3>3 DEF Begin, Holds, TypeOK
    <3>4. QED
      BY <3>1, <3>3, OwnersShrink
  <2>3. ASSUME NEW h \in Handler, Serve(h)
        PROVE  OneOwner'
    <3>1. CASE RefreshTokenStore(h)
      <4>1. state' = state /\ cookie' = cookie
        BY <3>1 DEF RefreshTokenStore
      <4>2. ASSUME NEW a \in Browser, NEW t \in Session, Holds(a, t)'
            PROVE  Holds(a, t)
        <5>1. UNCHANGED <<client, session>> /\ op[h] = "refresh"
          BY <3>1 DEF RefreshTokenStore, Answer
        <5>2. \A g \in Handler : op'[g] \in {"refresh", "act", "answer"}
                                   => op[g] \in {"refresh", "act", "answer"}
          BY <3>1, <5>1 DEF RefreshTokenStore, Answer, TypeOK
        <5>3. QED
          BY <4>1, <4>2, <5>1, <5>2 DEF Holds
      <4>3. QED
        BY <4>1, <4>2, OwnersShrink
    <3>2. CASE Logout(h) \/ LogoutAll(h)
      <4>1. cookie' = cookie /\ Answer(h, "clear") /\ \E S : state' = Revoked(S)
        BY <3>2 DEF Logout, LogoutAll
      <4>2. ASSUME NEW a \in Browser, NEW t \in Session, Holds(a, t)'
            PROVE  Holds(a, t)
        <5>1. UNCHANGED <<client, session>>
          BY <4>1 DEF Answer
        <5>2. \A g \in Handler : op'[g] \in {"refresh", "act", "answer"}
                                   => op[g] \in {"refresh", "act", "answer"}
          BY <4>1 DEF Answer, TypeOK
        <5>3. QED
          BY <4>1, <4>2, <5>1, <5>2 DEF Holds
      <4>3. \A s \in Session : state[s] # "none" => state'[s] # "none"
        BY <4>1, RevokedExists
      <4>4. QED
        BY <4>2, <4>3, OwnersShrink
    <3>3. CASE RevokeAllOtherSessions(h) \/ \E s \in Session : RevokeSession(h, s)
      <4>1. cookie' = cookie /\ End(h) /\ \E S : state' = Revoked(S)
        BY <3>3 DEF RevokeAllOtherSessions, RevokeSession
      <4>2. QED
        BY <4>1, EndOnlyFrees, OwnersShrink, RevokedExists
    <3>4. CASE Fail(h) \/ LoseAnswer(h)
      <4>1. cookie' = cookie /\ End(h) /\ state' = state
        BY <3>4 DEF Fail, LoseAnswer, rows
      <4>2. QED
        BY <4>1, EndOnlyFrees, OwnersShrink
    <3>5. CASE SetAuthCookies(h)
      <4>1. state' = state /\ op[h] = "answer" /\ client[h] \in Browser /\ session[h] \in Session
        BY <3>5 DEF SetAuthCookies, rows, TypeOK
      <4>2. /\ cookie'[client[h]].session = session[h]
            /\ \A a \in Browser \ {client[h]} : cookie'[a] = cookie[a]
        BY <3>5, <4>1 DEF SetAuthCookies, TypeOK
      <4>3. ASSUME NEW a \in Browser, NEW t \in Session, Holds(a, t)'
            PROVE  Holds(a, t)
        <5>1. CASE cookie'[a].session = t
          BY <4>1, <4>2, <5>1 DEF Holds
        <5>2. CASE \E g \in Handler : op'[g] \in {"refresh", "act", "answer"} /\ client'[g] = a /\ session'[g] = t
          BY <3>5, <5>2 DEF SetAuthCookies, End, Holds, TypeOK
        <5>3. QED
          BY <4>3, <5>1, <5>2 DEF Holds
      <4>4. QED
        BY <4>1, <4>3, OwnersShrink
    <3>6. CASE ClearAuthCookies(h)
      <4>1. state' = state /\ op[h] = "clear" /\ client[h] \in Browser
        BY <3>6 DEF ClearAuthCookies, rows, TypeOK
      <4>2. /\ cookie'[client[h]].session = NoSession
            /\ \A a \in Browser \ {client[h]} : cookie'[a] = cookie[a]
        BY <3>6, <4>1 DEF ClearAuthCookies, NoCookie, TypeOK
      <4>3. ASSUME NEW a \in Browser, NEW t \in Session, Holds(a, t)'
            PROVE  Holds(a, t)
        <5>1. CASE cookie'[a].session = t
          BY <4>1, <4>2, <5>1, ConstantsAssumption DEF Holds, NoSession
        <5>2. CASE \E g \in Handler : op'[g] \in {"refresh", "act", "answer"} /\ client'[g] = a /\ session'[g] = t
          BY <3>6, <5>2 DEF ClearAuthCookies, End, Holds, TypeOK
        <5>3. QED
          BY <4>3, <5>1, <5>2 DEF Holds
      <4>4. QED
        BY <4>1, <4>3, OwnersShrink
    <3>7. QED
      BY <2>3, <3>1, <3>2, <3>3, <3>4, <3>5, <3>6 DEF Serve
  <2>4. CASE AdminForceLogout \/ RevokeExpired
    <3>1. UNCHANGED <<cookie, requests>> /\ \E S : state' = Revoked(S)
      BY <2>4 DEF AdminForceLogout, RevokeExpired
    <3>2. QED
      BY <3>1, OwnersShrink, RevokedExists DEF Holds, requests
  <2>5. CASE Tick
    <3>1. UNCHANGED <<state, op, client, session>>
      BY <2>5 DEF Tick
    <3>2. \A b \in Browser : cookie'[b].session = cookie[b].session
      BY <2>5 DEF Tick, NoCookie
    <3>3. QED
      BY <3>1, <3>2, OwnersShrink DEF Holds
  <2>6. ASSUME NEW s \in Session, CleanupRevokedSessions(s)
        PROVE  OneOwner'
    <3>1. UNCHANGED <<cookie, requests>> /\ \A t \in Session : state[t] # "none" => state'[t] # "none"
      BY <2>6 DEF CleanupRevokedSessions, TypeOK
    <3>2. QED
      BY <3>1, OwnersShrink DEF Holds, requests
  <2>7. CASE UNCHANGED vars
    BY <2>7, OwnersShrink DEF vars, rows, requests, Holds
  <2>8. QED
    BY <2>1, <2>2, <2>3, <2>4, <2>5, <2>6, <2>7 DEF Next
<1>3. QED
  BY <1>1, <1>2, TypeCorrect, PTL DEF Spec

-------------------------------------------------------------------------------
LEMMA RevokedWasLive ==
  ASSUME NEW S, state' = Revoked(S), NEW s \in Session, state'[s] = "live"
  PROVE  state[s] = "live"
BY DEF Revoked

\* Tokens stay in step as long as no request begins to make or carry any and
\* no row changes but to be revoked.
LEMMA SyncedShrinks ==
  ASSUME TypeOK, Synced, raced' = raced, age' = age,
         \A s \in Session : state'[s] = "live" => state[s] = "live",
         \A h \in Handler :
           \/ op'[h] = op[h] /\ session'[h] = session[h] /\ minted'[h] = minted[h]
           \/ op'[h] \in {"idle", "act", "clear"}
  PROVE  Synced'
BY DEF Synced, Renewing, TypeOK

LEMMA EndLeavesOthers ==
  ASSUME TypeOK, NEW h \in Handler, End(h)
  PROVE  \A g \in Handler :
           \/ op'[g] = op[g] /\ session'[g] = session[g] /\ minted'[g] = minted[g]
           \/ op'[g] \in {"idle", "act", "clear"}
BY DEF End, TypeOK

LEMMA SyncedInduction == Spec => []Synced
<1>1. Init => Synced
  BY DEF Init, Synced, Renewing
<1>2. TypeOK /\ OneOwner /\ Synced /\ [Next]_vars => Synced'
  <2> SUFFICES ASSUME TypeOK, OneOwner, Synced, [Next]_vars PROVE Synced'
    OBVIOUS
  <2>a. \A g \in Handler : Renewing(g) => session[g] \in Session /\ Holds(client[g], session[g])
                                            /\ client[g] \in Browser
    BY DEF Renewing, TypeOK, Holds
  <2>1. ASSUME NEW h \in Handler, NEW b \in Browser, NEW s \in Session, Login(h, b, s)
        PROVE  Synced'
    <3>1. \A g \in Handler : Renewing(g) => session[g] # s
      BY <2>1, <2>a DEF Login, OneOwner
    <3>2. \A g \in Handler \ {h} : op'[g] = op[g] /\ session'[g] = session[g] /\ minted'[g] = minted[g]
      BY <2>1 DEF Login, Begin, TypeOK
    <3>3. op'[h] = "answer" /\ session'[h] = s /\ minted'[h] = 0
      BY <2>1 DEF Login, Begin, TypeOK
    <3>4. /\ age'[s] = 0 /\ raced' = raced
          /\ \A t \in Session \ {s} : state'[t] = state[t] /\ age'[t] = age[t]
      BY <2>1 DEF Login, TypeOK
    <3>5. QED
      BY <2>a, <3>1, <3>2, <3>3, <3>4 DEF Synced, Renewing
  <2>2. ASSUME NEW h \in Handler, NEW b \in Browser, NEW s \in Session, RefreshTokenFind(h, b, s)
        PROVE  Synced'
    <3>1. ~raced' => ~raced /\ \A g \in Handler : Renewing(g) => session[g] # s
      BY <2>2 DEF RefreshTokenFind, Renewing
    <3>2. \A g \in Handler \ {h} : op'[g] = op[g] /\ session'[g] = session[g] /\ minted'[g] = minted[g]
      BY <2>2 DEF RefreshTokenFind, Begin, TypeOK
    <3>3. op'[h] = "refresh" /\ session'[h] = s
      BY <2>2 DEF RefreshTokenFind, Begin, TypeOK
    <3>4. state' = state /\ age' = age
      BY <2>2 DEF RefreshTokenFind, rows
    <3>5. QED
      BY <3>1, <3>2, <3>3, <3>4 DEF Synced, Renewing
  <2>3. ASSUME NEW h \in Handler, NEW b \in Browser, NEW s \in Session, AuthenticateUser(h, b, s)
        PROVE  Synced'
    <3>1. \A g \in Handler :
            \/ op'[g] = op[g] /\ session'[g] = session[g] /\ minted'[g] = minted[g]
            \/ op'[g] \in {"idle", "act", "clear"}
      BY <2>3 DEF AuthenticateUser, Begin, TypeOK
    <3>2. QED
      BY <2>3, <3>1, SyncedShrinks DEF AuthenticateUser, rows
  <2>4. ASSUME NEW h \in Handler, RefreshTokenStore(h)
        PROVE  Synced'
    <3>1. op[h] = "refresh" /\ UNCHANGED <<state, raced, session, minted>> /\ session[h] \in Session
      BY <2>4 DEF RefreshTokenStore, Answer, TypeOK
    <3>2. op'[h] = "answer" /\ \A g \in Handler \ {h} : op'[g] = op[g]
      BY <2>4 DEF RefreshTokenStore, Answer, TypeOK
    <3>3. \A t \in Session \ {session[h]} : age'[t] = age[t]
      BY <2>4, <3>1 DEF RefreshTokenStore, TypeOK
    <3>4. state[session[h]] = "live" => age'[session[h]] = minted[h]
      BY <2>4, <3>1 DEF RefreshTokenStore, TypeOK
    <3>5. QED
      BY <2>a, <3>1, <3>2, <3>3, <3>4 DEF Synced, Renewing
  <2>5. ASSUME NEW h \in Handler, Logout(h) \/ LogoutAll(h)
        PROVE  Synced'
    <3>1. UNCHANGED <<age, raced>> /\ Answer(h, "clear") /\ \E S : state' = Revoked(S)
      BY <2>5 DEF Logout, LogoutAll
    <3>2. \A g \in Handler :
            \/ op'[g] = op[g] /\ session'[g] = session[g] /\ minted'[g] = minted[g]
            \/ op'[g] \in {"idle", "act", "clear"}
      BY <3>1 DEF Answer, TypeOK
    <3>3. \A s \in Session : state'[s] = "live" => state[s] = "live"
      BY <3>1, RevokedWasLive
    <3>4. QED
      BY <3>1, <3>2, <3>3, SyncedShrinks
  <2>6. ASSUME NEW h \in Handler, RevokeAllOtherSessions(h) \/ \E s \in Session : RevokeSession(h, s)
        PROVE  Synced'
    <3>1. UNCHANGED <<age, raced>> /\ End(h) /\ \E S : state' = Revoked(S)
      BY <2>6 DEF RevokeAllOtherSessions, RevokeSession
    <3>2. \A s \in Session : state'[s] = "live" => state[s] = "live"
      BY <3>1, RevokedWasLive
    <3>3. QED
      BY <3>1, <3>2, EndLeavesOthers, SyncedShrinks
  <2>7. ASSUME NEW h \in Handler,
               Fail(h) \/ LoseAnswer(h) \/ SetAuthCookies(h) \/ ClearAuthCookies(h)
        PROVE  Synced'
    <3>1. UNCHANGED <<state, age, raced>> /\ End(h)
      BY <2>7 DEF Fail, LoseAnswer, SetAuthCookies, ClearAuthCookies, rows
    <3>2. QED
      BY <3>1, EndLeavesOthers, SyncedShrinks
  <2>8. CASE AdminForceLogout \/ RevokeExpired
    <3>1. UNCHANGED <<age, raced, requests>> /\ \E S : state' = Revoked(S)
      BY <2>8 DEF AdminForceLogout, RevokeExpired
    <3>2. \A s \in Session : state'[s] = "live" => state[s] = "live"
      BY <3>1, RevokedWasLive
    <3>3. QED
      BY <3>1, <3>2, SyncedShrinks DEF requests
  <2>9. CASE Tick
    <3>1. UNCHANGED <<state, op, session, raced>>
      BY <2>9 DEF Tick
    <3>2. \A h \in Handler : op[h] = "answer" => minted'[h] = Older(minted[h])
      BY <2>9 DEF Tick
    <3>3. \A s \in Session : state[s] = "live" => age'[s] = Older(age[s])
      BY <2>9 DEF Tick
    <3>4. QED
      BY <2>a, <3>1, <3>2, <3>3 DEF Synced, Renewing
  <2>10. ASSUME NEW s \in Session, CleanupRevokedSessions(s)
         PROVE  Synced'
    <3>1. UNCHANGED <<age, raced, requests>> /\ \A t \in Session : state'[t] = "live" => state[t] = "live"
      BY <2>10 DEF CleanupRevokedSessions, TypeOK
    <3>2. QED
      BY <3>1, SyncedShrinks DEF requests
  <2>11. CASE UNCHANGED vars
    BY <2>11, SyncedShrinks DEF vars, rows, requests
  <2>12. QED
    BY <2>1, <2>2, <2>3, <2>4, <2>5, <2>6, <2>7, <2>8, <2>9, <2>10, <2>11 DEF Next, Serve
<1>3. QED
  BY <1>1, <1>2, TypeCorrect, OwnerInduction, PTL DEF Spec

-------------------------------------------------------------------------------
\* The browser holds the tokens of the row, or they are on the way to it.
Reaches(b, s) ==
  \/ cookie[b].age = age[s]
  \/ \E h \in Handler :
       op[h] = "answer" /\ client[h] = b /\ session[h] = s /\ minted[h] = age[s]

\* What has reached a browser, or is on the way, stays so when no row changes
\* but to be revoked, the cookies stay, and no answer ends.
LEMMA ReachesStays ==
  ASSUME LockoutNeedsRaceOrLoss,
         ~raced' /\ losses' = 0 => ~raced /\ losses = 0,
         NEW b \in Browser, cookie'[b] = cookie[b],
         NEW s \in Session, age'[s] = age[s], state'[s] = "live" => state[s] = "live",
         \A h \in Handler :
           op[h] = "answer" /\ client[h] = b /\ session[h] = s
             => op'[h] = op[h] /\ client'[h] = b /\ session'[h] = s /\ minted'[h] = minted[h],
         ~raced', losses' = 0, cookie'[b].session = s, state'[s] = "live"
  PROVE  Reaches(b, s)'
BY DEF LockoutNeedsRaceOrLoss, Reaches

\* A browser is locked out of a live session only by two refreshes at once,
\* or by an answer that was lost.
THEOREM LockoutIsRaceOrLoss == Spec => []LockoutNeedsRaceOrLoss
<1>1. Init => LockoutNeedsRaceOrLoss
  BY DEF Init, LockoutNeedsRaceOrLoss
<1>2. TypeOK /\ OneOwner /\ Synced /\ LockoutNeedsRaceOrLoss /\ [Next]_vars
        => LockoutNeedsRaceOrLoss'
  <2> SUFFICES ASSUME TypeOK, OneOwner, Synced, LockoutNeedsRaceOrLoss, [Next]_vars,
                      ~raced', losses' = 0,
                      NEW b \in Browser, NEW s \in Session,
                      cookie'[b].session = s, state'[s] = "live"
               PROVE  Reaches(b, s)'
    BY DEF LockoutNeedsRaceOrLoss, Reaches
  <2> DEFINE Kept == \A g \in Handler :
                       op[g] = "answer" /\ client[g] = b /\ session[g] = s
                         => /\ op'[g] = op[g] /\ client'[g] = b
                            /\ session'[g] = s /\ minted'[g] = minted[g]
  <2>1. ASSUME NEW h \in Handler, NEW a \in Browser, NEW t \in Session, Login(h, a, t)
        PROVE  Reaches(b, s)'
    <3>1. t # s
      BY <2>1 DEF Login, OneOwner, Holds
    <3>2. Kept
      BY <2>1 DEF Login, Begin, TypeOK
    <3>3. /\ cookie' = cookie /\ raced' = raced /\ losses' = losses
          /\ age'[s] = age[s] /\ state'[s] = state[s]
      BY <2>1, <3>1 DEF Login, TypeOK
    <3>4. QED
      BY <3>2, <3>3, ReachesStays
  <2>2. ASSUME NEW h \in Handler, NEW a \in Browser, NEW t \in Session,
               RefreshTokenFind(h, a, t) \/ AuthenticateUser(h, a, t)
        PROVE  Reaches(b, s)'
    <3>1. Kept
      BY <2>2 DEF RefreshTokenFind, AuthenticateUser, Begin, TypeOK
    <3>2. cookie' = cookie /\ losses' = losses /\ age' = age /\ state' = state
      BY <2>2 DEF RefreshTokenFind, AuthenticateUser, rows
    <3>3. ~raced' => ~raced
      BY <2>2, Zenon DEF RefreshTokenFind, AuthenticateUser
    <3>4. QED
      BY <3>1, <3>2, <3>3, ReachesStays
  <2>3. ASSUME NEW h \in Handler, RefreshTokenStore(h)
        PROVE  Reaches(b, s)'
    <3>1. /\ op[h] = "refresh" /\ session[h] \in Session /\ client[h] \in Browser
          /\ UNCHANGED <<state, cookie, raced, losses, client, session, minted>>
      BY <2>3 DEF RefreshTokenStore, Answer, TypeOK
    <3>2. op'[h] = "answer" /\ \A g \in Handler \ {h} : op'[g] = op[g]
      BY <2>3 DEF RefreshTokenStore, Answer, TypeOK
    <3>3. CASE session[h] = s
      <4>1. client[h] = b
        BY <3>1, <3>3 DEF OneOwner, Holds
      <4>2. age'[s] = minted[h]
        BY <2>3, <3>1, <3>3 DEF RefreshTokenStore, TypeOK
      <4>3. QED
        BY <3>1, <3>2, <3>3, <4>1, <4>2 DEF Reaches
    <3>4. CASE session[h] # s
      <4>1. age'[s] = age[s]
        BY <2>3, <3>1, <3>4 DEF RefreshTokenStore, TypeOK
      <4>2. Kept
        BY <3>1, <3>2
      <4>3. QED
        BY <3>1, <4>1, <4>2, ReachesStays
    <3>5. QED
      BY <3>3, <3>4
  <2>4. ASSUME NEW h \in Handler, Logout(h) \/ LogoutAll(h)
        PROVE  Reaches(b, s)'
    <3>1. /\ UNCHANGED <<age, cookie, raced, losses>>
          /\ op[h] = "act" /\ Answer(h, "clear") /\ \E S : state' = Revoked(S)
      BY <2>4 DEF Logout, LogoutAll
    <3>2. Kept
      BY <3>1 DEF Answer, TypeOK
    <3>3. QED
      BY <3>1, <3>2, RevokedWasLive, ReachesStays
  <2>5. ASSUME NEW h \in Handler, RevokeAllOtherSessions(h) \/ \E t \in Session : RevokeSession(h, t)
        PROVE  Reaches(b, s)'
    <3>1. /\ UNCHANGED <<age, cookie, raced, losses>>
          /\ op[h] = "act" /\ End(h) /\ \E S : state' = Revoked(S)
      BY <2>5 DEF RevokeAllOtherSessions, RevokeSession
    <3>2. Kept
      BY <3>1 DEF End, TypeOK
    <3>3. QED
      BY <3>1, <3>2, RevokedWasLive, ReachesStays
  <2>6. ASSUME NEW h \in Handler, Fail(h)
        PROVE  Reaches(b, s)'
    <3>1. op[h] \in {"refresh", "act"} /\ End(h) /\ UNCHANGED <<state, age, cookie, raced, losses>>
      BY <2>6 DEF Fail, rows
    <3>2. Kept
      BY <3>1 DEF End, TypeOK
    <3>3. QED
      BY <3>1, <3>2, ReachesStays
  <2>7. ASSUME NEW h \in Handler, SetAuthCookies(h)
        PROVE  Reaches(b, s)'
    <3>1. /\ op[h] = "answer" /\ client[h] \in Browser /\ End(h)
          /\ UNCHANGED <<state, age, raced, losses>>
      BY <2>7 DEF SetAuthCookies, rows, TypeOK
    <3>2. CASE client[h] = b
      <4>1. cookie'[b].session = session[h] /\ cookie'[b].age = minted[h]
        BY <2>7, <3>1, <3>2 DEF SetAuthCookies, TypeOK
      <4>2. minted[h] = age[s]
        BY <3>1, <4>1 DEF Synced
      <4>3. QED
        BY <3>1, <4>1, <4>2 DEF Reaches
    <3>3. CASE client[h] # b
      <4>1. cookie'[b] = cookie[b]
        BY <2>7, <3>1, <3>3 DEF SetAuthCookies, TypeOK
      <4>2. Kept
        BY <3>1, <3>3 DEF End, TypeOK
      <4>3. QED
        BY <3>1, <4>1, <4>2, ReachesStays
    <3>4. QED
      BY <3>2, <3>3
  <2>8. ASSUME NEW h \in Handler, ClearAuthCookies(h)
        PROVE  Reaches(b, s)'
    <3>1. /\ op[h] = "clear" /\ client[h] \in Browser /\ End(h)
          /\ UNCHANGED <<state, age, raced, losses>>
      BY <2>8 DEF ClearAuthCookies, rows, TypeOK
    <3>2. client[h] # b
      BY <2>8, <3>1, ConstantsAssumption DEF ClearAuthCookies, NoCookie, NoSession, TypeOK
    <3>3. cookie'[b] = cookie[b]
      BY <2>8, <3>1, <3>2 DEF ClearAuthCookies, TypeOK
    <3>4. Kept
      BY <3>1 DEF End, TypeOK
    <3>5. QED
      BY <3>1, <3>3, <3>4, ReachesStays
  <2>9. ASSUME NEW h \in Handler, LoseAnswer(h)
        PROVE  Reaches(b, s)'
    <3>1. losses \in Nat /\ losses' = losses + 1
      BY <2>9, ConstantsAssumption DEF LoseAnswer, TypeOK
    <3>2. QED
      BY <3>1
  <2>10. CASE AdminForceLogout \/ RevokeExpired
    <3>1. UNCHANGED <<age, cookie, requests, raced, losses>> /\ \E S : state' = Revoked(S)
      BY <2>10 DEF AdminForceLogout, RevokeExpired
    <3>2. Kept
      BY <3>1 DEF requests
    <3>3. QED
      BY <3>1, <3>2, RevokedWasLive, ReachesStays
  <2>11. CASE Tick
    <3>1. UNCHANGED <<state, op, client, session, raced, losses>>
      BY <2>11 DEF Tick
    <3>2. age'[s] = Older(age[s])
      BY <2>11, <3>1 DEF Tick
    <3>3. cookie'[b] = [session |-> cookie[b].session, age |-> Older(cookie[b].age)]
             /\ cookie[b].session = s
      BY <2>11, ConstantsAssumption DEF Tick, NoCookie, NoSession
    <3>4. \A h \in Handler : op[h] = "answer" => minted'[h] = Older(minted[h])
      BY <2>11 DEF Tick
    <3>5. Reaches(b, s)
      BY <3>1, <3>3 DEF LockoutNeedsRaceOrLoss, Reaches
    <3>6. QED
      BY <3>1, <3>2, <3>3, <3>4, <3>5 DEF Reaches
  <2>12. ASSUME NEW t \in Session, CleanupRevokedSessions(t)
         PROVE  Reaches(b, s)'
    <3>1. UNCHANGED <<age, cookie, requests, raced, losses>> /\ (state'[s] = "live" => state[s] = "live")
      BY <2>12 DEF CleanupRevokedSessions, TypeOK
    <3>2. Kept
      BY <3>1 DEF requests
    <3>3. QED
      BY <3>1, <3>2, ReachesStays
  <2>13. CASE UNCHANGED vars
    BY <2>13, ReachesStays DEF vars, rows, requests
  <2>14. QED
    BY <2>1, <2>2, <2>3, <2>4, <2>5, <2>6, <2>7, <2>8, <2>9, <2>10, <2>11, <2>12, <2>13
    DEF Next, Serve
<1>3. QED
  BY <1>1, <1>2, TypeCorrect, OwnerInduction, SyncedInduction, PTL DEF Spec

-------------------------------------------------------------------------------
(***************************************************************************)
(* Progress: a session ages, step by step, until it is revoked.            *)
(***************************************************************************)
Going == [][Next]_vars /\ []TypeOK /\ []SessionsGoOn /\ WF_vars(Tick) /\ WF_vars(RevokeExpired)

Refreshing(s) == \E h \in Handler : op[h] = "refresh" /\ session[h] = s

Aged(s, n) == state[s] = "live" /\ age[s] = n

Left(s) == state[s] # "live" \/ Refreshing(s)

LEMMA AgesByTicks ==
  ASSUME NEW s \in Session, NEW n \in Nat, TypeOK, [Next]_vars, Aged(s, n), ~Tick
  PROVE  Aged(s, n)' \/ Left(s) \/ Left(s)'
<1> USE DEF TypeOK, Aged, Left
<1>1. ASSUME NEW h \in Handler, NEW b \in Browser, NEW t \in Session,
             Login(h, b, t) \/ RefreshTokenFind(h, b, t) \/ AuthenticateUser(h, b, t)
      PROVE  Aged(s, n)'
  BY <1>1 DEF Login, RefreshTokenFind, AuthenticateUser, rows
<1>2. ASSUME NEW h \in Handler, Serve(h)
      PROVE  Aged(s, n)' \/ Left(s) \/ Left(s)'
  <2>1. CASE RefreshTokenStore(h) /\ session[h] = s
    BY <2>1 DEF RefreshTokenStore, Refreshing
  <2>2. CASE RefreshTokenStore(h) /\ session[h] # s
    BY <2>2 DEF RefreshTokenStore
  <2>3. CASE ~RefreshTokenStore(h)
    BY <1>2, <2>3 DEF Serve, Logout, LogoutAll, RevokeAllOtherSessions, RevokeSession, Fail,
                      SetAuthCookies, ClearAuthCookies, LoseAnswer, rows
  <2>4. QED
    BY <2>1, <2>2, <2>3
<1>3. CASE AdminForceLogout \/ RevokeExpired \/ UNCHANGED vars
  BY <1>3 DEF AdminForceLogout, RevokeExpired, vars, rows
<1>4. ASSUME NEW t \in Session, CleanupRevokedSessions(t)
      PROVE  Aged(s, n)' \/ Left(s)'
  BY <1>4 DEF CleanupRevokedSessions
<1>5. QED
  BY <1>1, <1>2, <1>3, <1>4 DEF Next

AgesOn(s, n) == Aged(s, n) ~> Aged(s, n + 1) \/ Left(s)

LEMMA EachTickAges ==
  ASSUME NEW s \in Session, NEW n \in 0..RefreshLife
  PROVE  Going => AgesOn(s, n)
<1>1. SessionsGoOn /\ Aged(s, n) => ENABLED <<Tick>>_vars
  BY ConstantsAssumption DEF SessionsGoOn, Aged, Expired
<1>2. TypeOK /\ [Next]_vars /\ Aged(s, n)
        => \/ Aged(s, n)' /\ ~<<Tick>>_vars
           \/ Aged(s, n + 1)' \/ Left(s) \/ Left(s)'
  <2>1. TypeOK /\ Aged(s, n) /\ Tick => Aged(s, n + 1)'
    BY ConstantsAssumption DEF TypeOK, Aged, Tick, Older
  <2>2. QED
    BY <2>1, AgesByTicks
<1>3. QED
  BY <1>1, <1>2, PTL DEF Going, AgesOn

Ends(s, n) == Aged(s, RefreshLife + 1 - n) ~> Left(s)

LEMMA ExpiredSessionEnds ==
  ASSUME NEW s \in Session
  PROVE  Going => Ends(s, 0)
<1> DEFINE Old == Aged(s, RefreshLife + 1 - 0)
<1>1. SessionsGoOn /\ Old => ENABLED <<RevokeExpired>>_vars
  BY ConstantsAssumption DEF SessionsGoOn, Aged, Expired
<1>2. TypeOK /\ [Next]_vars /\ Old
        => \/ Old' /\ ~<<RevokeExpired>>_vars
           \/ Left(s) \/ Left(s)'
  <2>1. TypeOK /\ Old /\ RevokeExpired => Left(s)'
    BY ConstantsAssumption DEF TypeOK, Aged, RevokeExpired, Revoked, Expired, Left
  <2>2. TypeOK /\ Old /\ Tick => Old'
    BY ConstantsAssumption DEF TypeOK, Aged, Tick, Older
  <2>3. QED
    BY <2>1, <2>2, AgesByTicks, ConstantsAssumption
<1>3. QED
  BY <1>1, <1>2, PTL DEF Going, Ends

LEMMA YoungerEnds ==
  ASSUME NEW s \in Session, NEW n \in Nat
  PROVE  Going => (Ends(s, n) => Ends(s, n + 1))
<1> DEFINE m == RefreshLife + 1 - (n + 1)
<1>1. CASE n \in 0..RefreshLife
  <2>1. m \in 0..RefreshLife /\ m + 1 = RefreshLife + 1 - n
    BY <1>1, ConstantsAssumption
  <2> HIDE DEF m
  <2>2. Going => AgesOn(s, m)
    BY <2>1, EachTickAges
  <2>3. Aged(s, m + 1) <=> Aged(s, RefreshLife + 1 - n)
    BY <2>1
  <2>4. Aged(s, m) <=> Aged(s, RefreshLife + 1 - (n + 1))
    BY DEF m
  <2>5. QED
    BY <2>2, <2>3, <2>4, PTL DEF AgesOn, Ends
<1>2. CASE n \notin 0..RefreshLife
  <2>1. TypeOK => ~Aged(s, RefreshLife + 1 - (n + 1))
    BY <1>2, ConstantsAssumption DEF TypeOK, Aged, Age
  <2>2. QED
    BY <2>1, PTL DEF Going, Ends
<1>3. QED
  BY <1>1, <1>2

\* Induction over the natural numbers, for the formula Ends(s, _).  It holds of
\* every behaviour; it is a hypothesis because Ends is a temporal formula.
Induction(s) ==
  Ends(s, 0) /\ (\A n \in Nat : Ends(s, n) => Ends(s, n + 1)) => \A n \in Nat : Ends(s, n)

EndsSoon(s, n) == Aged(s, RefreshLife + 1 - n) => <>Left(s)

LEMMA LiveSessionEnds ==
  ASSUME NEW s \in Session
  PROVE  Going /\ []Induction(s) => (state[s] = "live" ~> Left(s))
<1>1. Going => Ends(s, 0) /\ \A n \in Nat : Ends(s, n) => Ends(s, n + 1)
  BY ExpiredSessionEnds, YoungerEnds
<1>2. Going /\ Induction(s) => \A n \in Nat : Ends(s, n)
  BY <1>1 DEF Induction
<1>3. ASSUME NEW n \in Nat
      PROVE  Ends(s, n) => EndsSoon(s, n)
  BY PTL DEF Ends, EndsSoon
<1>4. Going /\ Induction(s) => \A n \in Nat : EndsSoon(s, n)
  BY <1>2, <1>3
<1>5. TypeOK /\ state[s] = "live" /\ (\A n \in Nat : EndsSoon(s, n)) => <>Left(s)
  <2>1. ASSUME TypeOK, state[s] = "live"
        PROVE  \E n \in Nat : Aged(s, RefreshLife + 1 - n)
    <3>1. RefreshLife + 1 - age[s] \in Nat /\ RefreshLife + 1 - (RefreshLife + 1 - age[s]) = age[s]
      BY <2>1, ConstantsAssumption DEF TypeOK, Age
    <3>2. QED
      BY <2>1, <3>1 DEF Aged
  <2>2. QED
    BY <2>1 DEF EndsSoon
<1>6. QED
  BY <1>4, <1>5, PTL DEF Going

\* A session that is no longer refreshed ends: it ages until the maintenance
\* revokes it, for any lifetime of its tokens (RevokeExpired).
THEOREM AbandonedSessionEndsAlways ==
  FairSpec /\ []SessionsGoOn /\ (\A s \in Session : []Induction(s)) => AbandonedSessionEnds
<1>1. FairSpec /\ []SessionsGoOn => Going
  BY TypeCorrect, PTL DEF FairSpec, Fairness, Spec, Going
<1>2. ASSUME NEW s \in Session
      PROVE  Going /\ []Induction(s)
               => (state[s] = "live" ~> \/ state[s] # "live"
                                        \/ \E h \in Handler : op[h] = "refresh" /\ session[h] = s)
  BY LiveSessionEnds, PTL DEF Left, Refreshing
<1>3. QED
  BY <1>1, <1>2 DEF AbandonedSessionEnds
===============================================================================
