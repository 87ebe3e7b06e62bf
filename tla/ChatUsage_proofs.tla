---------------------------- MODULE ChatUsage_proofs ----------------------------
(***************************************************************************)
(* Proofs about ChatUsage, for any conversations, any number of requests   *)
(* and any limits.                                                         *)
(***************************************************************************)
EXTENDS ChatUsage, FiniteSetTheorems, TLAPS

(***************************************************************************)
(* Types.                                                                  *)
(***************************************************************************)
LEMMA GotoTypes ==
  ASSUME TypeOK, NEW r \in Request, pc[r] \in {"charge", "insert"},
         NEW what \in {"insert", "count"}, Goto(r, what), widgets' = widgets
  PROVE  RequestsOK'
BY ConstantsAssumption DEF Goto, TypeOK, RequestsOK

LEMMA EndTypes ==
  ASSUME TypeOK, NEW r \in Request, End(r), widgets' = widgets
  PROVE  RequestsOK'
<1>1. /\ pc' \in [Request -> {"idle", "open", "charge", "insert", "count"}]
      /\ on' \in [Request -> Conversation \cup {NoConversation}]
  BY DEF End, TypeOK, RequestsOK
<1>2. via' \in [Request -> 0..widgets']
  BY DEF End, TypeOK, RequestsOK, AccountOK
<1>3. QED
  BY <1>1, <1>2 DEF End, TypeOK, RequestsOK

LEMMA WritesSomewhere ==
  ASSUME TypeOK, NEW r \in Request, pc[r] \in {"charge", "insert", "count"}
  PROVE  on[r] \in Conversation
BY DEF TypeOK, RequestsOK

LEMMA OpenTypes ==
  ASSUME TypeOK, NEW r \in Request, NEW w \in {0, widget}, NEW next \in {"charge", "insert"},
         Open(r, w, next), next = "charge" => via[r] = 0
  PROVE  TypeOK'
<1>1. PICK c \in Conversation :
        /\ state' = [state EXCEPT ![c] = "live"]
        /\ by' = [by EXCEPT ![c] = IF by[c] = 0 THEN w ELSE by[c]]
        /\ on' = [on EXCEPT ![r] = c]
  BY DEF Open
<1>2. /\ pc' = [pc EXCEPT ![r] = next]
      /\ UNCHANGED <<turns, count, used, limit, widget, widgets, via>>
  BY DEF Open, account, site
<1>3. ConversationsOK'
  BY <1>1, <1>2 DEF TypeOK, ConversationsOK
<1>4. RequestsOK'
  BY <1>1, <1>2, ConstantsAssumption DEF TypeOK, RequestsOK
<1>5. HistoryOK'
  BY ConstantsAssumption DEF Open, TypeOK, HistoryOK
<1>6. QED
  BY <1>2, <1>3, <1>4, <1>5 DEF TypeOK, AccountOK

LEMMA AnswerTypes ==
  ASSUME TypeOK, NEW r \in Request, Answer(r)
  PROVE  RequestsOK' /\ AccountOK' /\ answered' \in Nat
<1>1. RequestsOK'
  BY EndTypes DEF Answer, site
<1>2. QED
  BY <1>1 DEF Answer, account, site, TypeOK, AccountOK, HistoryOK

\* The conversations, requests, account and histories keep their shape, and no
\* conversation refers to a widget that was deleted.
THEOREM TypeCorrect == Spec => []TypeOK
<1>1. Init => TypeOK
  BY ConstantsAssumption
     DEF Init, TypeOK, ConversationsOK, RequestsOK, AccountOK, HistoryOK, Limit
<1>2. TypeOK /\ [Next]_vars => TypeOK'
  <2> SUFFICES ASSUME TypeOK, [Next]_vars PROVE TypeOK'
    OBVIOUS
  <2>1. ASSUME NEW r \in Request, OpenChat(r) PROVE TypeOK'
    <3>1. via[r] = 0
      BY <2>1 DEF OpenChat, TypeOK, RequestsOK
    <3>2. QED
      BY <2>1, <3>1, OpenTypes DEF OpenChat
  <2>2. ASSUME NEW r \in Request, LookUpWidget(r) PROVE TypeOK'
    <3>1. RequestsOK'
      BY <2>2 DEF LookUpWidget, site, TypeOK, RequestsOK, AccountOK
    <3>2. QED
      BY <2>2, <3>1 DEF LookUpWidget, conversations, account, site, history,
           TypeOK, ConversationsOK, AccountOK, HistoryOK
  <2>3. ASSUME NEW r \in Request, OpenPublic(r) PROVE TypeOK'
    BY <2>3, OpenTypes DEF OpenPublic
  <2>4. ASSUME NEW r \in Request, RefusePublic(r) \/ RefuseCharge(r) \/ InsertNothing(r)
        PROVE  TypeOK'
    <3>1. End(r) /\ UNCHANGED <<conversations, account, site, history>>
      BY <2>4 DEF RefusePublic, RefuseCharge, InsertNothing
    <3>2. RequestsOK'
      BY <3>1, EndTypes DEF site
    <3>3. QED
      BY <3>1, <3>2 DEF conversations, account, site, history,
           TypeOK, ConversationsOK, AccountOK, HistoryOK
  <2>5. ASSUME NEW r \in Request, Charge(r) PROVE TypeOK'
    <3>1. RequestsOK'
      BY <2>5, GotoTypes DEF Charge, site
    <3>2. QED
      BY <2>5, <3>1 DEF Charge, conversations, site, history,
           TypeOK, ConversationsOK, AccountOK, HistoryOK
  <2>6. ASSUME NEW r \in Request, ChargeFails(r) PROVE TypeOK'
    <3>1. RequestsOK'
      BY <2>6, EndTypes DEF ChargeFails, site
    <3>2. HistoryOK'
      BY <2>6, ConstantsAssumption DEF ChargeFails, Mishap, TypeOK, HistoryOK
    <3>3. AccountOK'
      BY <2>6 DEF ChargeFails, site, TypeOK, AccountOK
    <3>4. QED
      BY <2>6, <3>1, <3>2, <3>3 DEF ChargeFails, conversations, site, TypeOK, ConversationsOK
  <2>7. ASSUME NEW r \in Request, InsertTurn(r) PROVE TypeOK'
    <3>1. RequestsOK'
      BY <2>7, GotoTypes DEF InsertTurn, site
    <3>2. on[r] \in Conversation
      BY <2>7, WritesSomewhere DEF InsertTurn
    <3>3. ConversationsOK'
      BY <2>7, <3>2 DEF InsertTurn, site, TypeOK, ConversationsOK
    <3>4. QED
      BY <2>7, <3>1, <3>3 DEF InsertTurn, account, site, history, TypeOK, AccountOK, HistoryOK
  <2>8. ASSUME NEW r \in Request, InsertFails(r) PROVE TypeOK'
    <3>1. RequestsOK'
      BY <2>8, GotoTypes DEF InsertFails, site
    <3>2. on[r] \in Conversation
      BY <2>8, WritesSomewhere DEF InsertFails
    <3>3. turns' = turns \/ turns' = [turns EXCEPT ![on[r]] = turns[on[r]] + 1]
      BY <2>8 DEF InsertFails
    <3>4. ConversationsOK'
      BY <2>8, <3>2, <3>3 DEF InsertFails, site, TypeOK, ConversationsOK
    <3>5. HistoryOK'
      BY <2>8, <3>2, ConstantsAssumption DEF InsertFails, Mishap, TypeOK, HistoryOK
    <3>6. QED
      BY <2>8, <3>1, <3>4, <3>5 DEF InsertFails, account, site, TypeOK, AccountOK
  <2>9. ASSUME NEW r \in Request, Answer(r) PROVE Counted(r) \in [Conversation -> Nat]
    <3>1. on[r] \in Conversation
      BY <2>9, WritesSomewhere DEF Answer
    <3>2. QED
      BY <3>1 DEF Counted, TypeOK, ConversationsOK
  <2>10. ASSUME NEW r \in Request, CountTurn(r) PROVE TypeOK'
    <3>1. ConversationsOK'
      BY <2>9, <2>10 DEF CountTurn, Answer, site, TypeOK, ConversationsOK
    <3>2. HistoryOK'
      BY <2>10, AnswerTypes DEF CountTurn, Answer, TypeOK, HistoryOK
    <3>3. QED
      BY <2>10, <3>1, <3>2, AnswerTypes DEF CountTurn, TypeOK
  <2>11. ASSUME NEW r \in Request, CountFails(r) PROVE TypeOK'
    <3>1. on[r] \in Conversation
      BY <2>11, WritesSomewhere DEF CountFails, Answer
    <3>2. ConversationsOK'
      BY <2>9, <2>11 DEF CountFails, Answer, site, TypeOK, ConversationsOK
    <3>3. mishaps' \in 0..MaxMishaps /\ disturbed' \in SUBSET Conversation
      BY <2>11, <3>1, ConstantsAssumption DEF CountFails, Mishap, TypeOK, HistoryOK
    <3>4. HistoryOK'
      BY <2>11, <3>3, AnswerTypes DEF CountFails, Answer, TypeOK, HistoryOK
    <3>5. QED
      BY <2>11, <3>2, <3>4, AnswerTypes DEF CountFails, TypeOK
  <2>12. ASSUME NEW D, Clear(D) PROVE TypeOK'
    BY <2>12 DEF Clear, account, site, requests, history,
         TypeOK, ConversationsOK, RequestsOK, AccountOK, HistoryOK
  <2>13. CASE DeleteWidget
    <3>1. ConversationsOK'
      BY <2>13 DEF DeleteWidget, Unlinked, TypeOK, ConversationsOK
    <3>2. HistoryOK'
      BY <2>13 DEF DeleteWidget, TypeOK, HistoryOK
    <3>3. AccountOK' /\ RequestsOK'
      BY <2>13 DEF DeleteWidget, account, requests, TypeOK, AccountOK, RequestsOK
    <3>4. QED
      BY <3>1, <3>2, <3>3 DEF TypeOK
  <2>14. CASE EnsureWidget
    <3>1. AccountOK' /\ RequestsOK'
      BY <2>14 DEF EnsureWidget, account, requests, TypeOK, AccountOK, RequestsOK
    <3>2. QED
      BY <2>14, <3>1 DEF EnsureWidget, conversations, history, TypeOK, ConversationsOK, HistoryOK
  <2>15. CASE AdminResetUsage
    BY <2>15 DEF AdminResetUsage, conversations, site, requests,
         TypeOK, ConversationsOK, RequestsOK, AccountOK, HistoryOK
  <2>16. CASE AdminSetPlan
    <3>1. limit' \in Limit /\ allowed' \in Limit
      BY <2>16, ConstantsAssumption DEF AdminSetPlan, Limit, TypeOK, HistoryOK
    <3>2. QED
      BY <2>16, <3>1 DEF AdminSetPlan, conversations, site, requests,
           TypeOK, ConversationsOK, RequestsOK, AccountOK, HistoryOK
  <2>17. CASE Crash
    <3>1. HistoryOK'
      BY <2>17, ConstantsAssumption DEF Crash, Mishap, TypeOK, HistoryOK
    <3>2. RequestsOK'
      BY <2>17 DEF Crash, site, TypeOK, RequestsOK, AccountOK
    <3>3. QED
      BY <2>17, <3>1, <3>2 DEF Crash, conversations, account, site,
           TypeOK, ConversationsOK, AccountOK
  <2>18. CASE UNCHANGED vars
    BY <2>18 DEF vars, conversations, account, site, requests, history,
         TypeOK, ConversationsOK, RequestsOK, AccountOK, HistoryOK
  <2>19. QED
    BY <2>1, <2>2, <2>3, <2>4, <2>5, <2>6, <2>7, <2>8, <2>10, <2>11, <2>12, <2>13, <2>14,
       <2>15, <2>16, <2>17, <2>18
       DEF Next, Serve, ClearChatSession, ClearUserSessions
<1>3. QED
  BY <1>1, <1>2, PTL DEF Spec

(***************************************************************************)
(* Clearing.                                                               *)
(***************************************************************************)

\* A cleared conversation stays cleared and takes no message from the requests
\* that were under way.
THEOREM ClearedStays == Spec => ClearedIsFinal
<1> DEFINE Final == \A c \in Conversation :
              state[c] = "cleared" => /\ state'[c] = "cleared"
                                      /\ turns'[c] = turns[c] /\ count'[c] = count[c]
<1>1. TypeOK /\ [Next]_vars => Final
  <2> SUFFICES ASSUME TypeOK, [Next]_vars, NEW c \in Conversation, state[c] = "cleared"
               PROVE  state'[c] = "cleared" /\ turns'[c] = turns[c] /\ count'[c] = count[c]
    OBVIOUS
  <2> DEFINE Goal == state'[c] = "cleared" /\ turns'[c] = turns[c] /\ count'[c] = count[c]
  <2>1. ASSUME NEW r \in Request, NEW w, NEW next, Open(r, w, next) PROVE Goal
    <3>1. PICK b \in Conversation : Openable(b, w) /\ state' = [state EXCEPT ![b] = "live"]
      BY <2>1 DEF Open
    <3>2. b # c
      BY <3>1 DEF Openable, Writable
    <3>3. QED
      BY <2>1, <3>1, <3>2 DEF Open, TypeOK, ConversationsOK
  <2>2. ASSUME NEW r \in Request, InsertTurn(r) \/ InsertFails(r) PROVE Goal
    <3>1. turns' = turns \/ (Writable(on[r], via[r]) /\ turns' = [turns EXCEPT ![on[r]] = turns[on[r]] + 1])
      BY <2>2 DEF InsertTurn, InsertFails
    <3>2. QED
      BY <2>2, <3>1 DEF InsertTurn, InsertFails, Writable, TypeOK, ConversationsOK
  <2>3. ASSUME NEW r \in Request, CountTurn(r) \/ CountFails(r) PROVE Goal
    <3>1. count' \in {count, Counted(r)} /\ UNCHANGED <<state, turns>>
      BY <2>3 DEF CountTurn, CountFails, Answer
    <3>2. Counted(r)[c] = count[c]
      BY DEF Counted, Writable, TypeOK, ConversationsOK
    <3>3. QED
      BY <3>1, <3>2
  <2>4. ASSUME NEW r \in Request, Serve(r) PROVE Goal
    BY <2>1, <2>2, <2>3, <2>4 DEF Serve, OpenChat, OpenPublic, LookUpWidget, RefusePublic,
         Charge, RefuseCharge, ChargeFails, InsertNothing, conversations
  <2>5. ASSUME NEW D, Clear(D) PROVE Goal
    BY <2>5 DEF Clear
  <2>6. CASE DeleteWidget \/ EnsureWidget \/ AdminResetUsage \/ AdminSetPlan \/ Crash
    BY <2>6 DEF DeleteWidget, EnsureWidget, AdminResetUsage, AdminSetPlan, Crash, conversations
  <2>7. CASE UNCHANGED vars
    BY <2>7 DEF vars, conversations
  <2>8. QED
    BY <2>4, <2>5, <2>6, <2>7 DEF Next, ClearChatSession, ClearUserSessions
<1>2. QED
  BY <1>1, TypeCorrect, PTL DEF Spec, ClearedIsFinal

(***************************************************************************)
(* The limit: what was answered and what was charged share a budget.       *)
(***************************************************************************)
LEMMA ChargedIsFinite ==
  /\ IsFiniteSet(Charged) /\ Cardinality(Charged) \in Nat
  /\ IsFiniteSet(Charged') /\ Cardinality(Charged') \in Nat
  /\ Cardinality(Charged') <= Cardinality(Request) /\ Cardinality(Request) \in Nat
<1>1. Charged \subseteq Request /\ Charged' \subseteq Request
  BY DEF Charged
<1>2. QED
  BY <1>1, ConstantsAssumption, FS_Subset, FS_CardinalityType

LEMMA FewerChargedKeepSpent ==
  ASSUME TypeOK, Spent, Charged' \subseteq Charged, answered' = answered,
         used' \in {used, used + 1}
  PROVE  Spent'
<1>1. Cardinality(Charged') <= Cardinality(Charged)
  BY ChargedIsFinite, FS_Subset
<1>2. QED
  BY <1>1, ChargedIsFinite DEF Spent, TypeOK, AccountOK, HistoryOK

LEMMA ServeKeepsSpent ==
  ASSUME TypeOK, Spent, NEW r \in Request, Serve(r)
  PROVE  Spent'
<1>1. CASE OpenChat(r)
  <2>1. Charged' \subseteq Charged /\ answered' = answered /\ used' = used
    BY <1>1 DEF OpenChat, Open, Charged, account, TypeOK, RequestsOK
  <2>2. QED
    BY <2>1, FewerChargedKeepSpent
<1>2. CASE OpenPublic(r)
  <2>1. Charged' \subseteq Charged /\ answered' = answered /\ used' = used
    BY <1>2 DEF OpenPublic, Open, Charged, account, TypeOK, RequestsOK
  <2>2. QED
    BY <2>1, FewerChargedKeepSpent
<1>3. CASE LookUpWidget(r)
  <2>1. Charged' \subseteq Charged /\ answered' = answered /\ used' = used
    BY <1>3 DEF LookUpWidget, Charged, account, history, TypeOK, RequestsOK
  <2>2. QED
    BY <2>1, FewerChargedKeepSpent
<1>4. CASE RefusePublic(r) \/ RefuseCharge(r) \/ InsertNothing(r) \/ ChargeFails(r)
  <2>1. End(r) /\ answered' = answered /\ used' \in {used, used + 1}
    BY <1>4 DEF RefusePublic, RefuseCharge, InsertNothing, ChargeFails, account, history
  <2>2. Charged' \subseteq Charged
    BY <2>1 DEF End, Charged, TypeOK, RequestsOK
  <2>3. QED
    BY <2>1, <2>2, FewerChargedKeepSpent
<1>5. CASE Charge(r)
  <2>1. /\ pc[r] = "charge" /\ used' = used + 1 /\ answered' = answered
        /\ pc' = [pc EXCEPT ![r] = "insert"] /\ via' = via
    BY <1>5 DEF Charge, Goto, history
  <2>2. Charged' \subseteq Charged \cup {r} /\ r \notin Charged
    BY <2>1 DEF Charged, TypeOK, RequestsOK
  <2>3. IsFiniteSet(Charged \cup {r}) /\ Cardinality(Charged \cup {r}) = Cardinality(Charged) + 1
    BY <2>2, ChargedIsFinite, FS_AddElement
  <2>4. Cardinality(Charged') <= Cardinality(Charged) + 1
    BY <2>2, <2>3, FS_Subset
  <2>5. QED
    BY <2>1, <2>4, ChargedIsFinite DEF Spent, TypeOK, AccountOK, HistoryOK
<1>6. CASE InsertTurn(r) \/ InsertFails(r)
  <2>1. /\ pc[r] = "insert" /\ used' = used /\ answered' = answered
        /\ pc' = [pc EXCEPT ![r] = "count"] /\ via' = via
    BY <1>6 DEF InsertTurn, InsertFails, Goto, account, history
  <2>2. Charged' \subseteq Charged
    BY <2>1 DEF Charged, TypeOK, RequestsOK
  <2>3. QED
    BY <2>1, <2>2, FewerChargedKeepSpent
<1>7. CASE Answer(r)
  <2>1. pc[r] = "count" /\ End(r) /\ used' = used
    BY <1>7 DEF Answer, account
  <2>2. CASE via[r] = 0
    <3>1. answered' = answered + 1
      BY <1>7, <2>2 DEF Answer
    <3>2. Charged' \subseteq Charged \ {r} /\ r \in Charged
      BY <2>1, <2>2 DEF End, Charged, TypeOK, RequestsOK
    <3>3. IsFiniteSet(Charged \ {r}) /\ Cardinality(Charged \ {r}) = Cardinality(Charged) - 1
      BY <3>2, ChargedIsFinite, FS_RemoveElement
    <3>4. Cardinality(Charged') <= Cardinality(Charged) - 1
      BY <3>2, <3>3, FS_Subset
    <3>5. QED
      BY <2>1, <3>1, <3>4, ChargedIsFinite DEF Spent, TypeOK, AccountOK, HistoryOK
  <2>3. CASE via[r] # 0
    <3>1. answered' = answered
      BY <1>7, <2>3 DEF Answer
    <3>2. Charged' \subseteq Charged
      BY <2>1 DEF End, Charged, TypeOK, RequestsOK
    <3>3. QED
      BY <2>1, <3>1, <3>2, FewerChargedKeepSpent
  <2>4. QED
    BY <2>2, <2>3
<1>8. QED
  BY <1>1, <1>2, <1>3, <1>4, <1>5, <1>6, <1>7 DEF Serve, CountTurn, CountFails

LEMMA ServeKeepsCapped ==
  ASSUME TypeOK, Capped, NEW r \in Request, Serve(r)
  PROVE  Capped'
<1>1. limit' = limit /\ allowed' = allowed
  BY DEF Serve, OpenChat, LookUpWidget, OpenPublic, RefusePublic, Charge, RefuseCharge, ChargeFails,
     InsertTurn, InsertNothing, InsertFails, CountTurn, CountFails, Open, Answer, account, history
<1>2. used' = used \/ (Affordable /\ used' = used + 1)
  BY DEF Serve, OpenChat, LookUpWidget, OpenPublic, RefusePublic, Charge, RefuseCharge, ChargeFails,
     InsertTurn, InsertNothing, InsertFails, CountTurn, CountFails, Open, Answer, account
<1>3. allowed \in Nat \cup {NoLimit} /\ limit \in Nat \cup {NoLimit} /\ used \in Nat
  BY DEF TypeOK, AccountOK, HistoryOK, Limit
<1>4. QED
  BY <1>1, <1>2, <1>3 DEF Capped, Affordable

\* Between two resets the dashboard gets at most the highest limit in force, and
\* an answer for each request that the reset found under way.
THEOREM LimitHolds == Spec => []AnswersAreLimited
<1>1. Init => Spent /\ Capped
  <2> SUFFICES ASSUME Init PROVE Spent /\ Capped
    OBVIOUS
  <2>1. Charged = {}
    BY DEF Init, Charged
  <2>2. Cardinality(Charged) = 0
    BY <2>1, FS_EmptySet
  <2>3. limit \in Nat \cup {NoLimit} /\ allowed = limit /\ used = 0 /\ answered = 0
    BY ConstantsAssumption DEF Init
  <2>4. QED
    BY <2>2, <2>3, ChargedIsFinite DEF Spent, Capped
<1>2. TypeOK /\ Spent /\ Capped /\ [Next]_vars => Spent' /\ Capped'
  <2> SUFFICES ASSUME TypeOK, Spent, Capped, [Next]_vars PROVE Spent' /\ Capped'
    OBVIOUS
  <2>1. ASSUME UNCHANGED <<used, limit, requests, answered, allowed>> PROVE Spent' /\ Capped'
    BY <2>1 DEF requests, Spent, Capped, Charged
  <2>2. ASSUME NEW D, Clear(D) PROVE Spent' /\ Capped'
    BY <2>1, <2>2 DEF Clear, account, history
  <2>3. CASE DeleteWidget \/ EnsureWidget \/ UNCHANGED vars
    BY <2>1, <2>3 DEF DeleteWidget, EnsureWidget, account, history, vars
  <2>4. CASE AdminResetUsage
    <3>1. used' = 0 /\ answered' = 0 /\ allowed' = limit /\ limit' = limit
      BY <2>4 DEF AdminResetUsage
    <3>2. limit \in Nat \cup {NoLimit}
      BY DEF TypeOK, AccountOK, Limit
    <3>3. QED
      BY <3>1, <3>2, ChargedIsFinite DEF Spent, Capped
  <2>5. CASE AdminSetPlan
    <3>1. Spent'
      BY <2>5 DEF AdminSetPlan, requests, Spent, Charged
    <3>2. /\ limit' \in Nat \cup {NoLimit} /\ used' = used
          /\ allowed' = IF limit' = NoLimit \/ (allowed # NoLimit /\ allowed < limit')
                        THEN limit' ELSE allowed
      BY <2>5, ConstantsAssumption DEF AdminSetPlan
    <3>3. allowed \in Nat \cup {NoLimit} /\ used \in Nat
      BY DEF TypeOK, AccountOK, HistoryOK, Limit
    <3>4. Capped'
      BY <3>2, <3>3 DEF Capped
    <3>5. QED
      BY <3>1, <3>4
  <2>6. CASE Crash
    <3>1. Charged' = {} /\ UNCHANGED <<used, limit, answered, allowed>>
      BY <2>6 DEF Crash, Charged, account
    <3>2. Spent'
      BY <3>1, FewerChargedKeepSpent
    <3>3. QED
      BY <3>1, <3>2 DEF Capped
  <2>7. QED
    BY <2>2, <2>3, <2>4, <2>5, <2>6, ServeKeepsSpent, ServeKeepsCapped
       DEF Next, ClearChatSession, ClearUserSessions
<1>3. TypeOK /\ Spent /\ Capped => AnswersAreLimited
  <2> SUFFICES ASSUME TypeOK, Spent, Capped, allowed # NoLimit
               PROVE  answered <= allowed + Cardinality(Request)
    BY DEF AnswersAreLimited
  <2>1. allowed \in Nat /\ used \in Nat /\ answered \in Nat
    BY DEF TypeOK, AccountOK, HistoryOK, Limit
  <2>2. QED
    BY <2>1, ChargedIsFinite DEF Spent, Capped
<1>4. QED
  BY <1>1, <1>2, <1>3, TypeCorrect, PTL DEF Spec

(***************************************************************************)
(* The count of a conversation.                                            *)
(***************************************************************************)
CountInv == AbsentUntouched /\ VisitorsKnown /\ LiveCountAgrees

LEMMA CountingIsFinite ==
  ASSUME NEW c \in Conversation
  PROVE  /\ IsFiniteSet(Counting(c)) /\ Cardinality(Counting(c)) \in Nat
         /\ IsFiniteSet((Counting(c))') /\ Cardinality((Counting(c))') \in Nat
<1>1. Counting(c) \subseteq Request /\ (Counting(c))' \subseteq Request
  BY DEF Counting
<1>2. QED
  BY <1>1, ConstantsAssumption, FS_Subset, FS_CardinalityType

\* A request that neither counted nor will leaves the others' counting alone.
LEMMA CountingStays ==
  ASSUME TypeOK, NEW r \in Request, pc[r] # "count", pc'[r] # "count",
         \A q \in Request : q # r => pc'[q] = pc[q] /\ on'[q] = on[q],
         NEW c \in Conversation
  PROVE  (Counting(c))' = Counting(c)
BY DEF Counting

LEMMA OpenKeepsCount ==
  ASSUME TypeOK, CountInv, NEW r \in Request, pc[r] \in {"idle", "open"}, NEW w \in {0, widget},
         NEW next \in {"charge", "insert"}, via[r] = w, Open(r, w, next)
  PROVE  CountInv'
<1>1. PICK c \in Conversation :
        /\ Openable(c, w)
        /\ state' = [state EXCEPT ![c] = "live"]
        /\ by' = [by EXCEPT ![c] = IF by[c] = 0 THEN w ELSE by[c]]
        /\ on' = [on EXCEPT ![r] = c]
  BY DEF Open
<1>2. /\ pc' = [pc EXCEPT ![r] = next]
      /\ UNCHANGED <<turns, count, via, disturbed>>
  BY DEF Open
<1>3. pc'[r] = next /\ \A q \in Request : q # r => pc'[q] = pc[q] /\ on'[q] = on[q]
  BY <1>1, <1>2 DEF TypeOK, RequestsOK
<1>4. AbsentUntouched'
  <2> SUFFICES ASSUME NEW d \in Conversation, state'[d] = "absent"
               PROVE  /\ turns'[d] = 0 /\ count'[d] = 0 /\ by'[d] = 0
                      /\ \A q \in Request : on'[q] # d
    BY DEF AbsentUntouched
  <2>1. d # c /\ state[d] = "absent"
    BY <1>1 DEF TypeOK, ConversationsOK
  <2>2. QED
    BY <1>1, <1>2, <2>1 DEF CountInv, AbsentUntouched, TypeOK, ConversationsOK, RequestsOK
<1>5. VisitorsKnown'
  <2> SUFFICES ASSUME NEW q \in Request, pc'[q] \in {"insert", "count"}, via'[q] # 0
               PROVE  by'[on'[q]] = via'[q] \/ on'[q] \in disturbed'
    BY DEF VisitorsKnown
  <2>1. CASE q = r
    <3>1. on'[q] = c /\ via'[q] = w /\ w # 0
      BY <1>1, <1>2, <2>1 DEF TypeOK, RequestsOK
    <3>2. by[c] \in {0, w}
      BY <1>1, <3>1 DEF Openable, Writable, CountInv, AbsentUntouched
    <3>3. by'[c] = w
      BY <1>1, <3>1, <3>2 DEF TypeOK, ConversationsOK
    <3>4. QED
      BY <3>1, <3>3
  <2>2. CASE q # r
    <3>1. pc'[q] = pc[q] /\ on'[q] = on[q] /\ via'[q] = via[q]
      BY <1>2, <1>3, <2>2
    <3>2. by[on[q]] = via[q] \/ on[q] \in disturbed
      BY <3>1 DEF CountInv, VisitorsKnown
    <3>3. on[q] \in Conversation
      BY <3>1, WritesSomewhere
    <3>4. by[on[q]] = via[q] => by'[on[q]] = via[q]
      BY <1>1, <3>1, <3>3 DEF TypeOK, ConversationsOK
    <3>5. QED
      BY <1>2, <3>1, <3>2, <3>4
  <2>3. QED
    BY <2>1, <2>2
<1>6. LiveCountAgrees'
  <2> SUFFICES ASSUME NEW d \in Conversation, state'[d] = "live", d \notin disturbed'
               PROVE  turns'[d] = count'[d] + Cardinality((Counting(d))')
    BY DEF LiveCountAgrees
  <2>1. (Counting(d))' = Counting(d)
    BY <1>3, CountingStays
  <2>2. CASE state[d] = "live"
    BY <1>2, <2>1, <2>2 DEF CountInv, LiveCountAgrees
  <2>3. CASE state[d] # "live"
    <3>1. d = c /\ state[c] = "absent"
      BY <1>1, <2>3 DEF Openable, Writable, TypeOK, ConversationsOK
    <3>2. turns[d] = 0 /\ count[d] = 0 /\ Counting(d) = {}
      BY <3>1 DEF CountInv, AbsentUntouched, Counting
    <3>3. QED
      BY <1>2, <2>1, <3>2, FS_EmptySet
  <2>4. QED
    BY <2>2, <2>3
<1>7. QED
  BY <1>4, <1>5, <1>6 DEF CountInv

\* Steps that write to no conversation and leave the counting requests alone.
LEMMA OthersKeepCount ==
  ASSUME TypeOK, CountInv, NEW r \in Request, pc[r] # "count",
         pc'[r] # "count", on'[r] \in {on[r], NoConversation},
         pc'[r] = "insert" /\ via'[r] # 0 => pc[r] = "insert" /\ on'[r] = on[r] /\ via'[r] = via[r],
         \A q \in Request : q # r => pc'[q] = pc[q] /\ on'[q] = on[q] /\ via'[q] = via[q],
         UNCHANGED conversations, disturbed' = disturbed
  PROVE  CountInv'
<1>1. AbsentUntouched'
  BY ConstantsAssumption DEF CountInv, AbsentUntouched, conversations
<1>2. VisitorsKnown'
  BY DEF CountInv, VisitorsKnown, conversations
<1>3. LiveCountAgrees'
  <2>1. \A c \in Conversation : (Counting(c))' = Counting(c)
    BY CountingStays
  <2>2. QED
    BY <2>1 DEF CountInv, LiveCountAgrees, conversations
<1>4. QED
  BY <1>1, <1>2, <1>3 DEF CountInv

LEMMA InsertKeepsCount ==
  ASSUME TypeOK, CountInv, NEW r \in Request, InsertTurn(r) \/ InsertFails(r)
  PROVE  CountInv'
<1>1. /\ pc[r] = "insert" /\ pc' = [pc EXCEPT ![r] = "count"]
      /\ UNCHANGED <<state, by, count, on, via>>
      /\ disturbed \subseteq disturbed'
  BY DEF InsertTurn, InsertFails, Goto, history
<1>2. on[r] \in Conversation
  BY <1>1, WritesSomewhere
<1>3. \/ turns' = turns
      \/ turns' = [turns EXCEPT ![on[r]] = turns[on[r]] + 1]
  BY DEF InsertTurn, InsertFails
<1>4. InsertTurn(r) \/ on[r] \in disturbed'
  BY DEF InsertFails
<1>5. AbsentUntouched'
  <2> SUFFICES ASSUME NEW d \in Conversation, state'[d] = "absent"
               PROVE  /\ turns'[d] = 0 /\ count'[d] = 0 /\ by'[d] = 0
                      /\ \A q \in Request : on'[q] # d
    BY DEF AbsentUntouched
  <2>1. d # on[r]
    BY <1>1 DEF CountInv, AbsentUntouched
  <2>2. QED
    BY <1>1, <1>2, <1>3, <2>1 DEF CountInv, AbsentUntouched, TypeOK, ConversationsOK
<1>6. VisitorsKnown'
  BY <1>1 DEF CountInv, VisitorsKnown, TypeOK, RequestsOK
<1>7. LiveCountAgrees'
  <2> SUFFICES ASSUME NEW d \in Conversation, state'[d] = "live", d \notin disturbed'
               PROVE  turns'[d] = count'[d] + Cardinality((Counting(d))')
    BY DEF LiveCountAgrees
  <2>1. turns[d] = count[d] + Cardinality(Counting(d))
    BY <1>1 DEF CountInv, LiveCountAgrees
  <2>2. CASE d = on[r]
    <3>1. turns'[d] = turns[d] + 1
      BY <1>2, <1>4, <2>2 DEF InsertTurn, TypeOK, ConversationsOK
    <3>2. (Counting(d))' = Counting(d) \cup {r} /\ r \notin Counting(d)
      BY <1>1, <2>2 DEF Counting, TypeOK, RequestsOK
    <3>3. Cardinality((Counting(d))') = Cardinality(Counting(d)) + 1
      BY <3>2, CountingIsFinite, FS_AddElement
    <3>4. QED
      BY <1>1, <2>1, <3>1, <3>3, CountingIsFinite DEF TypeOK, ConversationsOK
  <2>3. CASE d # on[r]
    <3>1. turns'[d] = turns[d]
      BY <1>2, <1>3, <2>3 DEF TypeOK, ConversationsOK
    <3>2. (Counting(d))' = Counting(d)
      BY <1>1, <2>3 DEF Counting, TypeOK, RequestsOK
    <3>3. QED
      BY <1>1, <2>1, <3>1, <3>2
  <2>4. QED
    BY <2>2, <2>3
<1>8. QED
  BY <1>5, <1>6, <1>7 DEF CountInv

LEMMA AnswerKeepsCount ==
  ASSUME TypeOK, CountInv, NEW r \in Request, CountTurn(r) \/ CountFails(r)
  PROVE  CountInv'
<1>1. /\ pc[r] = "count" /\ End(r)
      /\ UNCHANGED <<state, by, turns>>
      /\ disturbed \subseteq disturbed'
      /\ count' \in {count, Counted(r)}
      /\ count' = Counted(r) \/ on[r] \in disturbed'
  BY DEF CountTurn, CountFails, Answer
<1>2. on[r] \in Conversation
  BY <1>1, WritesSomewhere
<1>3. pc'[r] = "idle" /\ on'[r] = NoConversation
  BY <1>1 DEF End, TypeOK, RequestsOK
<1>4. \A q \in Request : q # r => pc'[q] = pc[q] /\ on'[q] = on[q] /\ via'[q] = via[q]
  BY <1>1 DEF End, TypeOK, RequestsOK
<1>5. \A d \in Conversation : d # on[r] => count'[d] = count[d]
  BY <1>1, <1>2 DEF Counted, TypeOK, ConversationsOK
<1>6. AbsentUntouched'
  <2> SUFFICES ASSUME NEW d \in Conversation, state'[d] = "absent"
               PROVE  /\ turns'[d] = 0 /\ count'[d] = 0 /\ by'[d] = 0
                      /\ \A q \in Request : on'[q] # d
    BY DEF AbsentUntouched
  <2>1. d # on[r]
    BY <1>1 DEF CountInv, AbsentUntouched
  <2>2. QED
    BY <1>1, <1>3, <1>4, <1>5, <2>1, ConstantsAssumption DEF CountInv, AbsentUntouched
<1>7. VisitorsKnown'
  BY <1>1, <1>3, <1>4 DEF CountInv, VisitorsKnown
<1>8. LiveCountAgrees'
  <2> SUFFICES ASSUME NEW d \in Conversation, state'[d] = "live", d \notin disturbed'
               PROVE  turns'[d] = count'[d] + Cardinality((Counting(d))')
    BY DEF LiveCountAgrees
  <2>1. turns[d] = count[d] + Cardinality(Counting(d))
    BY <1>1 DEF CountInv, LiveCountAgrees
  <2>2. CASE d = on[r]
    <3>1. Writable(d, via[r])
      BY <1>1, <2>2 DEF Writable, CountInv, VisitorsKnown
    <3>2. count'[d] = count[d] + 1
      BY <1>1, <1>2, <2>2, <3>1 DEF Counted, TypeOK, ConversationsOK
    <3>3. (Counting(d))' = Counting(d) \ {r} /\ r \in Counting(d)
      BY <1>1, <1>2, <1>3, <1>4, <2>2 DEF Counting
    <3>4. Cardinality((Counting(d))') = Cardinality(Counting(d)) - 1
      BY <3>3, CountingIsFinite, FS_RemoveElement
    <3>5. QED
      BY <1>1, <2>1, <3>2, <3>4, CountingIsFinite DEF TypeOK, ConversationsOK
  <2>3. CASE d # on[r]
    <3>1. (Counting(d))' = Counting(d)
      BY <1>3, <1>4, <2>3 DEF Counting
    <3>2. QED
      BY <1>1, <1>5, <2>1, <2>3, <3>1
  <2>4. QED
    BY <2>2, <2>3
<1>9. QED
  BY <1>6, <1>7, <1>8 DEF CountInv

\* A live conversation has the messages it counts, but for requests that have yet
\* to count, unless a failure or a deleted widget is to blame.
THEOREM CountsAgree == Spec => []LiveCountAgrees
<1>1. Init => CountInv
  <2> SUFFICES ASSUME Init PROVE CountInv
    OBVIOUS
  <2>1. AbsentUntouched /\ VisitorsKnown
    BY ConstantsAssumption DEF Init, AbsentUntouched, VisitorsKnown
  <2>2. LiveCountAgrees
    BY DEF Init, LiveCountAgrees
  <2>3. QED
    BY <2>1, <2>2 DEF CountInv
<1>2. TypeOK /\ CountInv /\ [Next]_vars => CountInv'
  <2> SUFFICES ASSUME TypeOK, CountInv, [Next]_vars PROVE CountInv'
    OBVIOUS
  <2>1. ASSUME NEW r \in Request, OpenChat(r) \/ OpenPublic(r) PROVE CountInv'
    BY <2>1, OpenKeepsCount DEF OpenChat, OpenPublic, TypeOK, RequestsOK
  <2>2. ASSUME NEW r \in Request,
               LookUpWidget(r) \/ RefusePublic(r) \/ Charge(r) \/ RefuseCharge(r)
               \/ ChargeFails(r) \/ InsertNothing(r)
        PROVE  CountInv'
    <3>1. UNCHANGED conversations /\ disturbed' = disturbed /\ pc[r] # "count"
      BY <2>2 DEF LookUpWidget, RefusePublic, Charge, RefuseCharge, ChargeFails, InsertNothing, history
    <3>2. \A q \in Request : q # r => pc'[q] = pc[q] /\ on'[q] = on[q] /\ via'[q] = via[q]
      BY <2>2 DEF LookUpWidget, RefusePublic, Charge, RefuseCharge, ChargeFails, InsertNothing,
           End, Goto, TypeOK, RequestsOK
    <3>3. /\ pc'[r] # "count" /\ on'[r] \in {on[r], NoConversation}
          /\ pc'[r] = "insert" => via'[r] = 0
      BY <2>2 DEF LookUpWidget, RefusePublic, Charge, RefuseCharge, ChargeFails, InsertNothing,
           End, Goto, TypeOK, RequestsOK
    <3>4. QED
      BY <3>1, <3>2, <3>3, OthersKeepCount
  <2>3. ASSUME NEW r \in Request, Serve(r) PROVE CountInv'
    BY <2>1, <2>2, <2>3, InsertKeepsCount, AnswerKeepsCount DEF Serve
  <2>4. ASSUME NEW D, Clear(D) PROVE CountInv'
    <3>1. \A c \in Conversation :
            /\ state'[c] = "absent" => state[c] = "absent"
            /\ state'[c] = "live" => state[c] = "live"
      BY <2>4 DEF Clear
    <3>2. UNCHANGED <<by, turns, count, pc, on, via, disturbed>>
      BY <2>4 DEF Clear, requests, history
    <3>3. AbsentUntouched' /\ VisitorsKnown'
      BY <3>1, <3>2 DEF CountInv, AbsentUntouched, VisitorsKnown
    <3>4. LiveCountAgrees'
      BY <3>1, <3>2 DEF CountInv, LiveCountAgrees, Counting
    <3>5. QED
      BY <3>3, <3>4 DEF CountInv
  <2>5. CASE DeleteWidget
    <3>1. /\ UNCHANGED <<state, turns, count, pc, on, via>> /\ disturbed \subseteq disturbed'
          /\ \A c \in Conversation : by'[c] \in {0, by[c]}
      BY <2>5 DEF DeleteWidget, Unlinked, requests
    <3>2. \A q \in Request : pc[q] \in {"insert", "count"} /\ via[q] # 0 => on[q] \in disturbed'
      <4> SUFFICES ASSUME NEW q \in Request, pc[q] \in {"insert", "count"}, via[q] # 0
                   PROVE  on[q] \in disturbed'
        OBVIOUS
      <4>1. on[q] \in Conversation /\ q \in Answering(on[q])
        BY WritesSomewhere DEF Answering
      <4>2. QED
        BY <2>5, <4>1 DEF DeleteWidget
    <3>3. AbsentUntouched' /\ VisitorsKnown'
      BY <3>1, <3>2 DEF CountInv, AbsentUntouched, VisitorsKnown
    <3>4. LiveCountAgrees'
      BY <3>1 DEF CountInv, LiveCountAgrees, Counting
    <3>5. QED
      BY <3>3, <3>4 DEF CountInv
  <2>6. CASE EnsureWidget \/ AdminResetUsage \/ AdminSetPlan \/ UNCHANGED vars
    <3>1. UNCHANGED <<conversations, requests, disturbed>>
      BY <2>6 DEF EnsureWidget, AdminResetUsage, AdminSetPlan, vars, history
    <3>2. QED
      BY <3>1 DEF conversations, requests, CountInv, AbsentUntouched, VisitorsKnown,
           LiveCountAgrees, Counting
  <2>7. CASE Crash
    <3>1. /\ UNCHANGED conversations
          /\ \A q \in Request : pc'[q] = "idle" /\ on'[q] = NoConversation
          /\ disturbed' = disturbed \cup {c \in Conversation : Counting(c) # {}}
      BY <2>7 DEF Crash
    <3>2. AbsentUntouched' /\ VisitorsKnown'
      BY <3>1, ConstantsAssumption DEF CountInv, AbsentUntouched, VisitorsKnown, conversations
    <3>3. \A c \in Conversation : c \notin disturbed' => Counting(c) = {} /\ (Counting(c))' = {}
      BY <3>1 DEF Counting
    <3>4. LiveCountAgrees'
      BY <3>1, <3>3 DEF CountInv, LiveCountAgrees, conversations
    <3>5. QED
      BY <3>2, <3>4 DEF CountInv
  <2>8. QED
    BY <2>3, <2>4, <2>5, <2>6, <2>7 DEF Next, ClearChatSession, ClearUserSessions
<1>3. QED
  BY <1>1, <1>2, TypeCorrect, PTL DEF Spec, CountInv
===============================================================================
