-------------------------- MODULE WidgetCache_proofs --------------------------
(***************************************************************************)
(* Proofs about WidgetCache, for any number of visitors, editors, keys and *)
(* changes, and any lifetime and timeout.                                  *)
(***************************************************************************)
EXTENDS WidgetCache, TLAPS

(***************************************************************************)
(* The cases of a step.  Two kinds of actions are told apart: those that   *)
(* change the row, and those that leave the table alone.                   *)
(***************************************************************************)
NewContent ==
  /\ content' = content + 1
  /\ content < MaxChanges
  /\ row' \in Key
  /\ row' = row \/ row' \notin drawn
  /\ drawn' = drawn \cup {row'}
  /\ UNCHANGED <<redis, visitors, behind>>
  /\ exposed \subseteq exposed'
  /\ {row} \cap InFlight \subseteq exposed'
  /\ exposed' \subseteq exposed \cup ({row} \ {NoKey})

LEMMA SaveIsNewContent ==
  ASSUME TypeOK, NEW e \in Editor, Save(e)
  PROVE  NewContent /\ row' = row /\ editing[e] = "idle"
         /\ ToInvalidate(e, {row}) /\ UNCHANGED oldKey
<1>1. row \in Key /\ row \in drawn
  BY DEF TypeOK, TableOK, Save
<1>2. QED
  BY <1>1 DEF Save, Change, NewContent

LEMMA DrawnIsNewContent ==
  ASSUME TypeOK, NEW k \in Key, NEW M \in SUBSET ({row} \ {NoKey}),
         Draw(k), Change(k, M), UNCHANGED <<redis, visitors, behind>>
  PROVE  NewContent /\ row' = k
<1>1. InFlight \subseteq Key /\ NoKey \notin Key
  BY ConstantsAssumption DEF InFlight
<1>2. QED
  BY <1>1 DEF Draw, Change, NewContent

LEMMA NewContentTypes ==
  ASSUME TypeOK, NewContent
  PROVE  TableOK' /\ RedisOK' /\ VisitorsOK' /\ HistoryOK'
<1>1. TableOK'
  BY ConstantsAssumption DEF NewContent, TypeOK, TableOK
<1>2. RedisOK'
  BY DEF NewContent, TypeOK, RedisOK, redis
<1>3. VisitorsOK'
  BY DEF NewContent, TypeOK, VisitorsOK, visitors
<1>4. HistoryOK'
  <2>1. {row} \ {NoKey} \subseteq Key
    BY DEF TypeOK, TableOK
  <2>2. QED
    BY <2>1 DEF NewContent, TypeOK, HistoryOK
<1>5. QED
  BY <1>1, <1>2, <1>3, <1>4

LEMMA ToInvalidateTypes ==
  ASSUME TypeOK, NEW e \in Editor, NEW K \in SUBSET Key, ToInvalidate(e, K),
         oldKey' \in [Editor -> Key \cup {NoKey}]
  PROVE  EditorsOK'
BY DEF ToInvalidate, TypeOK, EditorsOK

\* The rows, copies, requests and histories keep their shape under every step
\* of visitors and editors and the passing of time.
THEOREM TypeCorrect == Spec => []TypeOK
<1>1. Init => TypeOK
  <2> SUFFICES ASSUME Init PROVE TypeOK
    OBVIOUS
  <2>1. TableOK /\ EditorsOK
    BY ConstantsAssumption DEF Init, TableOK, EditorsOK
  <2>2. RedisOK
    BY ConstantsAssumption DEF Init, RedisOK
  <2>3. VisitorsOK
    BY ConstantsAssumption DEF Init, VisitorsOK
  <2>4. HistoryOK
    BY ConstantsAssumption DEF Init, HistoryOK, Bound
  <2>5. QED
    BY <2>1, <2>2, <2>3, <2>4 DEF TypeOK
<1>2. TypeOK /\ [Next]_vars => TypeOK'
  <2> SUFFICES ASSUME TypeOK, [Next]_vars PROVE TypeOK'
    OBVIOUS
  <2> USE DEF TypeOK
  <2> USE DEF table, redis, visitors, editors, history
  <2>1. ASSUME NEW v \in Visitor, NEW k \in Key, LookUp(v, k) PROVE TypeOK'
    BY <2>1 DEF LookUp, TableOK, RedisOK, VisitorsOK, EditorsOK, HistoryOK
  <2>2. ASSUME NEW v \in Visitor, ReadRow(v) PROVE TypeOK'
    <3>1. content \in 0..MaxChanges /\ content # 0
      BY <2>2, ConstantsAssumption DEF ReadRow, TableOK, VisitorsOK
    <3>2. VisitorsOK'
      BY <2>2, <3>1 DEF ReadRow, VisitorsOK
    <3>3. QED
      BY <2>2, <3>2 DEF ReadRow, TableOK, RedisOK, EditorsOK, HistoryOK
  <2>3. ASSUME NEW v \in Visitor, Answered(v) PROVE VisitorsOK'
    <3>1. 0 \in 0..Timeout + 1 /\ 0 \in 0..MaxChanges
      BY ConstantsAssumption
    <3>2. QED
      BY <2>3, <3>1 DEF Answered, VisitorsOK
  <2>4. ASSUME NEW v \in Visitor, AnswerOnly(v) PROVE TypeOK'
    BY <2>3, <2>4 DEF AnswerOnly, TableOK, RedisOK, EditorsOK, HistoryOK
  <2>5. ASSUME NEW v \in Visitor, FillCopy(v) PROVE TypeOK'
    <3>1. 0 \in 0..Lifetime /\ seen[v] \in 0..MaxChanges
      BY ConstantsAssumption DEF VisitorsOK
    <3>2. RedisOK'
      BY <2>5, <3>1 DEF FillCopy, RedisOK
    <3>3. QED
      BY <2>3, <2>5, <3>2 DEF FillCopy, TableOK, EditorsOK, HistoryOK
  <2>6. ASSUME NEW e \in Editor, Save(e) PROVE TypeOK'
    <3>1. {row} \in SUBSET Key
      BY <2>6 DEF Save, TableOK
    <3>2. EditorsOK'
      BY <2>6, <3>1, SaveIsNewContent, ToInvalidateTypes DEF EditorsOK
    <3>3. QED
      BY <2>6, <3>2, SaveIsNewContent, NewContentTypes
  <2>7. ASSUME NEW e \in Editor, CreateWidget(e), ~Save(e) PROVE TypeOK'
    <3>1. PICK k \in Key : Draw(k) /\ Change(k, {}) /\ ToInvalidate(e, {k})
      BY <2>7 DEF CreateWidget
    <3>2. UNCHANGED <<redis, visitors, oldKey, behind>>
      BY <2>7 DEF CreateWidget
    <3>3. EditorsOK'
      BY <3>1, <3>2, ToInvalidateTypes DEF EditorsOK
    <3>4. QED
      BY <3>1, <3>2, <3>3, DrawnIsNewContent, NewContentTypes
  <2>8. ASSUME EnsureWidget PROVE TypeOK'
    <3>1. PICK k \in Key : Draw(k) /\ Change(k, {})
      BY <2>8 DEF EnsureWidget
    <3>2. UNCHANGED <<redis, visitors, editors, behind>>
      BY <2>8 DEF EnsureWidget
    <3>3. EditorsOK'
      BY <3>2 DEF EditorsOK
    <3>4. QED
      BY <3>1, <3>2, <3>3, DrawnIsNewContent, NewContentTypes
  <2>9. ASSUME NEW e \in Editor, RegenerateWidgetRead(e) PROVE TypeOK'
    <3>1. row \in Key \cup {NoKey}
      BY DEF TableOK
    <3>2. EditorsOK'
      BY <2>9, <3>1 DEF RegenerateWidgetRead, EditorsOK
    <3>3. QED
      BY <2>9, <3>2 DEF RegenerateWidgetRead, TableOK, RedisOK, VisitorsOK, HistoryOK
  <2>10. ASSUME NEW e \in Editor, RegenerateWidget(e) PROVE TypeOK'
    <3>1. oldKey[e] \in Key \cup {NoKey} /\ oldKey' \in [Editor -> Key \cup {NoKey}]
      BY <2>10 DEF RegenerateWidget, EditorsOK
    <3>2. ASSUME NEW k \in Key, row # NoKey, Draw(k), Change(k, {row} \ {oldKey[e]}),
                 ToInvalidate(e, {oldKey[e], k} \ {NoKey})
          PROVE  TypeOK'
      <4>1. EditorsOK'
        <5>1. {oldKey[e], k} \ {NoKey} \in SUBSET Key
          BY <3>1
        <5>2. QED
          BY <3>1, <3>2, <5>1, ToInvalidateTypes
      <4>2. NewContent
        <5>1. {row} \ {oldKey[e]} \in SUBSET ({row} \ {NoKey})
          BY <3>2
        <5>2. QED
          BY <2>10, <3>2, <5>1, DrawnIsNewContent DEF RegenerateWidget
      <4>3. QED
        BY <4>1, <4>2, NewContentTypes
    <3>3. ASSUME NEW K \in SUBSET Key, ToInvalidate(e, K), UNCHANGED <<table, exposed>>
          PROVE  TypeOK'
      <4>1. EditorsOK'
        BY <3>1, <3>3, ToInvalidateTypes
      <4>2. QED
        BY <2>10, <3>3, <4>1 DEF RegenerateWidget, TableOK, RedisOK, VisitorsOK, HistoryOK
    <3>4. {oldKey[e]} \ {NoKey} \in SUBSET Key /\ {} \in SUBSET Key
      BY <3>1
    <3>5. QED
      BY <2>10, <3>2, <3>3, <3>4 DEF RegenerateWidget
  <2>11. ASSUME DeleteWidget PROVE TypeOK'
    BY <2>11 DEF DeleteWidget, TableOK, RedisOK, VisitorsOK, EditorsOK, HistoryOK
  <2>12. ASSUME NEW e \in Editor, NEW k \in Key, Invalidate(e, k) PROVE TypeOK'
    <3>1. EditorsOK'
      <4>1. ASSUME NEW d \in Editor
            PROVE  doomed'[d] # {} <=> editing'[d] = "invalidate"
        <5>1. CASE d # e
          BY <2>12, <5>1 DEF Invalidate, EditorsOK
        <5>2. CASE d = e
          BY <2>12, <5>2 DEF Invalidate, EditorsOK
        <5>3. QED
          BY <5>1, <5>2
      <4>2. /\ editing' \in [Editor -> {"idle", "regenerate", "invalidate"}]
            /\ doomed' \in [Editor -> SUBSET Key]
            /\ oldKey' = oldKey
        BY <2>12 DEF Invalidate, EditorsOK
      <4>3. QED
        BY <4>1, <4>2 DEF EditorsOK
    <3>2. RedisOK'
      <4>1. 0 \in 0..MaxChanges /\ 0 \in 0..Lifetime
        BY ConstantsAssumption
      <4>2. QED
        BY <2>12, <4>1 DEF Invalidate, RedisOK
    <3>3. QED
      BY <2>12, <3>1, <3>2 DEF Invalidate, TableOK, VisitorsOK, HistoryOK
  <2>13. ASSUME Tick PROVE TypeOK'
    <3>1. RedisOK'
      <4>1. copy' \in [Key -> 0..MaxChanges]
        BY <2>13, ConstantsAssumption DEF Tick, RedisOK
      <4>2. \A k \in Key : copy[k] # 0 /\ k \notin Expired => age[k] + 1 \in 0..Lifetime
        BY ConstantsAssumption DEF Expired, Outlived, RedisOK
      <4>3. age' \in [Key -> 0..Lifetime]
        BY <2>13, <4>2, ConstantsAssumption DEF Tick, RedisOK
      <4>4. QED
        BY <4>1, <4>3 DEF RedisOK
    <3>2. VisitorsOK'
      <4>1. \A v \in Visitor : waited[v] <= Timeout => waited[v] + 1 \in 0..Timeout + 1
        BY ConstantsAssumption DEF VisitorsOK
      <4>2. waited' \in [Visitor -> 0..Timeout + 1]
        BY <2>13, <4>1 DEF Tick, VisitorsOK
      <4>3. QED
        BY <2>13, <4>2 DEF Tick, VisitorsOK
    <3>3. HistoryOK'
      <4>1. \A c \in Content : behind[c] <= Bound => behind[c] + 1 \in 0..Bound + 1
        BY ConstantsAssumption DEF HistoryOK, Bound
      <4>2. behind' \in [Content -> 0..Bound + 1]
        BY <2>13, <4>1 DEF Tick, HistoryOK
      <4>3. QED
        BY <2>13, <4>2 DEF Tick, HistoryOK
    <3>4. QED
      BY <2>13, <3>1, <3>2, <3>3 DEF Tick, TableOK, EditorsOK
  <2>14. CASE UNCHANGED vars
    BY <2>14 DEF vars, TableOK, RedisOK, VisitorsOK, EditorsOK, HistoryOK
  <2>15. QED
    BY <2>1, <2>2, <2>4, <2>5, <2>6, <2>7, <2>8, <2>9, <2>10, <2>11, <2>12, <2>13, <2>14
       DEF Next, PublicWidgetConfig, Edit, UpdateWidget, UpdatePersona, UpdateBranding,
           UpdateNavigation
<1>3. QED
  BY <1>1, <1>2, PTL DEF Spec

(***************************************************************************)
(* What copies and visitors hold.                                          *)
(***************************************************************************)
Holding == KnowsItsKey /\ LateIsExposed

LEMMA NewContentHolding ==
  ASSUME TypeOK, Holding, NewContent
  PROVE  Holding'
<1>1. /\ content' = content + 1 /\ content \in Nat
      /\ UNCHANGED <<copy, serving, asked, seen>>
      /\ row' # NoKey
  BY ConstantsAssumption DEF NewContent, redis, visitors, TypeOK, TableOK
<1>2. /\ \A k \in Key : copy[k] \in Nat /\ copy[k] <= content
      /\ \A v \in Visitor : seen[v] \in Nat /\ seen[v] <= content
  BY DEF Holding, KnowsItsKey, TypeOK, RedisOK, VisitorsOK
<1>3. KnowsItsKey'
  BY <1>1, <1>2 DEF KnowsItsKey, Gone
<1>4. ASSUME NEW v \in Visitor, serving[v] = "fill"
      PROVE  asked[v] \in exposed'
  <2>1. CASE Gone(seen[v])
    BY <1>4, <2>1 DEF Holding, LateIsExposed, NewContent
  <2>2. CASE ~Gone(seen[v])
    <3>1. asked[v] = row /\ asked[v] \in Key
      BY <1>4, <2>2 DEF Holding, KnowsItsKey, TypeOK, VisitorsOK
    <3>2. asked[v] \in {row} \cap InFlight
      BY <1>4, <3>1 DEF InFlight
    <3>3. QED
      BY <3>2 DEF NewContent
  <2>3. QED
    BY <2>1, <2>2
<1>5. LateIsExposed'
  BY <1>1, <1>4 DEF LateIsExposed
<1>6. QED
  BY <1>3, <1>5 DEF Holding

LEMMA NoneLate ==
  ASSUME TypeOK, NEW k \in Key, Late(k) = {}
  PROVE  \A v \in Visitor : serving[v] = "fill" /\ Gone(seen[v]) => asked[v] # k
BY DEF Late

LEMMA DropKeepsHolding ==
  ASSUME TypeOK, Holding, UNCHANGED <<row, content, serving, asked, seen>>,
         \A k \in Key : copy'[k] = copy[k] \/ copy'[k] = 0,
         \A k \in Key : k \in exposed => k \in exposed' \/ Late(k) = {}
  PROVE  Holding'
<1>1. KnowsItsKey'
  <2>1. 0 <= content
    BY DEF TypeOK, TableOK
  <2>2. \A k \in Key : copy'[k] <= content /\ (copy'[k] # 0 /\ ~Gone(copy'[k]) => k = row)
    BY <2>1 DEF Holding, KnowsItsKey
  <2>3. QED
    BY <2>2 DEF Holding, KnowsItsKey, Gone
<1>2. LateIsExposed'
  <2>1. ASSUME NEW v \in Visitor, serving[v] = "fill", Gone(seen[v])
        PROVE  asked[v] \in exposed'
    <3>1. asked[v] \in Key /\ asked[v] \in exposed
      BY <2>1 DEF Holding, LateIsExposed, TypeOK, VisitorsOK
    <3>2. v \in Late(asked[v])
      BY <2>1 DEF Late
    <3>3. QED
      BY <3>1, <3>2
  <2>2. QED
    BY <2>1 DEF LateIsExposed, Gone
<1>3. QED
  BY <1>1, <1>2 DEF Holding

LEMMA AnsweredHolding ==
  ASSUME TypeOK, Holding, NEW v \in Visitor, Answered(v), serving[v] # "idle",
         UNCHANGED <<row, content, exposed>>,
         copy' = copy \/ (serving[v] = "fill" /\ copy' = [copy EXCEPT ![asked[v]] = seen[v]])
  PROVE  Holding'
<1>1. 0 <= content /\ asked[v] \in Key
  BY DEF TypeOK, TableOK, VisitorsOK
<1>2. \A k \in Key : copy'[k] <= content /\ (copy'[k] # 0 /\ ~Gone(copy'[k]) => k = row)
  BY <1>1 DEF Holding, KnowsItsKey, TypeOK, RedisOK
<1>3. /\ \A w \in Visitor : seen'[w] <= content
      /\ \A w \in Visitor : serving'[w] = "fill" => w # v
      /\ \A w \in Visitor : w # v => /\ serving'[w] = serving[w]
                                     /\ asked'[w] = asked[w]
                                     /\ seen'[w] = seen[w]
  BY <1>1 DEF Answered, Holding, KnowsItsKey, TypeOK, VisitorsOK
<1>4. KnowsItsKey'
  BY <1>2, <1>3 DEF Holding, KnowsItsKey, Gone
<1>5. LateIsExposed'
  BY <1>3 DEF Holding, LateIsExposed, Gone
<1>6. QED
  BY <1>4, <1>5 DEF Holding

\* What each way to change the row does, in the terms of NewContent.
LEMMA RegenerateCases ==
  ASSUME TypeOK, NEW e \in Editor, RegenerateWidget(e)
  PROVE  \/ /\ NewContent
            /\ row # NoKey
            /\ row \in doomed'[e] \/ row \in exposed'
         \/ UNCHANGED <<table, redis, visitors, exposed>>
<1>1. CASE \E k \in Key : /\ row # NoKey
                          /\ Draw(k)
                          /\ Change(k, {row} \ {oldKey[e]})
                          /\ ToInvalidate(e, {oldKey[e], k} \ {NoKey})
  <2>1. PICK k \in Key : /\ row # NoKey
                         /\ Draw(k)
                         /\ Change(k, {row} \ {oldKey[e]})
                         /\ ToInvalidate(e, {oldKey[e], k} \ {NoKey})
    BY <1>1
  <2>2. {row} \ {oldKey[e]} \in SUBSET ({row} \ {NoKey})
    BY <2>1
  <2>3. NewContent
    BY <2>1, <2>2, DrawnIsNewContent DEF RegenerateWidget
  <2>4. row \in doomed'[e] \/ row \in exposed'
    BY <2>1 DEF ToInvalidate, Change, TypeOK, EditorsOK
  <2>5. QED
    BY <2>1, <2>3, <2>4
<1>2. CASE UNCHANGED <<table, exposed>>
  BY <1>2 DEF RegenerateWidget
<1>3. QED
  BY <1>1, <1>2 DEF RegenerateWidget

LEMMA CreateCases ==
  ASSUME TypeOK, NEW e \in Editor, CreateWidget(e), ~Save(e)
  PROVE  NewContent /\ row = NoKey /\ editing[e] = "idle"
         /\ \E k \in Key : ToInvalidate(e, {k})
<1>1. PICK k \in Key : Draw(k) /\ Change(k, {}) /\ ToInvalidate(e, {k})
  BY DEF CreateWidget
<1>2. row = NoKey /\ editing[e] = "idle" /\ UNCHANGED <<redis, visitors, oldKey, behind>>
  BY DEF CreateWidget
<1>3. QED
  BY <1>1, <1>2, DrawnIsNewContent

LEMMA EnsureCases ==
  ASSUME TypeOK, EnsureWidget
  PROVE  NewContent /\ row = NoKey /\ UNCHANGED editors
<1>1. PICK k \in Key : Draw(k) /\ Change(k, {})
  BY DEF EnsureWidget
<1>2. QED
  BY <1>1, DrawnIsNewContent DEF EnsureWidget

LEMMA HoldingStep ==
  ASSUME TypeOK, Holding, [Next]_vars
  PROVE  Holding'
<1> USE DEF table, redis, visitors, editors, history
<1>1. ASSUME NEW v \in Visitor, NEW k \in Key, LookUp(v, k) PROVE Holding'
  <2>1. /\ UNCHANGED <<row, content, copy, seen, exposed>>
        /\ \A w \in Visitor : serving'[w] = "fill" =>
             serving[w] = "fill" /\ asked'[w] = asked[w]
    BY <1>1 DEF LookUp, TypeOK, VisitorsOK
  <2>2. QED
    BY <2>1 DEF Holding, KnowsItsKey, LateIsExposed, Gone
<1>2. ASSUME NEW v \in Visitor, ReadRow(v) PROVE Holding'
  <2>1. /\ UNCHANGED <<row, content, copy, asked, exposed>>
        /\ row = asked[v] /\ row # NoKey
        /\ \A w \in Visitor : w # v => serving'[w] = serving[w] /\ seen'[w] = seen[w]
        /\ seen'[v] = content
        /\ content <= content
    BY <1>2, ConstantsAssumption DEF ReadRow, TypeOK, TableOK, VisitorsOK
  <2>2. KnowsItsKey'
    BY <2>1 DEF Holding, KnowsItsKey, Gone
  <2>3. LateIsExposed'
    BY <2>1 DEF Holding, LateIsExposed, Gone
  <2>4. QED
    BY <2>2, <2>3 DEF Holding
<1>3. ASSUME NEW v \in Visitor, AnswerOnly(v) PROVE Holding'
  BY <1>3, AnsweredHolding DEF AnswerOnly
<1>4. ASSUME NEW v \in Visitor, FillCopy(v) PROVE Holding'
  BY <1>4, AnsweredHolding DEF FillCopy
<1>5. ASSUME NEW e \in Editor, Save(e) PROVE Holding'
  BY <1>5, SaveIsNewContent, NewContentHolding
<1>6. ASSUME NEW e \in Editor, CreateWidget(e), ~Save(e) PROVE Holding'
  BY <1>6, CreateCases, NewContentHolding
<1>7. ASSUME EnsureWidget PROVE Holding'
  BY <1>7, EnsureCases, NewContentHolding
<1>8. ASSUME UNCHANGED <<table, redis, visitors, exposed>> PROVE Holding'
  BY <1>8 DEF Holding, KnowsItsKey, LateIsExposed, Gone
<1>9. ASSUME NEW e \in Editor, RegenerateWidgetRead(e) PROVE Holding'
  BY <1>8, <1>9 DEF RegenerateWidgetRead
<1>10. ASSUME NEW e \in Editor, RegenerateWidget(e) PROVE Holding'
  BY <1>8, <1>10, RegenerateCases, NewContentHolding
<1>11. ASSUME DeleteWidget PROVE Holding'
  <2>1. /\ row # NoKey /\ row' = NoKey /\ exposed' = exposed \cup {row}
        /\ UNCHANGED <<content, copy, serving, asked, seen>>
    BY <1>11 DEF DeleteWidget
  <2>2. KnowsItsKey'
    BY <2>1 DEF Holding, KnowsItsKey, Gone
  <2>3. LateIsExposed'
    BY <2>1 DEF Holding, KnowsItsKey, LateIsExposed, Gone
  <2>4. QED
    BY <2>2, <2>3 DEF Holding
<1>12. ASSUME NEW e \in Editor, NEW k \in Key, Invalidate(e, k) PROVE Holding'
  <2>1. UNCHANGED <<row, content, serving, asked, seen>>
    BY <1>12 DEF Invalidate
  <2>2. \A l \in Key : copy'[l] = copy[l] \/ copy'[l] = 0
    BY <1>12 DEF Invalidate, TypeOK, RedisOK
  <2>3. \A l \in Key : l \in exposed => l \in exposed' \/ Late(l) = {}
    BY <1>12 DEF Invalidate
  <2>4. QED
    BY <2>1, <2>2, <2>3, DropKeepsHolding
<1>13. ASSUME Tick PROVE Holding'
  <2>1. UNCHANGED <<row, content, serving, asked, seen>>
    BY <1>13 DEF Tick
  <2>2. \A l \in Key : copy'[l] = copy[l] \/ copy'[l] = 0
    BY <1>13 DEF Tick
  <2>3. \A l \in Key : l \in exposed => l \in exposed' \/ Late(l) = {}
    BY <1>13 DEF Tick
  <2>4. QED
    BY <2>1, <2>2, <2>3, DropKeepsHolding
<1>14. CASE UNCHANGED vars
  BY <1>8, <1>14 DEF vars
<1>15. QED
  BY <1>1, <1>2, <1>3, <1>4, <1>5, <1>6, <1>7, <1>9, <1>10, <1>11, <1>12, <1>13, <1>14
     DEF Next, PublicWidgetConfig, Edit, UpdateWidget, UpdatePersona, UpdateBranding,
         UpdateNavigation

LEMMA HoldingInit == Init => Holding
<1> SUFFICES ASSUME Init PROVE Holding
  OBVIOUS
<1>1. KnowsItsKey
  BY DEF Init, KnowsItsKey
<1>2. LateIsExposed
  BY DEF Init, LateIsExposed
<1>3. QED
  BY <1>1, <1>2 DEF Holding

(***************************************************************************)
(* Every stale copy has a cause.                                           *)
(***************************************************************************)
Caused(k) == k \in exposed \/ \E e \in Editor : k \in doomed[e]

LEMMA NewContentCaused ==
  ASSUME TypeOK, Holding, StaleNeedsCause, NewContent,
         row = NoKey \/ row \in exposed' \/ \E e \in Editor : row \in doomed'[e],
         \A e \in Editor : doomed[e] # {} => doomed'[e] = doomed[e]
  PROVE  StaleNeedsCause'
<1>1. UNCHANGED copy /\ exposed \subseteq exposed'
  BY DEF NewContent, redis
<1>2. ASSUME NEW k \in Key, copy[k] # 0 PROVE Caused(k)'
  <2>1. CASE Gone(copy[k])
    <3>1. Caused(k)
      BY <1>2, <2>1 DEF StaleNeedsCause, Caused
    <3>2. QED
      BY <1>1, <3>1 DEF Caused
  <2>2. CASE ~Gone(copy[k])
    <3>1. k = row /\ row # NoKey
      BY <1>2, <2>2 DEF Holding, KnowsItsKey, Gone
    <3>2. QED
      BY <3>1 DEF Caused
  <2>3. QED
    BY <2>1, <2>2
<1>3. QED
  BY <1>1, <1>2 DEF StaleNeedsCause, Caused

LEMMA CausedStep ==
  ASSUME TypeOK, TypeOK', Holding, StaleNeedsCause, [Next]_vars
  PROVE  StaleNeedsCause'
<1> USE DEF table, redis, visitors, editors, history
<1>1. ASSUME UNCHANGED <<row, content, copy, doomed, exposed>> PROVE StaleNeedsCause'
  BY <1>1 DEF StaleNeedsCause, Gone
<1>2. ASSUME NEW v \in Visitor, PublicWidgetConfig(v), ~FillCopy(v) PROVE StaleNeedsCause'
  BY <1>1, <1>2 DEF PublicWidgetConfig, LookUp, ReadRow, AnswerOnly
<1>3. ASSUME NEW v \in Visitor, FillCopy(v) PROVE StaleNeedsCause'
  <2>1. /\ UNCHANGED <<row, content, doomed, exposed>>
        /\ copy' = [copy EXCEPT ![asked[v]] = seen[v]]
        /\ serving[v] = "fill"
    BY <1>3 DEF FillCopy
  <2>2. Gone(seen[v]) => asked[v] \in exposed
    BY <2>1 DEF Holding, LateIsExposed
  <2>3. QED
    BY <2>1, <2>2 DEF StaleNeedsCause, Gone, TypeOK, RedisOK
<1>4. ASSUME NEW e \in Editor, Save(e) PROVE StaleNeedsCause'
  <2>1. /\ NewContent
        /\ editing[e] = "idle"
        /\ doomed' = [doomed EXCEPT ![e] = {row}]
    BY <1>4, SaveIsNewContent DEF ToInvalidate
  <2>2. doomed[e] = {} /\ row \in doomed'[e]
    BY <2>1 DEF TypeOK, EditorsOK
  <2>3. \A d \in Editor : doomed[d] # {} => doomed'[d] = doomed[d]
    BY <2>1, <2>2 DEF TypeOK, EditorsOK
  <2>4. QED
    BY <2>1, <2>2, <2>3, NewContentCaused
<1>5. ASSUME NEW e \in Editor, CreateWidget(e), ~Save(e) PROVE StaleNeedsCause'
  <2>1. NewContent /\ row = NoKey /\ editing[e] = "idle"
    BY <1>5, CreateCases
  <2>2. PICK k \in Key : ToInvalidate(e, {k})
    BY <1>5, CreateCases
  <2>3. \A d \in Editor : doomed[d] # {} => doomed'[d] = doomed[d]
    BY <2>1, <2>2 DEF ToInvalidate, TypeOK, EditorsOK
  <2>4. QED
    BY <2>1, <2>3, NewContentCaused
<1>6. ASSUME EnsureWidget PROVE StaleNeedsCause'
  BY <1>6, EnsureCases, NewContentCaused
<1>7. ASSUME NEW e \in Editor, RegenerateWidgetRead(e) PROVE StaleNeedsCause'
  BY <1>1, <1>7 DEF RegenerateWidgetRead
<1>8. ASSUME NEW e \in Editor, RegenerateWidget(e) PROVE StaleNeedsCause'
  <2>1. doomed[e] = {}
    BY <1>8 DEF RegenerateWidget, TypeOK, EditorsOK
  <2>2. \A d \in Editor : d # e => doomed'[d] = doomed[d]
    BY <1>8 DEF RegenerateWidget, ToInvalidate, TypeOK, EditorsOK
  <2>3. CASE NewContent /\ row # NoKey /\ (row \in doomed'[e] \/ row \in exposed')
    BY <2>1, <2>2, <2>3, NewContentCaused
  <2>4. CASE UNCHANGED <<table, redis, visitors, exposed>>
    BY <2>1, <2>2, <2>4 DEF StaleNeedsCause, Gone
  <2>5. QED
    BY <1>8, <2>3, <2>4, RegenerateCases
<1>9. ASSUME DeleteWidget PROVE StaleNeedsCause'
  <2>1. /\ exposed' = exposed \cup {row}
        /\ UNCHANGED <<content, copy, doomed>>
    BY <1>9 DEF DeleteWidget
  <2>2. QED
    BY <2>1 DEF StaleNeedsCause, Gone, Holding, KnowsItsKey
<1>10. ASSUME NEW e \in Editor, NEW k \in Key, Invalidate(e, k) PROVE StaleNeedsCause'
  <2>1. /\ UNCHANGED <<row, content>>
        /\ \A d \in Editor : doomed[d] \ {k} \subseteq doomed'[d]
        /\ \A l \in Key \ {k} : copy'[l] = copy[l] /\ (l \in exposed => l \in exposed')
    BY <1>10 DEF Invalidate, TypeOK, EditorsOK, RedisOK
  <2>2. copy'[k] = 0 \/ k \in exposed'
    BY <1>10 DEF Invalidate, TypeOK, RedisOK
  <2>3. QED
    BY <2>1, <2>2 DEF StaleNeedsCause, Gone
<1>11. ASSUME Tick PROVE StaleNeedsCause'
  <2>1. /\ UNCHANGED <<row, content, doomed>>
        /\ \A l \in Key : copy'[l] = 0 \/ (copy'[l] = copy[l] /\ l \notin Expired)
        /\ \A l \in exposed : l \notin Expired => l \in exposed'
    BY <1>11 DEF Tick
  <2>2. QED
    BY <2>1 DEF StaleNeedsCause, Gone
<1>12. CASE UNCHANGED vars
  BY <1>1, <1>12 DEF vars
<1>13. QED
  BY <1>2, <1>3, <1>4, <1>5, <1>6, <1>7, <1>8, <1>9, <1>10, <1>11, <1>12
     DEF Next, Edit, UpdateWidget, UpdatePersona, UpdateBranding, UpdateNavigation

\* A copy shows what the row has left only until the request that changed the
\* row has deleted it, or after a race, a failure or a deleted widget.
THEOREM StaleHasCause == Spec => []StaleNeedsCause
<1>1. Init => Holding /\ StaleNeedsCause
  BY HoldingInit DEF Init, StaleNeedsCause
<1>2. TypeOK /\ TypeOK' /\ Holding /\ StaleNeedsCause /\ [Next]_vars
        => Holding' /\ StaleNeedsCause'
  BY HoldingStep, CausedStep
<1>3. QED
  BY <1>1, <1>2, TypeCorrect, PTL DEF Spec

(***************************************************************************)
(* How long a copy may be stale.                                           *)
(***************************************************************************)
LEMMA NewContentAge ==
  ASSUME TypeOK, NoOlderThanRead, NewContent
  PROVE  NoOlderThanRead'
<1>1. /\ content' = content + 1 /\ content \in Nat
      /\ UNCHANGED <<behind, copy, age, serving, seen, waited>>
  BY DEF NewContent, redis, visitors, TypeOK, TableOK
<1>2. \A c \in Content : c > content + 1 \/ ~Gone(c)' => behind[c] = 0
  BY <1>1 DEF NoOlderThanRead, Gone, Content
<1>3. QED
  BY <1>1, <1>2 DEF NoOlderThanRead

LEMMA AgeStep ==
  ASSUME TypeOK, TypeOK', Holding, NoOlderThanRead, [Next]_vars
  PROVE  NoOlderThanRead'
<1> USE DEF table, redis, visitors, editors, history
<1>1. ASSUME UNCHANGED <<row, content, behind, copy, age, serving, seen, waited>>
      PROVE  NoOlderThanRead'
  BY <1>1 DEF NoOlderThanRead, Gone
<1>2. ASSUME NEW v \in Visitor, NEW k \in Key, LookUp(v, k) PROVE NoOlderThanRead'
  <2>1. /\ UNCHANGED <<row, content, behind, copy, age, seen, waited>>
        /\ \A w \in Visitor : serving'[w] = "fill" => serving[w] = "fill"
    BY <1>2 DEF LookUp, TypeOK, VisitorsOK
  <2>2. QED
    BY <2>1 DEF NoOlderThanRead, Gone
<1>3. ASSUME NEW v \in Visitor, ReadRow(v) PROVE NoOlderThanRead'
  <2>1. /\ UNCHANGED <<row, content, behind, copy, age, waited>>
        /\ \A w \in Visitor : w # v => serving'[w] = serving[w] /\ seen'[w] = seen[w]
        /\ seen'[v] = content
    BY <1>3 DEF ReadRow, TypeOK, VisitorsOK
  <2>2. content \in Content /\ ~Gone(content) /\ waited[v] >= 0
    BY <1>3, ConstantsAssumption DEF ReadRow, TypeOK, TableOK, VisitorsOK, Content, Gone
  <2>3. behind[content] <= waited[v]
    BY <2>2 DEF NoOlderThanRead
  <2>4. QED
    BY <2>1, <2>3 DEF NoOlderThanRead, Gone
<1>4. ASSUME NEW v \in Visitor, Answered(v), UNCHANGED <<row, content, behind>>,
             \A k \in Key : copy'[k] # 0 => behind[copy'[k]] <= age'[k] + Timeout
      PROVE  NoOlderThanRead'
  <2>1. /\ serving'[v] = "idle"
        /\ \A w \in Visitor : w # v => /\ serving'[w] = serving[w]
                                       /\ seen'[w] = seen[w]
                                       /\ waited'[w] = waited[w]
    BY <1>4 DEF Answered, TypeOK, VisitorsOK
  <2>2. QED
    BY <1>4, <2>1 DEF NoOlderThanRead, Gone
<1>5. ASSUME NEW v \in Visitor, AnswerOnly(v) PROVE NoOlderThanRead'
  BY <1>4, <1>5 DEF AnswerOnly, NoOlderThanRead
<1>6. ASSUME NEW v \in Visitor, FillCopy(v) PROVE NoOlderThanRead'
  <2>1. /\ serving[v] = "fill" /\ waited[v] <= Timeout
        /\ copy' = [copy EXCEPT ![asked[v]] = seen[v]]
        /\ age' = [age EXCEPT ![asked[v]] = 0]
    BY <1>6 DEF FillCopy, InTime
  <2>2. seen[v] \in Content
    BY <2>1 DEF TypeOK, VisitorsOK, Content
  <2>3. behind[seen[v]] <= 0 + Timeout
    BY <2>1, <2>2, ConstantsAssumption DEF NoOlderThanRead, TypeOK, VisitorsOK, HistoryOK, Bound
  <2>4. \A k \in Key : copy'[k] # 0 => behind[copy'[k]] <= age'[k] + Timeout
    BY <2>1, <2>3 DEF NoOlderThanRead, TypeOK, RedisOK
  <2>5. QED
    BY <1>4, <1>6, <2>4 DEF FillCopy
<1>7. ASSUME NEW e \in Editor, Save(e) PROVE NoOlderThanRead'
  BY <1>7, SaveIsNewContent, NewContentAge
<1>8. ASSUME NEW e \in Editor, CreateWidget(e), ~Save(e) PROVE NoOlderThanRead'
  BY <1>8, CreateCases, NewContentAge
<1>9. ASSUME EnsureWidget PROVE NoOlderThanRead'
  BY <1>9, EnsureCases, NewContentAge
<1>10. ASSUME NEW e \in Editor, RegenerateWidgetRead(e) PROVE NoOlderThanRead'
  BY <1>1, <1>10 DEF RegenerateWidgetRead
<1>11. ASSUME NEW e \in Editor, RegenerateWidget(e) PROVE NoOlderThanRead'
  <2>1. UNCHANGED behind
    BY <1>11 DEF RegenerateWidget
  <2>2. QED
    BY <1>1, <1>11, <2>1, RegenerateCases, NewContentAge
<1>12. ASSUME DeleteWidget PROVE NoOlderThanRead'
  <2>1. row' = NoKey /\ UNCHANGED <<content, behind, copy, age, serving, seen, waited>>
    BY <1>12 DEF DeleteWidget
  <2>2. QED
    BY <2>1 DEF NoOlderThanRead, Gone
<1>13. ASSUME NEW e \in Editor, NEW k \in Key, Invalidate(e, k) PROVE NoOlderThanRead'
  <2>1. /\ UNCHANGED <<row, content, behind, serving, seen, waited>>
        /\ \A l \in Key : copy'[l] = 0 \/ (copy'[l] = copy[l] /\ age'[l] = age[l])
    BY <1>13 DEF Invalidate, TypeOK, RedisOK
  <2>2. QED
    BY <2>1 DEF NoOlderThanRead, Gone
<1>14. ASSUME Tick PROVE NoOlderThanRead'
  <2>1. UNCHANGED <<row, content, serving, seen>>
    BY <1>14 DEF Tick
  <2>2. ASSUME NEW c \in Content
        PROVE  /\ behind'[c] <= behind[c] + 1
               /\ c > content \/ ~Gone(c) => behind'[c] = behind[c]
    BY <1>14, <2>2 DEF Tick, TypeOK, HistoryOK, Content, TableOK
  <2>3. ASSUME NEW k \in Key, copy'[k] # 0
        PROVE  behind'[copy'[k]] <= age'[k] + Timeout
    <3>1. copy'[k] = copy[k] /\ age'[k] = age[k] + 1
      BY <1>14, <2>3 DEF Tick
    <3>2. copy[k] \in Content
      BY <2>3, <3>1 DEF TypeOK, RedisOK, Content
    <3>3. behind[copy[k]] <= age[k] + Timeout
      BY <2>3, <3>1 DEF NoOlderThanRead
    <3>4. /\ behind'[copy[k]] <= behind[copy[k]] + 1
          /\ behind[copy[k]] \in Nat /\ behind'[copy[k]] \in Nat
          /\ age[k] \in Nat
      BY <2>2, <3>2, ConstantsAssumption DEF TypeOK, HistoryOK, RedisOK, Bound
    <3>5. QED
      BY <3>1, <3>3, <3>4, ConstantsAssumption
  <2>4. ASSUME NEW v \in Visitor, serving[v] = "fill", waited'[v] <= Timeout
        PROVE  behind'[seen[v]] <= waited'[v]
    <3>1. waited[v] \in Nat /\ waited[v] <= Timeout /\ waited'[v] = waited[v] + 1
      BY <1>14, <2>4, ConstantsAssumption DEF Tick, TypeOK, VisitorsOK
    <3>2. seen[v] \in Content
      BY <2>4 DEF TypeOK, VisitorsOK, Content
    <3>3. behind[seen[v]] <= waited[v]
      BY <2>4, <3>1 DEF NoOlderThanRead
    <3>4. /\ behind'[seen[v]] <= behind[seen[v]] + 1
          /\ behind[seen[v]] \in Nat /\ behind'[seen[v]] \in Nat
      BY <2>2, <3>2, ConstantsAssumption DEF TypeOK, HistoryOK, Bound
    <3>5. QED
      BY <3>1, <3>3, <3>4
  <2>5. \A c \in Content : c > content \/ ~Gone(c) => behind'[c] = 0
    BY <2>2 DEF NoOlderThanRead
  <2>6. QED
    BY <2>1, <2>3, <2>4, <2>5 DEF NoOlderThanRead, Gone
<1>15. CASE UNCHANGED vars
  BY <1>1, <1>15 DEF vars
<1>16. QED
  BY <1>2, <1>3, <1>5, <1>6, <1>7, <1>8, <1>9, <1>10, <1>11, <1>12, <1>13, <1>14, <1>15
     DEF Next, PublicWidgetConfig, Edit, UpdateWidget, UpdatePersona, UpdateBranding,
         UpdateNavigation

\* No copy shows what the row has left for longer than the lifetime of a copy
\* and the timeout of the request that set it, whatever raced or failed.
THEOREM StaleEnds == Spec => []StaleIsBounded
<1>1. Init => Holding /\ NoOlderThanRead
  <2> SUFFICES ASSUME Init PROVE Holding /\ NoOlderThanRead
    OBVIOUS
  <2>1. NoOlderThanRead
    BY DEF Init, NoOlderThanRead
  <2>2. QED
    BY <2>1, HoldingInit
<1>2. TypeOK /\ TypeOK' /\ Holding /\ NoOlderThanRead /\ [Next]_vars
        => Holding' /\ NoOlderThanRead'
  BY HoldingStep, AgeStep
<1>3. TypeOK /\ NoOlderThanRead => StaleIsBounded
  <2> SUFFICES ASSUME TypeOK, NoOlderThanRead, NEW k \in Key, copy[k] # 0
               PROVE  behind[copy[k]] <= Bound
    BY DEF StaleIsBounded
  <2>1. age[k] \in 0..Lifetime /\ copy[k] \in Content
    BY DEF TypeOK, RedisOK, Content
  <2>2. behind[copy[k]] <= age[k] + Timeout /\ behind[copy[k]] \in 0..Bound + 1
    BY <2>1 DEF NoOlderThanRead, TypeOK, HistoryOK
  <2>3. QED
    BY <2>1, <2>2, ConstantsAssumption DEF Bound
<1>4. QED
  BY <1>1, <1>2, <1>3, TypeCorrect, PTL DEF Spec
===============================================================================
