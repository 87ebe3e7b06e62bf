-------------------------- MODULE ServerProcess_proofs --------------------------
(***************************************************************************)
(* Proofs about the modules of MCServerProcess, one after the other, each  *)
(* of its own specification, for any events, processes, files and limits.  *)
(***************************************************************************)
EXTENDS MCServerProcess, FiniteSetTheorems, SequenceTheorems, TLAPS

\* The state keeps its shape under every action of the owner, of the
\* visitors and of the goroutines (integrations.go, leads_controller.go).
THEOREM TypeCorrect == Spec => []TypeOK
<1> USE ConstantsAssumption DEF TypeOK, Status
<1>1. Init => TypeOK
  <2> SUFFICES ASSUME Init PROVE TypeOK
    OBVIOUS
  <2>1. row \in [Worker -> Row \cup {NoRow}]
    BY DEF Init
  <2>2. batch \in [Worker -> SUBSET Row]
    BY DEF Init
  <2>3. pc \in [Worker -> {"idle", "posting", "succeeded", "failed", "hung"}]
    BY DEF Init
  <2>4. /\ status \in [Event -> Status]
        /\ attempts \in [Event -> Nat]
        /\ lastError \in [Event -> {"none", "blocked", "failed"}]
    BY DEF Init
  <2>5. due \in [Event -> BOOLEAN] /\ received \in [Event -> BOOLEAN]
    BY DEF Init
  <2>6. active \in BOOLEAN /\ enterprise \in BOOLEAN /\ (active => url # "none")
    BY DEF Init
  <2>7. \A w \in Worker : pc[w] # "idle" => row[w] \in Row
    BY DEF Init
  <2>8. QED
    BY <2>1, <2>2, <2>3, <2>4, <2>5, <2>6, <2>7 DEF Init
<1>2. TypeOK /\ [Next]_vars => TypeOK'
  <2> SUFFICES ASSUME TypeOK, [Next]_vars PROVE TypeOK'
    OBVIOUS
  <2> USE DEF events, account, workers
  <2>1. CASE AdminSetPlan
    BY <2>1 DEF AdminSetPlan
  <2>2. ASSUME NEW u \in {"plain", "padded"}, NEW a \in BOOLEAN, UpsertLeadWebhook(u, a)
        PROVE  TypeOK'
    BY <2>2 DEF UpsertLeadWebhook, Mishap
  <2>3. ASSUME NEW e \in Event, PublicContact(e) \/ LeadWebhookTest(e)
        PROVE  TypeOK'
    BY <2>3 DEF PublicContact, LeadWebhookTest, QueueWebhookEvent
  <2>4. ASSUME NEW e \in Event, RetryWebhookEvent(e)
        PROVE  TypeOK'
    BY <2>4 DEF RetryWebhookEvent
  <2>5. ASSUME NEW e \in Event, TimePasses(e)
        PROVE  TypeOK'
    BY <2>5 DEF TimePasses
  <2>6. ASSUME NEW w \in Worker, Fetch(w)
        PROVE  TypeOK'
    <3>1. active /\ Oldest(Selectable) \subseteq Event
      BY <2>6 DEF Fetch, Selectable, Oldest
    <3>2. {[event |-> e, attempts |-> attempts[e], url |-> url] : e \in Oldest(Selectable)}
            \subseteq Row
      <4>1. ASSUME NEW e \in Oldest(Selectable)
            PROVE  [event |-> e, attempts |-> attempts[e], url |-> url] \in Row
        BY <3>1 DEF Row
      <4>2. QED
        BY <4>1
    <3>3. QED
      BY <2>6, <3>2 DEF Fetch
  <2>7. ASSUME NEW w \in Worker, NEW r \in batch[w], BlockTarget(w, r)
        PROVE  TypeOK'
    <3>1. r \in Row
      OBVIOUS
    <3>2. QED
      BY <2>7, <3>1 DEF BlockTarget, TakeRow, Mishap
  <2>8. ASSUME NEW w \in Worker, NEW r \in batch[w], MarkProcessing(w, r)
        PROVE  TypeOK'
    <3>1. r \in Row /\ r.event \in Event
      BY DEF Row
    <3>2. attempts' \in [Event -> Nat] /\ status' \in [Event -> Status]
      BY <2>8, <3>1 DEF MarkProcessing
    <3>3. batch' \in [Worker -> SUBSET Row]
      BY <2>8 DEF MarkProcessing, TakeRow
    <3>4. /\ row' \in [Worker -> Row \cup {NoRow}]
          /\ pc' \in [Worker -> {"idle", "posting", "succeeded", "failed", "hung"}]
          /\ \A v \in Worker : pc'[v] # "idle" => row'[v] \in Row
      BY <2>8, <3>1 DEF MarkProcessing
    <3>5. QED
      BY <2>8, <3>2, <3>3, <3>4 DEF MarkProcessing, Mishap
  <2>9. ASSUME NEW w \in Worker, Post(w)
        PROVE  TypeOK'
    <3>1. row[w] \in Row /\ row[w].event \in Event
      BY <2>9 DEF Post, Row
    <3>2. QED
      BY <2>9, <3>1 DEF Post
  <2>10. ASSUME NEW w \in Worker, RecordDelivered(w)
         PROVE  TypeOK'
    BY <2>10 DEF RecordDelivered, RowDone, Mishap
  <2>11. ASSUME NEW w \in Worker, RecordFailure(w)
         PROVE  TypeOK'
    <3>1. FailureStatus(row[w]) \in Status
      BY DEF FailureStatus
    <3>2. row[w] \in Row /\ row[w].event \in Event
      BY <2>11 DEF RecordFailure, Row
    <3>3. due' \in [Event -> BOOLEAN] /\ status' \in [Event -> Status]
      BY <2>11, <3>1, <3>2 DEF RecordFailure
    <3>4. QED
      BY <2>11, <3>3 DEF RecordFailure, RowDone, Mishap
  <2>12. ASSUME NEW w \in Worker, Crash(w)
         PROVE  TypeOK'
    BY <2>12 DEF Crash, Mishap
  <2>13. CASE UNCHANGED vars
    BY <2>13 DEF vars
  <2>14. QED
    BY <2>1, <2>2, <2>3, <2>4, <2>5, <2>6, <2>7, <2>8, <2>9, <2>10, <2>11, <2>12, <2>13
    DEF Next, Deliver
<1>3. QED
  BY <1>1, <1>2, PTL DEF Spec

-------------------------------------------------------------------------------
\* What a goroutine holds are rows of the event table.
LEMMA HeldRows ==
  ASSUME TypeOK, NEW w \in Worker
  PROVE  /\ batch[w] \subseteq Row
         /\ \A r \in batch[w] : r \in Row /\ r.event \in Event /\ r.attempts \in Nat
         /\ Busy(w) => /\ row[w] \in Row
                       /\ row[w].event \in Event
                       /\ row[w].attempts \in Nat
<1>1. batch[w] \subseteq Row /\ (Busy(w) => row[w] \in Row)
  BY DEF TypeOK, Busy
<1>2. \A r \in Row : r.event \in Event /\ r.attempts \in Nat
  BY DEF Row
<1>3. QED
  BY <1>1, <1>2

\* A fetched row is one of the event table, as it is when it is fetched.
LEMMA FetchedRows ==
  ASSUME TypeOK, NEW w \in Worker, Fetch(w)
  PROVE  /\ \A v \in Worker : v # w => batch'[v] = batch[v]
         /\ \A r \in batch'[w] : /\ r.event \in Selectable
                                 /\ r.attempts = attempts[r.event]
                                 /\ r.url = url
                                 /\ \A q \in batch'[w] : q.event = r.event => q = r
         /\ Selectable \subseteq {e \in Event : status[e] \in {"pending", "retrying"}}
<1>1. batch'[w] = {[event |-> e, attempts |-> attempts[e], url |-> url] :
                      e \in Oldest(Selectable)}
  BY DEF Fetch, TypeOK
<1>2. Oldest(Selectable) \subseteq Selectable
  BY DEF Oldest, Selectable
<1>3. \A v \in Worker : v # w => batch'[v] = batch[v]
  BY DEF Fetch, TypeOK
<1>4. Selectable \subseteq {e \in Event : status[e] \in {"pending", "retrying"}}
  BY DEF Selectable
<1>5. QED
  BY <1>1, <1>2, <1>3, <1>4

-------------------------------------------------------------------------------
LEMMA DeliveredInduction ==
  ASSUME TypeOK, RowsAreQueued, DeliveredWasReceived, [Next]_vars
  PROVE  (RowsAreQueued /\ DeliveredWasReceived)'
<1> DEFINE IInv == RowsAreQueued /\ DeliveredWasReceived
<1> USE HeldRows DEF RowsAreQueued, DeliveredWasReceived, Busy
<1>1. CASE AdminSetPlan
  BY <1>1 DEF AdminSetPlan, events, workers
<1>2. ASSUME NEW u \in {"plain", "padded"}, NEW a \in BOOLEAN, UpsertLeadWebhook(u, a)
      PROVE  IInv'
  BY <1>2 DEF UpsertLeadWebhook, events, workers
<1>3. ASSUME NEW e \in Event, PublicContact(e) \/ LeadWebhookTest(e)
      PROVE  IInv'
  BY <1>3 DEF PublicContact, LeadWebhookTest, QueueWebhookEvent, workers, TypeOK
<1>4. ASSUME NEW e \in Event, RetryWebhookEvent(e)
      PROVE  IInv'
  BY <1>4 DEF RetryWebhookEvent, workers, TypeOK
<1>5. ASSUME NEW e \in Event, TimePasses(e)
      PROVE  IInv'
  BY <1>5 DEF TimePasses, workers
<1>6. ASSUME NEW w \in Worker, Fetch(w)
      PROVE  IInv'
  <2>1. \A v \in Worker : \A r \in batch'[v] : status[r.event] # "none"
    BY <1>6, FetchedRows
  <2>2. QED
    BY <1>6, <2>1 DEF Fetch, events
<1>7. ASSUME NEW w \in Worker, NEW r \in batch[w], BlockTarget(w, r)
      PROVE  IInv'
  BY <1>7 DEF BlockTarget, TakeRow, TypeOK
<1>8. ASSUME NEW w \in Worker, NEW r \in batch[w], MarkProcessing(w, r)
      PROVE  IInv'
  <2>1. \A e \in Event : /\ status'[e] = "none" => status[e] = "none"
                         /\ status'[e] = "delivered" => status[e] = "delivered"
    BY <1>8 DEF MarkProcessing, TypeOK
  <2>2. \A v \in Worker : batch'[v] \subseteq batch[v]
    BY <1>8 DEF MarkProcessing, TakeRow, TypeOK
  <2>3. \A v \in Worker : pc'[v] # "idle" =>
          \/ pc'[v] = pc[v] /\ row'[v] = row[v]
          \/ v = w /\ pc'[v] = "posting" /\ row'[v] = r
    BY <1>8 DEF MarkProcessing, TypeOK
  <2>4. received' = received
    BY <1>8 DEF MarkProcessing
  <2>5. \A v \in Worker : /\ \A q \in batch[v] : q.event \in Event
                          /\ pc[v] # "idle" => row[v].event \in Event
    OBVIOUS
  <2>6. \A v \in Worker : \A q \in batch'[v] : status'[q.event] # "none"
    BY <2>1, <2>2, <2>5
  <2>7. \A v \in Worker : pc'[v] # "idle" => status'[row'[v].event] # "none"
    BY <2>1, <2>3, <2>5
  <2>8. \A v \in Worker : pc'[v] = "succeeded" => received'[row'[v].event]
    BY <2>3, <2>4
  <2>9. QED
    BY <2>1, <2>4, <2>6, <2>7, <2>8
<1>9. ASSUME NEW w \in Worker, Post(w)
      PROVE  IInv'
  BY <1>9 DEF Post, TypeOK
<1>10. ASSUME NEW w \in Worker, RecordDelivered(w)
       PROVE  IInv'
  BY <1>10 DEF RecordDelivered, RowDone, TypeOK
<1>11. ASSUME NEW w \in Worker, RecordFailure(w)
       PROVE  IInv'
  <2>1. FailureStatus(row[w]) \in {"dead", "retrying"}
    BY DEF FailureStatus
  <2>2. \A e \in Event : /\ status'[e] = "none" => status[e] = "none"
                         /\ status'[e] = "delivered" => status[e] = "delivered"
    BY <1>11, <2>1 DEF RecordFailure, TypeOK
  <2>3. \A v \in Worker : /\ batch'[v] = batch[v]
                          /\ pc'[v] # "idle" => pc'[v] = pc[v] /\ row'[v] = row[v]
    BY <1>11 DEF RecordFailure, RowDone, TypeOK
  <2>4. received' = received
    BY <1>11 DEF RecordFailure
  <2>5. \A v \in Worker : /\ \A q \in batch[v] : q.event \in Event
                          /\ pc[v] # "idle" => row[v].event \in Event
    OBVIOUS
  <2>6. \A v \in Worker : /\ \A q \in batch'[v] : status'[q.event] # "none"
                          /\ pc'[v] # "idle" => status'[row'[v].event] # "none"
    BY <2>2, <2>3, <2>5
  <2>7. \A v \in Worker : pc'[v] = "succeeded" => received'[row'[v].event]
    BY <2>3, <2>4
  <2>8. QED
    BY <2>2, <2>4, <2>6, <2>7
<1>12. ASSUME NEW w \in Worker, Crash(w)
       PROVE  IInv'
  BY <1>12 DEF Crash, events, TypeOK
<1>13. CASE UNCHANGED vars
  BY <1>13 DEF vars, events, workers
<1>14. QED
  BY <1>1, <1>2, <1>3, <1>4, <1>5, <1>6, <1>7, <1>8, <1>9, <1>10, <1>11, <1>12, <1>13
  DEF Next, Deliver

\* A row reads "delivered" only after its event was received, whatever the
\* goroutines that hold it do (processPendingWebhookEvents).
THEOREM DeliveredAfterReceipt == Spec => []DeliveredWasReceived
<1>1. Init => RowsAreQueued /\ DeliveredWasReceived
  BY SMTT(30) DEF Init, RowsAreQueued, DeliveredWasReceived, Busy
<1>2. QED
  BY <1>1, TypeCorrect, DeliveredInduction, PTL DEF Spec

-------------------------------------------------------------------------------
LEMMA OrphanInduction ==
  ASSUME TypeOK, MarkedIsHeld, [Next]_vars
  PROVE  MarkedIsHeld'
<1> SUFFICES ASSUME mishaps' = 0
             PROVE  /\ url' # "padded"
                    /\ \A w \in Worker : \A r \in batch'[w] : r.url = "plain"
                    /\ \A e \in Event : ~Orphan(e)'
  BY DEF MarkedIsHeld
<1>a. mishaps = 0
  <2>1. mishaps' # mishaps => mishaps' = mishaps + 1
    BY DEF Next, Deliver, AdminSetPlan, UpsertLeadWebhook, PublicContact, LeadWebhookTest,
           QueueWebhookEvent, RetryWebhookEvent, TimePasses, Fetch, BlockTarget,
           MarkProcessing, Post, RecordDelivered, RecordFailure, Crash, Mishap, vars
  <2>2. QED
    BY <2>1, ConstantsAssumption DEF TypeOK
<1>b. ~Mishap
  BY <1>a DEF Mishap
<1>c. /\ url # "padded"
      /\ \A w \in Worker : \A r \in batch[w] : r.url = "plain"
      /\ \A e \in Event : ~Orphan(e)
  BY <1>a DEF MarkedIsHeld
<1> DEFINE Goal == /\ url' # "padded"
                   /\ \A w \in Worker : \A r \in batch'[w] : r.url = "plain"
                   /\ \A e \in Event : ~Orphan(e)'
<1> USE DEF Orphan, Holds
<1>1. CASE AdminSetPlan
  BY <1>1, <1>c DEF AdminSetPlan, events, workers
<1>2. ASSUME NEW u \in {"plain", "padded"}, NEW a \in BOOLEAN, UpsertLeadWebhook(u, a)
      PROVE  Goal
  BY <1>2, <1>b, <1>c DEF UpsertLeadWebhook, events, workers
<1>3. ASSUME NEW e \in Event, PublicContact(e) \/ LeadWebhookTest(e)
      PROVE  Goal
  BY <1>3, <1>c DEF PublicContact, LeadWebhookTest, QueueWebhookEvent, account, workers, TypeOK
<1>4. ASSUME NEW e \in Event, RetryWebhookEvent(e)
      PROVE  Goal
  BY <1>4, <1>c DEF RetryWebhookEvent, account, workers, TypeOK
<1>5. ASSUME NEW e \in Event, TimePasses(e)
      PROVE  Goal
  BY <1>5, <1>c DEF TimePasses, account, workers
<1>6. ASSUME NEW w \in Worker, Fetch(w)
      PROVE  Goal
  <2>1. url = "plain"
    BY <1>6, <1>c DEF Fetch, Selectable, TypeOK
  <2>2. \A v \in Worker : \A r \in batch'[v] : r.url = "plain"
    BY <1>6, <1>c, <2>1, FetchedRows
  <2>3. QED
    BY <1>6, <1>c, <2>2 DEF Fetch, events, account
<1>7. ASSUME NEW w \in Worker, NEW r \in batch[w], BlockTarget(w, r)
      PROVE  Goal
  <2>1. \A v \in Worker : batch'[v] \subseteq batch[v]
    BY <1>7 DEF BlockTarget, TakeRow, TypeOK
  <2>2. \A e \in Event : status'[e] = "processing" => status[e] = "processing"
    BY <1>7 DEF BlockTarget, TypeOK
  <2>3. url' = url /\ pc' = pc /\ row' = row
    BY <1>7 DEF BlockTarget, account
  <2>4. QED
    BY <1>c, <2>1, <2>2, <2>3
<1>8. ASSUME NEW w \in Worker, NEW r \in batch[w], MarkProcessing(w, r)
      PROVE  Goal
  <2>1. \A v \in Worker : batch'[v] \subseteq batch[v]
    BY <1>8 DEF MarkProcessing, TakeRow, TypeOK
  <2>2. pc'[w] = "posting" /\ row'[w] = r /\ pc[w] = "idle"
    BY <1>8, <1>c DEF MarkProcessing, TakeRow, TypeOK
  <2>3. \A v \in Worker : v # w => pc'[v] = pc[v] /\ row'[v] = row[v]
    BY <1>8 DEF MarkProcessing, TypeOK
  <2>4. \A e \in Event : e # r.event => status'[e] = status[e]
    BY <1>8 DEF MarkProcessing, TypeOK
  <2>5. url' = url
    BY <1>8 DEF MarkProcessing, account
  <2>6. QED
    BY <1>c, <2>1, <2>2, <2>3, <2>4, <2>5
<1>9. ASSUME NEW w \in Worker, Post(w)
      PROVE  Goal
  <2>1. \A v \in Worker : pc[v] # "idle" => pc'[v] # "idle"
    BY <1>9 DEF Post, TypeOK
  <2>2. status' = status /\ row' = row /\ batch' = batch /\ url' = url
    BY <1>9 DEF Post, account
  <2>3. QED
    BY <1>c, <2>1, <2>2
<1>10. ASSUME NEW w \in Worker, RecordDelivered(w) \/ RecordFailure(w)
       PROVE  Goal
  <2>1. FailureStatus(row[w]) # "processing"
    BY DEF FailureStatus
  <2>2. row[w].event \in Event
    BY <1>10, HeldRows DEF RecordDelivered, RecordFailure, Busy
  <2>3. /\ status'[row[w].event] # "processing"
        /\ \A e \in Event : e # row[w].event => status'[e] = status[e]
    BY <1>10, <1>b, <2>1, <2>2 DEF RecordDelivered, RecordFailure, TypeOK
  <2>4. \A v \in Worker : v # w => pc'[v] = pc[v] /\ row'[v] = row[v]
    BY <1>10 DEF RecordDelivered, RecordFailure, RowDone, TypeOK
  <2>5. batch' = batch /\ url' = url
    BY <1>10 DEF RecordDelivered, RecordFailure, RowDone, account
  <2>6. QED
    BY <1>c, <2>2, <2>3, <2>4, <2>5
<1>11. ASSUME NEW w \in Worker, Crash(w)
       PROVE  Goal
  BY <1>11, <1>b DEF Crash
<1>12. CASE UNCHANGED vars
  BY <1>12, <1>c DEF vars, events, account, workers
<1>13. QED
  BY <1>1, <1>2, <1>3, <1>4, <1>5, <1>6, <1>7, <1>8, <1>9, <1>10, <1>11, <1>12
  DEF Next, Deliver

\* Without a crash, a failed write or a padded URL no event is stranded in
\* "processing", however many goroutines hold its row at once.
THEOREM StrandedOnlyByMishap == Spec => []OrphansComeFromMishaps
<1>1. Init => MarkedIsHeld
  BY DEF Init, MarkedIsHeld, Orphan
<1>2. MarkedIsHeld /\ TypeOK => OrphansComeFromMishaps
  BY ConstantsAssumption DEF MarkedIsHeld, OrphansComeFromMishaps, TypeOK
<1>3. QED
  BY <1>1, <1>2, TypeCorrect, OrphanInduction, PTL DEF Spec

-------------------------------------------------------------------------------
LEMMA CountingInduction ==
  ASSUME TypeOK, SnapshotsLag, NoEarlyDeath, [Next]_vars
  PROVE  (SnapshotsLag /\ NoEarlyDeath)'
<1> DEFINE Dead(e) == status[e] = "dead" /\ lastError[e] = "failed"
           Goal == /\ \A w \in Worker : \A r \in batch'[w] : r.attempts <= attempts'[r.event]
                   /\ \A w \in Worker : pc'[w] # "idle" =>
                        row'[w].attempts + 1 <= attempts'[row'[w].event] + mishaps'
                   /\ \A e \in Event : Dead(e)' => attempts'[e] + mishaps' >= MaxAttempts
<1> SUFFICES ASSUME retries' = 0 PROVE Goal
  BY DEF SnapshotsLag, NoEarlyDeath, Busy
<1>a. retries = 0 /\ ~ \E e \in Event : RetryWebhookEvent(e)
  <2>1. retries' # retries => retries' = retries + 1
    BY DEF Next, Deliver, AdminSetPlan, UpsertLeadWebhook, PublicContact, LeadWebhookTest,
           QueueWebhookEvent, RetryWebhookEvent, TimePasses, Fetch, BlockTarget,
           MarkProcessing, Post, RecordDelivered, RecordFailure, Crash, vars
  <2>2. retries \in Nat
    BY DEF TypeOK
  <2>3. QED
    BY <2>1, <2>2 DEF RetryWebhookEvent
<1>b. /\ \A w \in Worker : \A r \in batch[w] : r.attempts <= attempts[r.event]
      /\ \A w \in Worker : pc[w] # "idle" => row[w].attempts + 1 <= attempts[row[w].event] + mishaps
      /\ \A e \in Event : Dead(e) => attempts[e] + mishaps >= MaxAttempts
  BY <1>a DEF SnapshotsLag, NoEarlyDeath, Busy
<1>c. /\ mishaps \in Nat /\ MaxAttempts \in Nat
      /\ attempts \in [Event -> Nat]
      /\ \A w \in Worker : \A r \in batch[w] : r.event \in Event /\ r.attempts \in Nat
      /\ \A w \in Worker : pc[w] # "idle" => row[w].event \in Event /\ row[w].attempts \in Nat
  BY HeldRows, ConstantsAssumption DEF TypeOK, Busy
<1>d. Mishap => mishaps' = mishaps + 1
  BY DEF Mishap
<1>1. CASE AdminSetPlan
  BY <1>1, <1>b DEF AdminSetPlan, events, workers
<1>2. ASSUME NEW u \in {"plain", "padded"}, NEW a \in BOOLEAN, UpsertLeadWebhook(u, a)
      PROVE  Goal
  <2>1. mishaps' \in Nat /\ mishaps <= mishaps'
    BY <1>2, <1>c, <1>d DEF UpsertLeadWebhook
  <2>2. UNCHANGED <<attempts, status, lastError, pc, batch, row>>
    BY <1>2 DEF UpsertLeadWebhook, events, workers
  <2>3. QED
    BY <1>b, <1>c, <2>1, <2>2
<1>3. ASSUME NEW e \in Event, PublicContact(e) \/ LeadWebhookTest(e)
      PROVE  Goal
  <2>1. \A f \in Event : Dead(f)' => Dead(f)
    BY <1>3 DEF PublicContact, LeadWebhookTest, QueueWebhookEvent, TypeOK
  <2>2. QED
    BY <1>3, <1>b, <2>1 DEF PublicContact, LeadWebhookTest, QueueWebhookEvent, workers
<1>4. ASSUME NEW e \in Event, TimePasses(e)
      PROVE  Goal
  BY <1>4, <1>b DEF TimePasses, workers
<1>5. ASSUME NEW w \in Worker, Fetch(w)
      PROVE  Goal
  <2>1. \A r \in batch'[w] : r.attempts = attempts[r.event] /\ r.event \in Event
    BY <1>5, FetchedRows
  <2>2. \A v \in Worker : \A r \in batch'[v] : r.attempts <= attempts[r.event]
    BY <1>5, <1>b, <1>c, <2>1, FetchedRows
  <2>3. QED
    BY <1>5, <1>b, <2>2 DEF Fetch, events
<1>6. ASSUME NEW w \in Worker, NEW r \in batch[w], BlockTarget(w, r)
      PROVE  Goal
  <2>1. \A v \in Worker : batch'[v] \subseteq batch[v]
    BY <1>6 DEF BlockTarget, TakeRow, TypeOK
  <2>2. \A e \in Event : Dead(e)' => Dead(e)
    BY <1>6 DEF BlockTarget, TypeOK
  <2>3. attempts' = attempts /\ pc' = pc /\ row' = row
    BY <1>6 DEF BlockTarget
  <2>4. mishaps' \in Nat /\ mishaps <= mishaps'
    BY <1>6, <1>c, <1>d DEF BlockTarget
  <2>5. QED
    BY <1>b, <1>c, <2>1, <2>2, <2>3, <2>4
<1>7. ASSUME NEW w \in Worker, NEW r \in batch[w], MarkProcessing(w, r)
      PROVE  Goal
  <2>1. \A v \in Worker : batch'[v] \subseteq batch[v]
    BY <1>7 DEF MarkProcessing, TakeRow, TypeOK
  <2>2. \A e \in Event : Dead(e)' => Dead(e)
    BY <1>7 DEF MarkProcessing, TypeOK
  <2>3. /\ attempts' \in [Event -> Nat]
        /\ mishaps' \in Nat
        /\ \A e \in Event : attempts[e] <= attempts'[e]
        /\ mishaps <= mishaps'
        /\ attempts[r.event] + mishaps + 1 <= attempts'[r.event] + mishaps'
    BY <1>7, <1>c, <1>d DEF MarkProcessing
  <2>4. \A v \in Worker : pc'[v] # "idle" => \/ pc[v] # "idle" /\ row'[v] = row[v]
                                             \/ row'[v] = r
    BY <1>7 DEF MarkProcessing, TypeOK
  <2>5. r.event \in Event /\ r.attempts \in Nat /\ r.attempts <= attempts[r.event]
    BY <1>b, <1>c
  <2>6. \A v \in Worker : \A q \in batch'[v] : q.attempts <= attempts'[q.event]
    BY <1>b, <1>c, <2>1, <2>3
  <2>7. r.attempts + 1 <= attempts'[r.event] + mishaps'
    BY <1>c, <2>3, <2>5
  <2>8. ASSUME NEW v \in Worker, pc'[v] # "idle"
        PROVE  row'[v].attempts + 1 <= attempts'[row'[v].event] + mishaps'
    BY <1>b, <1>c, <2>3, <2>4, <2>7, <2>8
  <2>9. \A e \in Event : Dead(e)' => attempts'[e] + mishaps' >= MaxAttempts
    BY <1>b, <1>c, <2>2, <2>3
  <2>10. QED
    BY <2>6, <2>8, <2>9
<1>8. ASSUME NEW w \in Worker, Post(w)
      PROVE  Goal
  <2>1. \A v \in Worker : pc'[v] # "idle" => pc[v] # "idle"
    BY <1>8 DEF Post, TypeOK
  <2>2. QED
    BY <1>8, <1>b, <2>1 DEF Post
<1>9. ASSUME NEW w \in Worker, RecordDelivered(w)
      PROVE  Goal
  <2>1. \A e \in Event : Dead(e)' => Dead(e)
    BY <1>9 DEF RecordDelivered, TypeOK
  <2>2. \A v \in Worker : pc'[v] # "idle" => pc[v] # "idle" /\ row'[v] = row[v]
    BY <1>9 DEF RecordDelivered, RowDone, TypeOK
  <2>3. mishaps' \in Nat /\ mishaps <= mishaps' /\ attempts' = attempts /\ batch' = batch
    BY <1>9, <1>c, <1>d DEF RecordDelivered, RowDone
  <2>4. QED
    BY <1>b, <1>c, <2>1, <2>2, <2>3
<1>10. ASSUME NEW w \in Worker, RecordFailure(w)
       PROVE  Goal
  <2>1. \A e \in Event : Dead(e)' => Dead(e) \/ (e = row[w].event /\ Exhausted(row[w]))
    BY <1>10 DEF RecordFailure, FailureStatus, TypeOK
  <2>2. \A v \in Worker : pc'[v] # "idle" => pc[v] # "idle" /\ row'[v] = row[v]
    BY <1>10 DEF RecordFailure, RowDone, TypeOK
  <2>3. mishaps' \in Nat /\ mishaps <= mishaps' /\ attempts' = attempts /\ batch' = batch
    BY <1>10, <1>c, <1>d DEF RecordFailure, RowDone
  <2>4. pc[w] # "idle"
    BY <1>10 DEF RecordFailure
  <2>5. \A e \in Event : Dead(e)' => attempts[e] + mishaps >= MaxAttempts
    BY <1>b, <1>c, <2>1, <2>4 DEF Exhausted
  <2>6. QED
    BY <1>b, <1>c, <2>2, <2>3, <2>5
<1>11. ASSUME NEW w \in Worker, Crash(w)
       PROVE  Goal
  <2>1. \A v \in Worker : batch'[v] \subseteq batch[v]
    BY <1>11 DEF Crash, TypeOK
  <2>2. \A v \in Worker : pc'[v] # "idle" => pc[v] # "idle" /\ row'[v] = row[v]
    BY <1>11 DEF Crash, TypeOK
  <2>3. mishaps' \in Nat /\ mishaps <= mishaps'
    BY <1>11, <1>c, <1>d DEF Crash
  <2>4. QED
    BY <1>11, <1>b, <1>c, <2>1, <2>2, <2>3 DEF Crash, events
<1>12. CASE UNCHANGED vars
  BY <1>12, <1>b DEF vars, events, workers
<1>13. QED
  BY <1>a, <1>1, <1>2, <1>3, <1>4, <1>5, <1>6, <1>7, <1>8, <1>9, <1>10, <1>11, <1>12
  DEF Next, Deliver

\* An event dies of failures only after max_attempts attempts, as long as the
\* owner retries nothing by hand: stale snapshots never count too fast.
THEOREM DeathIsNotEarly == Spec => []NoEarlyDeath
<1>1. Init => SnapshotsLag /\ NoEarlyDeath
  BY DEF Init, SnapshotsLag, NoEarlyDeath, Busy
<1>2. QED
  BY <1>1, TypeCorrect, CountingInduction, PTL DEF Spec

-------------------------------------------------------------------------------
\* A stranded event that no batch holds is released by a manual retry alone:
\* no goroutine, crash or restart ever gives it back to the queue.
THEOREM StrandedWaitsForRetry == Spec => OrphanNeedsRetry
<1>1. ASSUME TypeOK, [Next]_vars, NEW e \in Event,
             Orphan(e), \A w \in Worker : ~InBatch(w, e)
      PROVE  Orphan(e)' \/ RetryWebhookEvent(e)
  <2> USE <1>1 DEF Orphan, Holds
  <2>1. CASE AdminSetPlan
    BY <2>1 DEF AdminSetPlan, events, workers
  <2>2. ASSUME NEW u \in {"plain", "padded"}, NEW a \in BOOLEAN, UpsertLeadWebhook(u, a)
        PROVE  Orphan(e)'
    BY <2>2 DEF UpsertLeadWebhook, events, workers
  <2>3. ASSUME NEW f \in Event, PublicContact(f) \/ LeadWebhookTest(f)
        PROVE  Orphan(e)'
    BY <2>3 DEF PublicContact, LeadWebhookTest, QueueWebhookEvent, workers, TypeOK
  <2>4. ASSUME NEW f \in Event, RetryWebhookEvent(f)
        PROVE  Orphan(e)' \/ RetryWebhookEvent(e)
    BY <2>4 DEF RetryWebhookEvent, workers, TypeOK
  <2>5. ASSUME NEW f \in Event, TimePasses(f)
        PROVE  Orphan(e)'
    BY <2>5 DEF TimePasses, workers
  <2>6. ASSUME NEW w \in Worker, Fetch(w)
        PROVE  Orphan(e)'
    BY <2>6 DEF Fetch, events
  <2>7. ASSUME NEW w \in Worker, NEW r \in batch[w], BlockTarget(w, r)
        PROVE  Orphan(e)'
    <3>1. r.event # e
      BY DEF InBatch
    <3>2. QED
      BY <2>7, <3>1 DEF BlockTarget, TypeOK
  <2>8. ASSUME NEW w \in Worker, NEW r \in batch[w], MarkProcessing(w, r)
        PROVE  Orphan(e)'
    <3>1. r.event # e
      BY DEF InBatch
    <3>2. status'[e] = status[e]
      BY <2>8, <3>1 DEF MarkProcessing, TypeOK
    <3>3. \A v \in Worker : \/ pc'[v] = pc[v] /\ row'[v] = row[v]
                            \/ row'[v] = r
      BY <2>8 DEF MarkProcessing, TypeOK
    <3>4. QED
      BY <3>1, <3>2, <3>3
  <2>9. ASSUME NEW w \in Worker, Post(w)
        PROVE  Orphan(e)'
    BY <2>9 DEF Post, TypeOK
  <2>10. ASSUME NEW w \in Worker, RecordDelivered(w) \/ RecordFailure(w)
         PROVE  Orphan(e)'
    <3>1. row[w].event # e
      BY <2>10 DEF RecordDelivered, RecordFailure
    <3>2. status'[e] = status[e]
      BY <2>10, <3>1 DEF RecordDelivered, RecordFailure, TypeOK
    <3>3. \A v \in Worker : pc'[v] # "idle" => pc[v] # "idle" /\ row'[v] = row[v]
      BY <2>10 DEF RecordDelivered, RecordFailure, RowDone, TypeOK
    <3>4. QED
      BY <3>2, <3>3
  <2>11. ASSUME NEW w \in Worker, Crash(w)
         PROVE  Orphan(e)'
    BY <2>11 DEF Crash, events, TypeOK
  <2>12. CASE UNCHANGED vars
    BY <2>12 DEF vars, events, workers
  <2>13. QED
    BY <2>1, <2>2, <2>3, <2>4, <2>5, <2>6, <2>7, <2>8, <2>9, <2>10, <2>11, <2>12
    DEF Next, Deliver
<1>2. TypeOK /\ [Next]_vars =>
        [\A e \in Event : Orphan(e) /\ (\A w \in Worker : ~InBatch(w, e))
                            => Orphan(e)' \/ RetryWebhookEvent(e)]_vars
  BY <1>1
<1>3. QED
  BY <1>2, TypeCorrect, PTL DEF Spec, OrphanNeedsRetry

-------------------------------------------------------------------------------
\* The rows keep the promise of WebhookPromise: every step of the owner, the
\* visitors and the goroutines is a step of it or leaves it unchanged.
THEOREM RowsKeepPromise == Spec => KeepsPromise
<1>1. Init => Promise!Init
  BY DEF Init, obligation, Promise!Init
<1>2. ASSUME TypeOK, RowsAreQueued, [Next]_vars
      PROVE  [Promise!Next]_(Promise!vars)
  <2> USE <1>2 DEF obligation
  <2>1. ASSUME UNCHANGED <<status, received>>
        PROVE  UNCHANGED Promise!vars
    BY <2>1 DEF Promise!vars
  <2>2. ASSUME NEW e \in Event, status[e] # "none", received' = received,
               \/ status' = status
               \/ \E s \in Status \ {"none"} :
                    /\ status' = [status EXCEPT ![e] = s]
                    /\ s = "delivered" => received[e]
        PROVE  [Promise!Next]_(Promise!vars)
    <3>1. CASE status' = status
      BY <2>1, <2>2, <3>1
    <3>2. ASSUME NEW s \in Status \ {"none"}, status' = [status EXCEPT ![e] = s],
                 s = "delivered" => received[e]
          PROVE  Promise!Next
      <4>1. obligation[e] # "none"
        BY <2>2 DEF TypeOK, Status
      <4>2. obligation' = [obligation EXCEPT ![e] =
                             IF s = "delivered" THEN "kept"
                             ELSE IF s = "dead" THEN "givenUp" ELSE "owed"]
        BY <3>2 DEF TypeOK, Status
      <4>3. CASE s = "delivered"
        BY <2>2, <3>2, <4>1, <4>2, <4>3 DEF Promise!Next, Promise!Keep
      <4>4. CASE s = "dead"
        BY <2>2, <4>1, <4>2, <4>4 DEF Promise!Next, Promise!GiveUp
      <4>5. CASE s \notin {"delivered", "dead"}
        BY <2>2, <4>1, <4>2, <4>5 DEF Promise!Next, Promise!Reopen
      <4>6. QED
        BY <4>3, <4>4, <4>5
    <3>3. QED
      BY <2>2, <3>1, <3>2
  <2>3. CASE AdminSetPlan
    BY <2>1, <2>3 DEF AdminSetPlan, events
  <2>4. ASSUME NEW u \in {"plain", "padded"}, NEW a \in BOOLEAN, UpsertLeadWebhook(u, a)
        PROVE  UNCHANGED Promise!vars
    BY <2>1, <2>4 DEF UpsertLeadWebhook, events
  <2>5. ASSUME NEW e \in Event, PublicContact(e) \/ LeadWebhookTest(e)
        PROVE  Promise!Next
    <3>1. /\ status[e] = "none"
          /\ status' = [status EXCEPT ![e] = "pending"]
          /\ received' = received
      BY <2>5 DEF PublicContact, LeadWebhookTest, QueueWebhookEvent
    <3>2. obligation[e] = "none" /\ obligation' = [obligation EXCEPT ![e] = "owed"]
      BY <3>1 DEF TypeOK, Status
    <3>3. QED
      BY <3>1, <3>2 DEF Promise!Next, Promise!Submit
  <2>6. ASSUME NEW e \in Event, RetryWebhookEvent(e)
        PROVE  [Promise!Next]_(Promise!vars)
    <3>1. /\ status[e] # "none"
          /\ received' = received
          /\ \E s \in {"pending"} : status' = [status EXCEPT ![e] = s]
      BY <2>6 DEF RetryWebhookEvent
    <3>2. QED
      BY <2>2, <3>1 DEF Status
  <2>7. ASSUME NEW e \in Event, TimePasses(e)
        PROVE  UNCHANGED Promise!vars
    BY <2>1, <2>7 DEF TimePasses
  <2>8. ASSUME NEW w \in Worker, Fetch(w) \/ Crash(w)
        PROVE  UNCHANGED Promise!vars
    BY <2>1, <2>8 DEF Fetch, Crash, events
  <2>9. ASSUME NEW w \in Worker, NEW r \in batch[w], BlockTarget(w, r) \/ MarkProcessing(w, r)
        PROVE  [Promise!Next]_(Promise!vars)
    <3>1. r.event \in Event /\ status[r.event] # "none"
      BY HeldRows DEF RowsAreQueued
    <3>2. /\ received' = received
          /\ \/ status' = status
             \/ \E s \in {"dead", "processing"} : status' = [status EXCEPT ![r.event] = s]
      BY <2>9 DEF BlockTarget, MarkProcessing
    <3>3. QED
      BY <2>2, <3>1, <3>2 DEF Status
  <2>10. ASSUME NEW w \in Worker, Post(w)
         PROVE  [Promise!Next]_(Promise!vars)
    <3>1. row[w].event \in Event /\ status[row[w].event] # "none"
      BY <2>10, HeldRows DEF RowsAreQueued, Post, Busy
    <3>2. obligation[row[w].event] # "none" /\ obligation' = obligation
      BY <2>10, <3>1 DEF Post, TypeOK, Status
    <3>3. received' = received \/ received' = [received EXCEPT ![row[w].event] = TRUE]
      <4>1. PICK arrived \in BOOLEAN :
              received' = [received EXCEPT ![row[w].event] = received[row[w].event] \/ arrived]
        BY <2>10 DEF Post
      <4>2. CASE arrived
        BY <4>1, <4>2
      <4>3. CASE ~arrived
        BY <3>1, <4>1, <4>3 DEF TypeOK
      <4>4. QED
        BY <4>2, <4>3
    <3>4. QED
      BY <3>1, <3>2, <3>3 DEF Promise!Next, Promise!Receive, Promise!vars
  <2>11. ASSUME NEW w \in Worker, RecordDelivered(w) \/ RecordFailure(w)
         PROVE  [Promise!Next]_(Promise!vars)
    <3>1. row[w].event \in Event /\ status[row[w].event] # "none"
      BY <2>11, HeldRows DEF RowsAreQueued, RecordDelivered, RecordFailure, Busy
    <3>2. CASE RecordDelivered(w)
      BY <2>2, <3>1, <3>2 DEF RecordDelivered, RowsAreQueued, Status
    <3>3. CASE RecordFailure(w)
      <4>1. FailureStatus(row[w]) \in {"dead", "retrying"}
        BY DEF FailureStatus
      <4>2. /\ received' = received
            /\ \/ status' = status
               \/ status' = [status EXCEPT ![row[w].event] = FailureStatus(row[w])]
        BY <3>3 DEF RecordFailure
      <4>3. QED
        BY <2>2, <3>1, <4>1, <4>2 DEF Status
    <3>4. QED
      BY <2>11, <3>2, <3>3
  <2>12. CASE UNCHANGED vars
    BY <2>1, <2>12 DEF vars, events
  <2>13. QED
    BY <2>3, <2>4, <2>5, <2>6, <2>7, <2>8, <2>9, <2>10, <2>11, <2>12
    DEF Next, Deliver
<1>3. Init => RowsAreQueued /\ DeliveredWasReceived
  BY DEF Init, RowsAreQueued, DeliveredWasReceived, Busy
<1>4. QED
  BY <1>1, <1>2, <1>3, TypeCorrect, DeliveredInduction, PTL
  DEF Spec, KeepsPromise, Promise!Spec

-------------------------------------------------------------------------------
LEMMA SingleProcessInduction ==
  ASSUME TypeOK, SnapshotsLead, [Next]_vars
  PROVE  SnapshotsLead'
<1> SUFFICES ASSUME \A w, v \in Worker : w = v
             PROVE  SnapshotsLead'
  BY DEF SnapshotsLead
<1> DEFINE Rows == \A e \in Event :
             /\ attempts[e] <= MaxAttempts
             /\ status[e] = "none" => attempts[e] = 0
             /\ status[e] \in {"pending", "retrying"} => attempts[e] < MaxAttempts
           Waiting == \A w \in Worker : \A r \in batch[w] :
             /\ attempts[r.event] <= r.attempts
             /\ r.attempts < MaxAttempts
             /\ status[r.event] # "delivered"
             /\ \A q \in batch[w] : q.event = r.event => q = r
             /\ pc[w] # "idle" => row[w].event # r.event
           Held == \A w \in Worker : pc[w] # "idle" =>
             /\ attempts[row[w].event] <= row[w].attempts + 1
             /\ row[w].attempts < MaxAttempts
             /\ status[row[w].event] # "delivered"
<1>a. Rows /\ Waiting /\ Held
  BY DEF SnapshotsLead, Busy
<1>b. SUFFICES Rows' /\ Waiting' /\ Held'
  BY DEF SnapshotsLead, Busy
<1>c. /\ MaxAttempts \in Nat \ {0}
      /\ attempts \in [Event -> Nat] /\ status \in [Event -> Status]
      /\ \A w \in Worker : \A r \in batch[w] : r.event \in Event /\ r.attempts \in Nat
      /\ \A w \in Worker : pc[w] # "idle" => row[w].event \in Event /\ row[w].attempts \in Nat
  BY HeldRows, ConstantsAssumption DEF TypeOK, Busy
<1>1. CASE AdminSetPlan
  BY <1>1, <1>a DEF AdminSetPlan, events, workers
<1>2. ASSUME NEW u \in {"plain", "padded"}, NEW a \in BOOLEAN, UpsertLeadWebhook(u, a)
      PROVE  Rows' /\ Waiting' /\ Held'
  BY <1>2, <1>a DEF UpsertLeadWebhook, events, workers
<1>3. ASSUME NEW e \in Event, PublicContact(e) \/ LeadWebhookTest(e)
      PROVE  Rows' /\ Waiting' /\ Held'
  <2>1. /\ status[e] = "none" /\ attempts' = attempts
        /\ status' = [status EXCEPT ![e] = "pending"]
        /\ batch' = batch /\ pc' = pc /\ row' = row
    BY <1>3 DEF PublicContact, LeadWebhookTest, QueueWebhookEvent, workers
  <2>2. Rows'
    BY <1>a, <1>c, <2>1
  <2>3. Waiting' /\ Held'
    BY <1>a, <1>c, <2>1
  <2>4. QED
    BY <2>2, <2>3
<1>4. ASSUME NEW e \in Event, RetryWebhookEvent(e)
      PROVE  Rows' /\ Waiting' /\ Held'
  <2>1. /\ attempts' = [attempts EXCEPT ![e] = 0]
        /\ status' = [status EXCEPT ![e] = "pending"]
        /\ batch' = batch /\ pc' = pc /\ row' = row
    BY <1>4 DEF RetryWebhookEvent, workers
  <2>2. Rows'
    BY <1>a, <1>c, <2>1
  <2>3. Waiting'
    BY <1>a, <1>c, <2>1
  <2>4. Held'
    BY <1>a, <1>c, <2>1
  <2>5. QED
    BY <2>2, <2>3, <2>4
<1>5. ASSUME NEW e \in Event, TimePasses(e)
      PROVE  Rows' /\ Waiting' /\ Held'
  BY <1>5, <1>a DEF TimePasses, workers
<1>6. ASSUME NEW w \in Worker, Fetch(w)
      PROVE  Rows' /\ Waiting' /\ Held'
  <2>1. /\ pc[w] = "idle" /\ pc' = pc /\ row' = row
        /\ status' = status /\ attempts' = attempts
    BY <1>6 DEF Fetch, events
  <2>2. Waiting'
    BY <1>6, <1>a, <1>c, <2>1, FetchedRows
  <2>3. QED
    BY <1>a, <2>1, <2>2
<1>7. ASSUME NEW w \in Worker, NEW r \in batch[w], BlockTarget(w, r)
      PROVE  Rows' /\ Waiting' /\ Held'
  <2>1. \A v \in Worker : batch'[v] \subseteq batch[v]
    BY <1>7 DEF BlockTarget, TakeRow, TypeOK
  <2>2. /\ attempts' = attempts /\ pc' = pc /\ row' = row
        /\ \A e \in Event : status'[e] \in {status[e], "dead"}
    BY <1>7, <1>c DEF BlockTarget
  <2>3. QED
    BY <1>a, <1>c, <2>1, <2>2
<1>8. ASSUME NEW w \in Worker, NEW r \in batch[w], MarkProcessing(w, r)
      PROVE  Rows' /\ Waiting' /\ Held'
  <2>1. batch'[w] = batch[w] \ {r} /\ pc[w] = "idle"
    BY <1>8 DEF MarkProcessing, TakeRow, TypeOK
  <2>2. \A e \in Event : e # r.event => status'[e] = status[e] /\ attempts'[e] = attempts[e]
    BY <1>8, <1>c DEF MarkProcessing
  <2>3. \/ status'[r.event] = "processing" /\ attempts'[r.event] = attempts[r.event] + 1
        \/ status' = status /\ attempts' = attempts
    BY <1>8, <1>c DEF MarkProcessing
  <2>4. pc'[w] # "idle" => row'[w] = r
    BY <1>8, <2>1 DEF MarkProcessing, TypeOK
  <2>5. Rows'
    BY <1>a, <1>c, <2>2, <2>3
  <2>6. \A q \in batch'[w] : q.event # r.event
    BY <1>a, <2>1
  <2>7. Waiting'
    BY <1>a, <1>c, <2>1, <2>2, <2>4, <2>6
  <2>8. Held'
    BY <1>a, <1>c, <2>3, <2>4
  <2>9. QED
    BY <2>5, <2>7, <2>8
<1>9. ASSUME NEW w \in Worker, Post(w)
      PROVE  Rows' /\ Waiting' /\ Held'
  <2>1. \A v \in Worker : pc'[v] # "idle" => pc[v] # "idle"
    BY <1>9 DEF Post, TypeOK
  <2>2. UNCHANGED <<attempts, status, batch, row>>
    BY <1>9 DEF Post
  <2>3. QED
    BY <1>a, <2>1, <2>2
<1>10. ASSUME NEW w \in Worker, RecordDelivered(w) \/ RecordFailure(w)
       PROVE  Rows' /\ Waiting' /\ Held'
  <2>1. pc[w] # "idle" /\ pc'[w] = "idle" /\ batch' = batch /\ attempts' = attempts
    BY <1>10 DEF RecordDelivered, RecordFailure, RowDone, TypeOK
  <2>2. \A e \in Event : e # row[w].event => status'[e] = status[e]
    BY <1>10, <1>c DEF RecordDelivered, RecordFailure
  <2>3. /\ status'[row[w].event] = "none" => status[row[w].event] = "none"
        /\ status'[row[w].event] \in {"pending", "retrying"} =>
             \/ status[row[w].event] \in {"pending", "retrying"}
             \/ row[w].attempts + 1 < MaxAttempts
    BY <1>10, <1>c, <2>1 DEF RecordDelivered, RecordFailure, FailureStatus, Exhausted
  <2>4. Rows'
    BY <1>a, <1>c, <2>1, <2>2, <2>3
  <2>5. Waiting' /\ Held'
    BY <1>a, <1>c, <2>1, <2>2
  <2>6. QED
    BY <2>4, <2>5
<1>11. ASSUME NEW w \in Worker, Crash(w)
       PROVE  Rows' /\ Waiting' /\ Held'
  <2>1. pc'[w] = "idle" /\ batch'[w] = {} /\ attempts' = attempts /\ status' = status
    BY <1>11 DEF Crash, TypeOK, events
  <2>2. QED
    BY <1>a, <2>1
<1>12. CASE UNCHANGED vars
  BY <1>12, <1>a DEF vars, events, workers
<1>13. QED
  BY <1>1, <1>2, <1>3, <1>4, <1>5, <1>6, <1>7, <1>8, <1>9, <1>10, <1>11, <1>12
  DEF Next, Deliver

\* With one server process the attempts column never passes max_attempts, the
\* owner's manual retries in the middle of a delivery included.
THEOREM SingleProcessKeepsBudget == Spec => []BudgetKept
<1>1. Init => SnapshotsLead
  BY ConstantsAssumption DEF Init, SnapshotsLead, Busy
<1>2. SnapshotsLead => BudgetKept
  BY DEF SnapshotsLead, BudgetKept
<1>3. QED
  BY <1>1, <1>2, TypeCorrect, SingleProcessInduction, PTL DEF Spec

\* With one server process only the owner reopens a delivered event.
THEOREM SingleProcessKeepsDelivered == Spec => DeliveredStays
<1>1. ASSUME TypeOK, SnapshotsLead, [Next]_vars, \A w, v \in Worker : w = v,
             NEW e \in Event, status[e] = "delivered"
      PROVE  status'[e] = "delivered" \/ RetryWebhookEvent(e)
  <2> USE <1>1
  <2>1. /\ \A w \in Worker : \A r \in batch[w] : r.event # e
        /\ \A w \in Worker : pc[w] # "idle" => row[w].event # e
    BY DEF SnapshotsLead, Busy
  <2>2. CASE \E f \in Event : PublicContact(f) \/ LeadWebhookTest(f) \/ RetryWebhookEvent(f)
    BY <2>2 DEF PublicContact, LeadWebhookTest, QueueWebhookEvent, RetryWebhookEvent, TypeOK
  <2>3. CASE \E w \in Worker : \E r \in batch[w] : BlockTarget(w, r) \/ MarkProcessing(w, r)
    BY <2>1, <2>3 DEF BlockTarget, MarkProcessing, TypeOK
  <2>4. CASE \E w \in Worker : RecordDelivered(w) \/ RecordFailure(w)
    BY <2>1, <2>4 DEF RecordDelivered, RecordFailure, TypeOK
  <2>5. CASE UNCHANGED status
    BY <2>5
  <2>6. QED
    BY <2>2, <2>3, <2>4, <2>5
    DEF Next, Deliver, AdminSetPlan, UpsertLeadWebhook, TimePasses, Fetch, Post, Crash,
        vars, events
<1>2. TypeOK /\ SnapshotsLead /\ [Next]_vars =>
        [(\A w, v \in Worker : w = v) =>
           \A e \in Event : status[e] = "delivered" =>
             status'[e] = "delivered" \/ RetryWebhookEvent(e)]_vars
  BY <1>1
<1>3. Init => SnapshotsLead
  BY ConstantsAssumption DEF Init, SnapshotsLead, Busy
<1>4. QED
  BY <1>2, <1>3, TypeCorrect, SingleProcessInduction, PTL DEF Spec, DeliveredStays

-------------------------------------------------------------------------------
(***************************************************************************)
(* Progress, with one server process.                                      *)
(***************************************************************************)

LEMMA OpenInduction ==
  ASSUME TypeOK, SnapshotsLead, HeldIsOpen, [Next]_vars
  PROVE  HeldIsOpen'
<1> SUFFICES ASSUME \A w, v \in Worker : w = v, NEW w \in Worker
             PROVE  /\ \A r \in batch'[w] : status'[r.event] \in {"pending", "retrying"}
                    /\ pc'[w] # "idle" => status'[row'[w].event] \in {"pending", "retrying", "processing"}
  BY DEF HeldIsOpen, Busy
<1> DEFINE Open ==
      /\ \A r \in batch[w] : status[r.event] \in {"pending", "retrying"}
      /\ pc[w] # "idle" => status[row[w].event] \in {"pending", "retrying", "processing"}
<1>a. Open
  BY DEF HeldIsOpen, Busy
<1>b. /\ status \in [Event -> Status] /\ batch[w] \subseteq Row
      /\ \A r \in batch[w] : r.event \in Event
      /\ pc[w] # "idle" => row[w].event \in Event
  BY HeldRows DEF TypeOK, Busy
<1>c. SUFFICES Open'
  OBVIOUS
<1>1. ASSUME NEW e \in Event, PublicContact(e) \/ LeadWebhookTest(e) \/ RetryWebhookEvent(e)
      PROVE  Open'
  BY <1>1, <1>a, <1>b DEF PublicContact, LeadWebhookTest, QueueWebhookEvent, RetryWebhookEvent, workers
<1>2. CASE Fetch(w)
  <2>1. pc' = pc /\ pc[w] = "idle" /\ status' = status
    BY <1>2 DEF Fetch, events
  <2>2. QED
    BY <1>2, <2>1, FetchedRows
<1>3. ASSUME NEW r \in batch[w], BlockTarget(w, r) \/ MarkProcessing(w, r)
      PROVE  Open'
  <2>1. batch'[w] = batch[w] \ {r} /\ pc[w] = "idle"
    BY <1>3 DEF BlockTarget, MarkProcessing, TakeRow, TypeOK
  <2>2. \A q \in batch'[w] : q.event # r.event
    BY <2>1 DEF SnapshotsLead
  <2>3. \A q \in batch'[w] : status'[q.event] = status[q.event]
    BY <1>3, <1>b, <2>1, <2>2 DEF BlockTarget, MarkProcessing
  <2>4. pc'[w] # "idle" => row'[w] = r /\ status'[r.event] \in {"processing", status[r.event]}
    BY <1>3, <1>b, <2>1 DEF BlockTarget, MarkProcessing, TypeOK
  <2>5. QED
    BY <1>a, <2>1, <2>3, <2>4
<1>4. CASE Post(w)
  BY <1>4, <1>a, <1>b DEF Post
<1>5. CASE RecordDelivered(w) \/ RecordFailure(w)
  <2>1. pc[w] # "idle" /\ pc'[w] = "idle" /\ batch' = batch
    BY <1>5 DEF RecordDelivered, RecordFailure, RowDone, TypeOK
  <2>2. \A r \in batch[w] : row[w].event # r.event
    BY <2>1 DEF SnapshotsLead, Busy
  <2>3. \A r \in batch[w] : status'[r.event] = status[r.event]
    BY <1>5, <1>b, <2>2 DEF RecordDelivered, RecordFailure
  <2>4. QED
    BY <1>a, <2>1, <2>3
<1>6. CASE Crash(w)
  BY <1>6, <1>a DEF Crash, TypeOK, events
<1>7. CASE UNCHANGED <<status, workers>>
  BY <1>7, <1>a DEF workers
<1>8. QED
  BY <1>1, <1>2, <1>3, <1>4, <1>5, <1>6, <1>7
  DEF Next, Deliver, AdminSetPlan, UpsertLeadWebhook, TimePasses, vars, events

LEMMA OpenIsHeld == Spec => [](SnapshotsLead /\ HeldIsOpen)
<1>1. Init => SnapshotsLead /\ HeldIsOpen
  BY ConstantsAssumption DEF Init, SnapshotsLead, HeldIsOpen, Busy
<1>2. QED
  BY <1>1, TypeCorrect, SingleProcessInduction, OpenInduction, PTL DEF Spec

\* The attempts that are left to the events, the events that are not dead, and
\* what may still go wrong or be retried: a retry gives an event its attempts
\* back and may revive it.
Attempting == {x \in Event \X (1..MaxAttempts) : attempts[x[1]] < x[2]}
Alive      == {f \in Event : status[f] # "dead"}

Effort == Cardinality(Attempting) + Cardinality(Alive) + (MaxMishaps - mishaps)
            + (MaxAttempts + 2) * (MaxRetries - retries)

LEMMA EffortParts ==
  ASSUME IsFiniteSet(Event), TypeOK
  PROVE  /\ IsFiniteSet(Attempting) /\ Cardinality(Attempting) \in Nat
         /\ IsFiniteSet(Alive) /\ Cardinality(Alive) \in Nat
         /\ MaxMishaps - mishaps \in Nat /\ MaxRetries - retries \in Nat
         /\ (MaxAttempts + 2) * (MaxRetries - retries) \in Nat
         /\ Effort \in Nat
<1>1. IsFiniteSet(1..MaxAttempts)
  BY ConstantsAssumption, FS_Interval
<1>2. IsFiniteSet(Event \X (1..MaxAttempts))
  BY <1>1, FS_Product
<1>3. IsFiniteSet(Attempting) /\ IsFiniteSet(Alive)
  BY <1>2, FS_Subset DEF Attempting, Alive
<1>4. Cardinality(Attempting) \in Nat /\ Cardinality(Alive) \in Nat
  BY <1>3, FS_CardinalityType
<1>5. MaxMishaps - mishaps \in Nat /\ MaxRetries - retries \in Nat
  BY ConstantsAssumption DEF TypeOK
<1>6. \A k \in Nat, l \in Nat : (k + 2) * l \in Nat
  OBVIOUS
<1>7. (MaxAttempts + 2) * (MaxRetries - retries) \in Nat
  BY <1>5, <1>6, ConstantsAssumption
<1>8. QED
  BY <1>3, <1>4, <1>5, <1>7 DEF Effort

LEMMA EffortPartsNext ==
  IsFiniteSet(Event) /\ TypeOK'
    => (/\ IsFiniteSet(Attempting) /\ Cardinality(Attempting) \in Nat
        /\ IsFiniteSet(Alive) /\ Cardinality(Alive) \in Nat
        /\ MaxMishaps - mishaps \in Nat /\ MaxRetries - retries \in Nat
        /\ Effort \in Nat)'
<1>1. IsFiniteSet(Event) /\ TypeOK
    => /\ IsFiniteSet(Attempting) /\ Cardinality(Attempting) \in Nat
       /\ IsFiniteSet(Alive) /\ Cardinality(Alive) \in Nat
       /\ MaxMishaps - mishaps \in Nat /\ MaxRetries - retries \in Nat
       /\ Effort \in Nat
  BY EffortParts
<1>2. (IsFiniteSet(Event) /\ TypeOK)'
    => (/\ IsFiniteSet(Attempting) /\ Cardinality(Attempting) \in Nat
        /\ IsFiniteSet(Alive) /\ Cardinality(Alive) \in Nat
        /\ MaxMishaps - mishaps \in Nat /\ MaxRetries - retries \in Nat
        /\ Effort \in Nat)'
  BY <1>1, PTL
<1>3. QED
  BY <1>2

Eases == Effort \in Nat /\ Effort' \in Nat /\ Effort' < Effort
Keeps == Effort \in Nat /\ Effort' \in Nat /\ Effort' <= Effort

LEMMA PartFalls ==
  ASSUME NEW S, NEW T \in SUBSET S, IsFiniteSet(S)
  PROVE  /\ Cardinality(T) \in Nat /\ Cardinality(S) \in Nat
         /\ Cardinality(T) <= Cardinality(S)
         /\ T # S => Cardinality(T) < Cardinality(S)
<1>1. IsFiniteSet(T) /\ Cardinality(T) <= Cardinality(S) /\ (Cardinality(S) = Cardinality(T) => S = T)
  BY FS_Subset
<1>2. Cardinality(T) \in Nat /\ Cardinality(S) \in Nat
  BY <1>1, FS_CardinalityType
<1>3. QED
  BY <1>1, <1>2

LEMMA TermsFall ==
  ASSUME NEW a \in Nat, NEW b \in Nat, NEW m \in Nat, NEW c \in Nat, NEW max \in Nat,
         NEW a2 \in Nat, NEW b2 \in Nat, NEW m2 \in Nat, a2 <= a, b2 <= b, m2 >= m
  PROVE  /\ a2 + b2 + (max - m2) + c <= a + b + (max - m) + c
         /\ a2 < a \/ b2 < b \/ m2 > m => a2 + b2 + (max - m2) + c < a + b + (max - m) + c
OBVIOUS

\* A step that is no retry.
LEMMA EffortFalls ==
  ASSUME IsFiniteSet(Event), TypeOK, TypeOK', retries' = retries,
         Attempting' \subseteq Attempting, Alive' \subseteq Alive, mishaps' >= mishaps
  PROVE  /\ Keeps
         /\ Attempting' # Attempting \/ Alive' # Alive \/ mishaps' > mishaps => Eases
<1> DEFINE a  == Cardinality(Attempting)   b  == Cardinality(Alive)
           a2 == Cardinality(Attempting')  b2 == Cardinality(Alive')
           c  == (MaxAttempts + 2) * (MaxRetries - retries)
<1>1. /\ a \in Nat /\ a2 \in Nat /\ a2 <= a /\ (Attempting' # Attempting => a2 < a)
  BY EffortParts, PartFalls
<1>2. /\ b \in Nat /\ b2 \in Nat /\ b2 <= b /\ (Alive' # Alive => b2 < b)
  BY EffortParts, PartFalls
<1>3. mishaps \in Nat /\ mishaps' \in Nat /\ MaxMishaps \in Nat
  BY ConstantsAssumption DEF TypeOK
<1>4. c \in Nat /\ Effort \in Nat /\ Effort' \in Nat
  BY EffortParts, EffortPartsNext
<1>5. Effort = a + b + (MaxMishaps - mishaps) + c /\ Effort' = a2 + b2 + (MaxMishaps - mishaps') + c
  BY DEF Effort
<1>6. a2 <= a /\ b2 <= b /\ mishaps' >= mishaps
  BY <1>1, <1>2
<1>7. Attempting' # Attempting \/ Alive' # Alive \/ mishaps' > mishaps
        => a2 < a \/ b2 < b \/ mishaps' > mishaps
  BY <1>1, <1>2
<1>8. a \in Nat /\ a2 \in Nat /\ b \in Nat /\ b2 \in Nat
  BY <1>1, <1>2
<1> HIDE DEF a, b, a2, b2, c
<1>9. /\ a2 + b2 + (MaxMishaps - mishaps') + c <= a + b + (MaxMishaps - mishaps) + c
      /\ a2 < a \/ b2 < b \/ mishaps' > mishaps
           => a2 + b2 + (MaxMishaps - mishaps') + c < a + b + (MaxMishaps - mishaps) + c
  BY <1>3, <1>4, <1>6, <1>8, TermsFall
<1>10. QED
  BY <1>4, <1>5, <1>7, <1>9 DEF Keeps, Eases

LEMMA RetryEases ==
  ASSUME IsFiniteSet(Event), TypeOK, TypeOK', NEW f \in Event, RetryWebhookEvent(f)
  PROVE  Eases
<1> DEFINE its == {f} \X (1..MaxAttempts)
           a  == Cardinality(Attempting)   b  == Cardinality(Alive)
           a2 == Cardinality(Attempting')  b2 == Cardinality(Alive')
           l  == MaxRetries - retries
           k  == MaxAttempts
<1>1. IsFiniteSet(its) /\ Cardinality(its) = k
  <2>1. IsFiniteSet({f}) /\ Cardinality({f}) = 1
    BY FS_Singleton
  <2>2. IsFiniteSet(1..MaxAttempts) /\ Cardinality(1..MaxAttempts) = MaxAttempts
    BY ConstantsAssumption, FS_Interval
  <2>3. IsFiniteSet(its) /\ Cardinality(its) = Cardinality({f}) * Cardinality(1..MaxAttempts)
    <3> DEFINE single == {f}   numbers == 1..MaxAttempts
    <3>1. IsFiniteSet(single) /\ IsFiniteSet(numbers) /\ its = single \X numbers
      BY <2>1, <2>2
    <3> HIDE DEF its, single, numbers
    <3>2. IsFiniteSet(its) /\ Cardinality(its) = Cardinality(single) * Cardinality(numbers)
      BY <3>1, FS_Product
    <3>3. QED
      BY <3>2 DEF single, numbers
  <2>4. QED
    BY <2>1, <2>2, <2>3, ConstantsAssumption
<1>2. Attempting' \subseteq Attempting \cup its
  BY DEF RetryWebhookEvent, Attempting, TypeOK
<1>3. Alive' \subseteq Alive \cup {f}
  BY DEF RetryWebhookEvent, Alive, TypeOK
<1>4. a \in Nat /\ a2 \in Nat /\ a2 <= a + k
  <2>1. IsFiniteSet(Attempting \cup its)
    BY <1>1, EffortParts, FS_Union
  <2>2. Cardinality(Attempting \cup its) = a + k - Cardinality(Attempting \cap its)
    BY <1>1, EffortParts, FS_Union
  <2>3. Cardinality(Attempting \cap its) \in Nat
    BY <1>1, FS_Subset, FS_CardinalityType
  <2>4. a2 \in Nat /\ a2 <= Cardinality(Attempting \cup its) /\ a \in Nat
    BY <1>2, <2>1, PartFalls, EffortParts
  <2> HIDE DEF a, a2
  <2>5. QED
    BY <2>2, <2>3, <2>4, ConstantsAssumption
<1>5. b \in Nat /\ b2 \in Nat /\ b2 <= b + 1
  <2>1. IsFiniteSet(Alive \cup {f}) /\ Cardinality(Alive \cup {f}) \in {b, b + 1}
    BY EffortParts, FS_AddElement
  <2>2. b \in Nat /\ b2 \in Nat /\ b2 <= Cardinality(Alive \cup {f})
    BY <1>3, <2>1, PartFalls, EffortParts
  <2> HIDE DEF b, b2
  <2>3. QED
    BY <2>1, <2>2
<1>6. l \in Nat /\ l - 1 \in Nat /\ MaxRetries - retries' = l - 1 /\ mishaps' = mishaps /\ k \in Nat
  BY ConstantsAssumption DEF RetryWebhookEvent, TypeOK
<1>7. (k + 2) * (l - 1) = (k + 2) * l - (k + 2) /\ (k + 2) * l \in Nat
  <2>1. \A m \in Nat, n \in Nat : (m + 2) * (n - 1) = (m + 2) * n - (m + 2) /\ (m + 2) * n \in Nat
    OBVIOUS
  <2> HIDE DEF k, l
  <2>2. QED
    BY <1>6, <2>1
<1>8. MaxMishaps - mishaps \in Nat /\ Effort \in Nat /\ Effort' \in Nat
  BY EffortParts, EffortPartsNext
<1>9. /\ Effort = a + b + (MaxMishaps - mishaps) + (k + 2) * l
      /\ Effort' = a2 + b2 + (MaxMishaps - mishaps) + (k + 2) * (l - 1)
  BY <1>6 DEF Effort
<1> DEFINE m == MaxMishaps - mishaps   p == (k + 2) * l
<1>10. Effort = a + b + m + p /\ Effort' = a2 + b2 + m + (p - (k + 2)) /\ m \in Nat /\ p \in Nat
  BY <1>7, <1>8, <1>9
<1> HIDE DEF a, b, a2, b2, k, l, m, p
<1>11. QED
  BY <1>4, <1>5, <1>6, <1>8, <1>10 DEF Eases

\* The rows that a goroutine takes use up an attempt, or die.
LEMMA TakingEases ==
  ASSUME IsFiniteSet(Event), TypeOK, TypeOK', SnapshotsLead, HeldIsOpen,
         \A v, u \in Worker : v = u,
         NEW w \in Worker, NEW r \in batch[w], BlockTarget(w, r) \/ MarkProcessing(w, r)
  PROVE  Eases
<1> DEFINE f == r.event
<1>1. f \in Event /\ status[f] \in {"pending", "retrying"} /\ attempts[f] < MaxAttempts
  BY HeldRows DEF HeldIsOpen, SnapshotsLead
<1>2. attempts[f] \in Nat /\ attempts \in [Event -> Nat] /\ status \in [Event -> Status]
  BY <1>1 DEF TypeOK
<1>3. mishaps \in Nat
  BY ConstantsAssumption DEF TypeOK
<1> HIDE DEF f
<1>4. CASE status' = [status EXCEPT ![f] = "dead"] /\ UNCHANGED <<attempts, mishaps, retries>>
  <2>1. Alive' \subseteq Alive /\ f \in Alive /\ f \notin Alive' /\ Attempting' = Attempting
    BY <1>1, <1>2, <1>4 DEF Alive, Attempting
  <2>2. Eases
    BY <1>3, <1>4, <2>1, EffortFalls
  <2>3. QED
    BY <2>2
<1>5. CASE /\ status' = [status EXCEPT ![f] = "processing"]
           /\ attempts' = [attempts EXCEPT ![f] = @ + 1]
           /\ UNCHANGED <<mishaps, retries>>
  <2>1. Alive' \subseteq Alive
    BY <1>1, <1>2, <1>5 DEF Alive
  <2>2. Attempting' \subseteq Attempting
    BY <1>1, <1>2, <1>5 DEF Attempting
  <2>3. <<f, attempts[f] + 1>> \in Attempting /\ <<f, attempts[f] + 1>> \notin Attempting'
    BY <1>1, <1>2, <1>5, ConstantsAssumption DEF Attempting
  <2>4. QED
    BY <1>3, <1>5, <2>1, <2>2, <2>3, EffortFalls
<1>6. CASE Mishap /\ UNCHANGED <<status, attempts, retries>>
  <2>1. Alive' = Alive /\ Attempting' = Attempting
    BY <1>6 DEF Alive, Attempting
  <2>2. QED
    BY <1>3, <1>6, <2>1, EffortFalls DEF Mishap
<1>7. QED
  BY <1>4, <1>5, <1>6 DEF BlockTarget, MarkProcessing, f

\* Whatever else is written leaves the attempts, and revives nothing.
LEMMA OthersKeep ==
  ASSUME IsFiniteSet(Event), TypeOK, TypeOK', retries' = retries, attempts' = attempts,
         Alive' \subseteq Alive, mishaps' >= mishaps
  PROVE  Keeps /\ (mishaps' > mishaps => Eases)
<1>1. Attempting' = Attempting
  BY DEF Attempting
<1>2. QED
  BY <1>1, EffortFalls

LEMMA RecordKeeps ==
  ASSUME IsFiniteSet(Event), TypeOK, TypeOK', HeldIsOpen, \A v, u \in Worker : v = u,
         NEW w \in Worker, RecordDelivered(w) \/ RecordFailure(w)
  PROVE  Keeps /\ (mishaps' # mishaps => Eases)
<1>1. /\ row[w].event \in Event /\ status[row[w].event] # "dead"
  BY HeldRows DEF HeldIsOpen, Busy, RecordDelivered, RecordFailure
<1>2. Alive' \subseteq Alive
  BY <1>1 DEF RecordDelivered, RecordFailure, Alive, TypeOK, FailureStatus
<1>3. retries' = retries /\ attempts' = attempts /\ mishaps' \in {mishaps, mishaps + 1}
  BY DEF RecordDelivered, RecordFailure, Mishap
<1>4. mishaps \in Nat
  BY ConstantsAssumption DEF TypeOK
<1>5. QED
  BY <1>2, <1>3, <1>4, OthersKeep

\* The event is to be delivered, by the only process.
Owed(e) == status[e] # "none" /\ ~Settled(e)

LEMMA OwedStays ==
  ASSUME TypeOK, [Next]_vars, NEW e \in Event, Owed(e)
  PROVE  Owed(e)' \/ Settled(e)'
<1>1. status'[e] # "none"
  BY HeldRows DEF Owed, TypeOK, Next, vars, events, AdminSetPlan, UpsertLeadWebhook, PublicContact,
     LeadWebhookTest, QueueWebhookEvent, RetryWebhookEvent, TimePasses, Deliver, Fetch, BlockTarget,
     MarkProcessing, Post, RecordDelivered, RecordFailure, FailureStatus, Crash
<1>2. QED
  BY <1>1 DEF Owed

\* Where the goroutine is in its round.
Answered(w) == pc[w] \in {"succeeded", "failed"}
Holding(w)  == pc[w] = "idle" /\ batch[w] # {}
Looking(w)  == pc[w] = "idle" /\ batch[w] = {}

\* Every step keeps the effort, and leaves the goroutine where it is, unless it
\* is a step of the goroutine.
LEMMA OthersLeaveDelivery ==
  ASSUME IsFiniteSet(Event), TypeOK, TypeOK', [Next]_vars,
         \A v, u \in Worker : v = u, NEW w \in Worker, ~<<Deliver(w)>>_vars
  PROVE  Eases \/ (Keeps /\ UNCHANGED workers /\ \A e \in Event : due[e] => due'[e])
<1> DEFINE Same == UNCHANGED workers /\ \A e \in Event : due[e] => due'[e]
<1>a. mishaps \in Nat
  BY ConstantsAssumption DEF TypeOK
<1>1. ASSUME NEW e \in Event, RetryWebhookEvent(e)
      PROVE  Eases
  BY <1>1, RetryEases
<1>2. ASSUME NEW e \in Event, PublicContact(e) \/ LeadWebhookTest(e)
      PROVE  Keeps /\ Same
  <2>1. UNCHANGED <<retries, attempts, mishaps, workers, due>> /\ Alive' \subseteq Alive
    BY <1>2 DEF PublicContact, LeadWebhookTest, QueueWebhookEvent, Alive, TypeOK
  <2>2. QED
    BY <1>a, <2>1, OthersKeep
<1>3. CASE AdminSetPlan \/ (\E u \in {"plain", "padded"}, a \in BOOLEAN : UpsertLeadWebhook(u, a))
  <2>1. UNCHANGED <<retries, attempts, status, workers, due>> /\ mishaps' \in {mishaps, mishaps + 1}
    BY <1>3 DEF AdminSetPlan, UpsertLeadWebhook, Mishap, events
  <2>2. Alive' = Alive
    BY <2>1 DEF Alive
  <2>3. QED
    BY <1>a, <2>1, <2>2, OthersKeep
<1>4. ASSUME NEW e \in Event, TimePasses(e)
      PROVE  Keeps /\ Same
  <2>1. UNCHANGED <<retries, attempts, status, mishaps, workers>> /\ \A f \in Event : due[f] => due'[f]
    BY <1>4 DEF TimePasses, TypeOK
  <2>2. Alive' = Alive
    BY <2>1 DEF Alive
  <2>3. QED
    BY <1>a, <2>1, <2>2, OthersKeep
<1>5. CASE Crash(w)
  <2>1. UNCHANGED <<retries, attempts, status>> /\ mishaps' = mishaps + 1
    BY <1>5 DEF Crash, Mishap, events
  <2>2. Alive' = Alive
    BY <2>1 DEF Alive
  <2>3. QED
    BY <1>a, <2>1, <2>2, OthersKeep
<1>6. CASE UNCHANGED vars
  <2>1. UNCHANGED <<retries, attempts, status, mishaps, workers, due>>
    BY <1>6 DEF vars, events
  <2>2. Alive' = Alive
    BY <2>1 DEF Alive
  <2>3. QED
    BY <1>a, <2>1, <2>2, OthersKeep
<1>7. QED
  BY <1>1, <1>2, <1>3, <1>4, <1>5, <1>6 DEF Next

\* The rounds of the goroutine.
LEMMA DeliveryGoesOn ==
  ASSUME IsFiniteSet(Event), TypeOK, TypeOK', SnapshotsLead, HeldIsOpen,
         \A v, u \in Worker : v = u, NEW w \in Worker, <<Deliver(w)>>_vars
  PROVE  \/ Eases
         \/ /\ Keeps
            /\ \/ pc[w] = "posting" /\ (Answered(w)' \/ pc'[w] = "hung")
               \/ Answered(w) /\ (Holding(w)' \/ Looking(w)')
               \/ Looking(w) /\ Holding(w)' 
<1>a. mishaps \in Nat
  BY ConstantsAssumption DEF TypeOK
<1>1. CASE Fetch(w)
  <2>1. UNCHANGED <<retries, attempts, status, mishaps, pc>> /\ Looking(w)
    BY <1>1 DEF Fetch, events, Looking
  <2>2. Alive' = Alive
    BY <2>1 DEF Alive
  <2>3. Keeps
    BY <1>a, <2>1, <2>2, OthersKeep
  <2>4. batch'[w] # {}
    <3>1. SUFFICES ASSUME batch'[w] = {} PROVE UNCHANGED vars
      OBVIOUS
    <3>2. batch' = batch
      BY <1>1, <3>1 DEF Fetch, TypeOK
    <3>3. QED
      BY <1>1, <3>2 DEF Fetch, vars, workers
  <2>5. QED
    BY <2>1, <2>3, <2>4 DEF Looking, Holding
<1>2. CASE \E r \in batch[w] : BlockTarget(w, r) \/ MarkProcessing(w, r)
  BY <1>2, TakingEases
<1>3. CASE Post(w)
  <2>1. UNCHANGED <<retries, attempts, status, mishaps>>
    BY <1>3 DEF Post
  <2>2. Alive' = Alive
    BY <2>1 DEF Alive
  <2>3. pc[w] = "posting" /\ (Answered(w)' \/ pc'[w] = "hung")
    BY <1>3 DEF Post, Answered, TypeOK
  <2>4. QED
    BY <1>a, <2>1, <2>2, <2>3, OthersKeep
<1>4. CASE RecordDelivered(w) \/ RecordFailure(w)
  <2>1. Answered(w) /\ pc'[w] = "idle"
    BY <1>4 DEF RecordDelivered, RecordFailure, RowDone, Answered, TypeOK
  <2>2. QED
    BY <1>4, <2>1, RecordKeeps DEF Holding, Looking
<1>5. QED
  BY <1>1, <1>2, <1>3, <1>4 DEF Deliver

\* The event is owed, with an effort of n + 1 at most.
OnTheWay(e, n, stage) == Owed(e) /\ Effort <= n + 1 /\ stage

Eased(e, n) == Settled(e) \/ Effort <= n

LEMMA DeliveryStays ==
  ASSUME IsFiniteSet(Event), TypeOK, TypeOK', [Next]_vars,
         \A v, u \in Worker : v = u, NEW w \in Worker, ~<<Deliver(w)>>_vars,
         NEW e \in Event, NEW n \in Nat, Owed(e), Effort <= n + 1
  PROVE  \/ Eased(e, n)'
         \/ /\ (Owed(e) /\ Effort <= n + 1)'
            /\ UNCHANGED workers /\ (due[e] => due'[e])
<1>1. Owed(e)' \/ Settled(e)'
  BY OwedStays
<1>2. Eases => Effort' <= n
  BY DEF Eases
<1>3. Keeps => Effort' <= n + 1
  BY DEF Keeps
<1>4. QED
  BY <1>1, <1>2, <1>3, OthersLeaveDelivery DEF Eased

LEMMA DeliveryAdvances ==
  ASSUME IsFiniteSet(Event), TypeOK, TypeOK', SnapshotsLead, HeldIsOpen, [Next]_vars,
         \A v, u \in Worker : v = u, NEW w \in Worker, <<Deliver(w)>>_vars,
         NEW e \in Event, NEW n \in Nat, Owed(e), Effort <= n + 1
  PROVE  \/ Eased(e, n)'
         \/ /\ (Owed(e) /\ Effort <= n + 1)'
            /\ \/ pc[w] = "posting" /\ Answered(w)'
               \/ Answered(w) /\ (Holding(w)' \/ Looking(w)')
               \/ Looking(w) /\ Holding(w)'
<1>1. Owed(e)' \/ Settled(e)'
  BY OwedStays
<1>2. Eases => Effort' <= n
  BY DEF Eases
<1>3. Keeps => Effort' <= n + 1
  BY DEF Keeps
<1>4. pc'[w] = "hung" => Settled(e)'
  BY DEF Settled
<1>5. QED
  BY <1>1, <1>2, <1>3, <1>4, DeliveryGoesOn DEF Eased

\* What holds from any moment on, once the endpoint stays active.
Delivering(w, e) ==
  /\ [][Next]_vars /\ []TypeOK /\ []SnapshotsLead /\ []HeldIsOpen
  /\ []DeliveriesGoOn /\ KeepsDelivering(w) /\ KeepsTime(e)

EasesFrom(e, n) == Owed(e) /\ Effort <= n + 1 ~> Eased(e, n)

\* The goroutine comes to what makes the effort smaller, unless the event is
\* settled before.
LEMMA EffortEases ==
  ASSUME IsFiniteSet(Event), \A v, u \in Worker : v = u, NEW w \in Worker,
         NEW e \in Event, NEW n \in Nat
  PROVE  Delivering(w, e) /\ []active => EasesFrom(e, n)
<1> DEFINE Posting == OnTheWay(e, n, pc[w] = "posting")
           Recording == OnTheWay(e, n, Answered(w))
           Taking == OnTheWay(e, n, Holding(w))
           Fetching == OnTheWay(e, n, Looking(w) /\ due[e])
           Resting == OnTheWay(e, n, Looking(w) /\ ~due[e])
<1>1. TypeOK /\ Owed(e) /\ Effort <= n + 1
        => Posting \/ Recording \/ Taking \/ Fetching \/ Resting
  BY DEF TypeOK, Owed, Settled, OnTheWay, Answered, Holding, Looking
<1>2. TypeOK /\ DeliveriesGoOn /\ active /\ (Posting \/ Recording \/ Taking \/ Fetching)
        => ENABLED <<Deliver(w)>>_vars
  <2>1. TypeOK /\ active /\ Fetching => e \in Selectable
    BY DEF TypeOK, Status, OnTheWay, Owed, Settled, Orphan, Holds, Looking, Selectable
  <2>2. QED
    BY <2>1 DEF DeliveriesGoOn, OnTheWay, Answered, Holding, Looking
<1>3. DeliveriesGoOn /\ Resting => ENABLED <<TimePasses(e)>>_vars
  BY DEF DeliveriesGoOn, OnTheWay
<1>4. TypeOK /\ TypeOK' /\ SnapshotsLead /\ HeldIsOpen /\ [Next]_vars
        => /\ Posting => \/ Posting' /\ ~<<Deliver(w)>>_vars
                         \/ Recording' \/ Eased(e, n)'
           /\ Recording => \/ Recording' /\ ~<<Deliver(w)>>_vars
                           \/ Taking' \/ Fetching' \/ Resting' \/ Eased(e, n)'
           /\ Taking => \/ Taking' /\ ~<<Deliver(w)>>_vars
                        \/ Eased(e, n)'
           /\ Fetching => \/ Fetching' /\ ~<<Deliver(w)>>_vars
                          \/ Taking' \/ Eased(e, n)'
           /\ Resting => \/ Resting' /\ ~<<TimePasses(e)>>_vars
                         \/ Fetching' \/ Taking' \/ Eased(e, n)'
  <2> SUFFICES ASSUME TypeOK, TypeOK', SnapshotsLead, HeldIsOpen, [Next]_vars
               PROVE  /\ Posting => \/ Posting' /\ ~<<Deliver(w)>>_vars
                                    \/ Recording' \/ Eased(e, n)'
                      /\ Recording => \/ Recording' /\ ~<<Deliver(w)>>_vars
                                      \/ Taking' \/ Fetching' \/ Resting' \/ Eased(e, n)'
                      /\ Taking => \/ Taking' /\ ~<<Deliver(w)>>_vars
                                   \/ Eased(e, n)'
                      /\ Fetching => \/ Fetching' /\ ~<<Deliver(w)>>_vars
                                     \/ Taking' \/ Eased(e, n)'
                      /\ Resting => \/ Resting' /\ ~<<TimePasses(e)>>_vars
                                    \/ Fetching' \/ Taking' \/ Eased(e, n)'
    OBVIOUS
  <2>1. CASE <<Deliver(w)>>_vars
    <3>1. /\ Posting => Recording' \/ Eased(e, n)'
          /\ Recording => Taking' \/ Fetching' \/ Resting' \/ Eased(e, n)'
          /\ Taking => Eased(e, n)'
          /\ Fetching => Taking' \/ Eased(e, n)'
          /\ Resting => Taking' \/ Eased(e, n)'
      BY <2>1, DeliveryAdvances DEF OnTheWay, Answered, Holding, Looking
    <3> HIDE DEF Posting, Recording, Taking, Fetching, Resting
    <3>2. QED
      BY <3>1
  <2>2. CASE ~<<Deliver(w)>>_vars
    <3>1. /\ Posting => Posting' \/ Eased(e, n)'
          /\ Recording => Recording' \/ Eased(e, n)'
          /\ Taking => Taking' \/ Eased(e, n)'
          /\ Fetching => Fetching' \/ Eased(e, n)'
          /\ Resting => Resting' \/ Fetching' \/ Eased(e, n)'
      BY <2>2, DeliveryStays DEF OnTheWay, workers, Answered, Holding, Looking
    <3>2. Resting /\ TimePasses(e) => Fetching' \/ Eased(e, n)'
      <4>1. TimePasses(e) => due'[e]
        BY DEF TimePasses, TypeOK
      <4>2. QED
        BY <3>1, <4>1 DEF OnTheWay
    <3> HIDE DEF Posting, Recording, Taking, Fetching, Resting
    <3>3. QED
      BY <2>2, <3>1, <3>2
  <2>3. QED
    BY <2>1, <2>2
<1> HIDE DEF Posting, Recording, Taking, Fetching, Resting
<1>5. QED
  BY <1>1, <1>2, <1>3, <1>4, PTL DEF Delivering, KeepsDelivering, KeepsTime, EasesFrom

SettlesWithin(e, n) == Owed(e) /\ Effort <= n ~> Settled(e)

LEMMA NoEffortIsLeft ==
  ASSUME IsFiniteSet(Event), \A v, u \in Worker : v = u, NEW w \in Worker, NEW e \in Event
  PROVE  Delivering(w, e) /\ []active => SettlesWithin(e, 0)
<1>1. TypeOK /\ Owed(e) => Effort > 0
  <2> SUFFICES ASSUME TypeOK, Owed(e) PROVE Effort > 0
    OBVIOUS
  <2>1. e \in Alive
    BY DEF Owed, Settled, Alive
  <2>2. Cardinality(Alive) # 0
    BY <2>1, EffortParts, FS_EmptySet
  <2>3. QED
    BY <2>2, EffortParts DEF Effort
<1>2. TypeOK => Effort \in Nat
  BY EffortParts
<1>3. TypeOK => ~(Owed(e) /\ Effort <= 0)
  BY <1>1, <1>2
<1>4. QED
  BY <1>3, PTL DEF Delivering, SettlesWithin

LEMMA MoreEffortSettles ==
  ASSUME IsFiniteSet(Event), \A v, u \in Worker : v = u, NEW w \in Worker,
         NEW e \in Event, NEW n \in Nat
  PROVE  Delivering(w, e) /\ []active => (SettlesWithin(e, n) => SettlesWithin(e, n + 1))
<1>1. Delivering(w, e) /\ []active => EasesFrom(e, n)
  BY EffortEases
<1>2. TypeOK /\ [Next]_vars /\ Owed(e) => Owed(e)' \/ Settled(e)'
  BY OwedStays
<1>3. QED
  BY <1>1, <1>2, PTL DEF Delivering, EasesFrom, Eased, SettlesWithin

\* Induction over the natural numbers, for the formula SettlesWithin(e, _).  It
\* holds of every behaviour; it is a hypothesis because that formula is temporal.
EffortInduction(e) ==
  SettlesWithin(e, 0) /\ (\A n \in Nat : SettlesWithin(e, n) => SettlesWithin(e, n + 1))
    => \A n \in Nat : SettlesWithin(e, n)

SettlesSoon(e, n) == Owed(e) /\ Effort <= n => <>Settled(e)

LEMMA OwedSettles ==
  ASSUME IsFiniteSet(Event), \A v, u \in Worker : v = u, NEW w \in Worker, NEW e \in Event
  PROVE  Delivering(w, e) /\ []EffortInduction(e) /\ []active => (Owed(e) ~> Settled(e))
<1>1. Delivering(w, e) /\ []active
        => SettlesWithin(e, 0) /\ \A n \in Nat : SettlesWithin(e, n) => SettlesWithin(e, n + 1)
  BY NoEffortIsLeft, MoreEffortSettles
<1>2. Delivering(w, e) /\ []active /\ EffortInduction(e) => \A n \in Nat : SettlesWithin(e, n)
  BY <1>1 DEF EffortInduction
<1>3. ASSUME NEW n \in Nat
      PROVE  SettlesWithin(e, n) => SettlesSoon(e, n)
  BY PTL DEF SettlesWithin, SettlesSoon
<1>4. Delivering(w, e) /\ []active /\ EffortInduction(e) => \A n \in Nat : SettlesSoon(e, n)
  BY <1>2, <1>3
<1>5. TypeOK /\ (\A n \in Nat : SettlesSoon(e, n)) => (Owed(e) => <>Settled(e))
  <2>1. TypeOK => \E n \in Nat : Effort <= n
    BY EffortParts
  <2>2. QED
    BY <2>1 DEF SettlesSoon
<1>6. QED
  BY <1>4, <1>5, PTL DEF Delivering, KeepsDelivering, KeepsTime

\* With one server process a queued event is in the end delivered, dead,
\* stranded or behind a request that is never answered, if the endpoint stays
\* active: neither the older events that the batches take first nor the owner's
\* changes and retries hold it up for ever.
THEOREM SingleProcessSettles ==
  ASSUME IsFiniteSet(Event), \A w, v \in Worker : w = v
  PROVE  FairSpec /\ []DeliveriesGoOn /\ (\A e \in Event : []EffortInduction(e)) => Settles
<1>1. ASSUME NEW e \in Event
      PROVE  FairSpec /\ []DeliveriesGoOn /\ []EffortInduction(e)
               => (<>[]active => (status[e] \in {"pending", "retrying"} ~> Settled(e)))
  <2>1. CASE Worker = {}
    <3>1. Settled(e)
      BY <2>1 DEF Settled
    <3>2. QED
      BY <3>1, PTL
  <2>2. ASSUME NEW w \in Worker
        PROVE  FairSpec /\ []DeliveriesGoOn /\ []EffortInduction(e)
                 => (<>[]active => (status[e] \in {"pending", "retrying"} ~> Settled(e)))
    <3>1. FairSpec => KeepsDelivering(w) /\ KeepsTime(e) /\ Spec
      BY DEF FairSpec, Fairness
    <3>2. FairSpec /\ []DeliveriesGoOn => Delivering(w, e)
      BY <3>1, TypeCorrect, OpenIsHeld, PTL DEF Spec, Delivering
    <3>3. TypeOK /\ [Next]_vars /\ Owed(e) => Owed(e)' \/ Settled(e)'
      BY OwedStays
    <3>4. status[e] \in {"pending", "retrying"} => Owed(e) \/ Settled(e)
      BY DEF Owed
    <3>5. Delivering(w, e) /\ []EffortInduction(e) /\ []active => (Owed(e) ~> Settled(e))
      BY OwedSettles
    <3>6. QED
      BY <3>2, <3>3, <3>4, <3>5, PTL DEF Delivering, KeepsDelivering, KeepsTime
  <2>3. QED
    BY <2>1, <2>2
<1>2. QED
  BY <1>1 DEF Settles

-------------------------------------------------------------------------------
(***************************************************************************)
(* Migrator.                                                               *)
(***************************************************************************)
LEMMA LockTypes ==
  ASSUME MigratorTypeOK, NEW p \in Starter, LockIsLost(p)
  PROVE  lock' \in Starter \cup {"free", "stale"} /\ lockLosses' \in Nat
BY DEF LockIsLost, MigratorTypeOK

LEMMA TransactTypes ==
  ASSUME MigratorTypeOK, NEW f \in File, Transact(f)
  PROVE  applied' \subseteq File /\ log' \in Seq(File)
BY DEF Transact, MigratorTypeOK

LEMMA LoopTypes ==
  ASSUME MigratorTypeOK, NEW p \in Starter, Check(p) \/ Apply(p) \/ RunFails(p)
  PROVE  MigratorTypeOK'
<1>0. LastFile \in Nat /\ MaxMigratorFaults \in Nat
  BY MigratorAssumption
<1>1. CASE Check(p)
  <2>1. nextFile[p] \in 1..(LastFile + 1)
    BY DEF MigratorTypeOK
  <2>2. at' \in [Starter -> {"down", "check", "apply", "failing", "done", "up"}]
    BY <1>1 DEF Check, GoTo, MigratorTypeOK
  <2>3. nextFile' \in [Starter -> 1..(LastFile + 1)]
    BY <1>0, <1>1, <2>1 DEF Check, MigratorTypeOK
  <2>4. \A q \in Starter : at'[q] = "apply" => nextFile'[q] \in File
    BY <1>0, <1>1, <2>1 DEF Check, GoTo, MigratorTypeOK, File
  <2>5. QED
    BY <1>1, <2>2, <2>3, <2>4 DEF Check, MigratorTypeOK, File
<1>2. CASE Apply(p)
  <2>1. nextFile[p] \in File /\ nextFile[p] + 1 \in 1..(LastFile + 1)
    BY <1>0, <1>2 DEF Apply, MigratorTypeOK, File
  <2>2. applied' \subseteq File /\ log' \in Seq(File)
    BY <1>2, <2>1, TransactTypes DEF Apply, MigratorTypeOK
  <2>3. /\ at' \in [Starter -> {"down", "check", "apply", "failing", "done", "up"}]
        /\ nextFile' \in [Starter -> 1..(LastFile + 1)]
    BY <1>2, <2>1 DEF Apply, GoTo, MigratorTypeOK
  <2>4. \A q \in Starter : at'[q] = "apply" => nextFile'[q] \in File
    BY <1>2 DEF Apply, GoTo, MigratorTypeOK, File
  <2>5. QED
    BY <1>2, <2>2, <2>3, <2>4 DEF Apply, MigratorTypeOK, File
<1>3. CASE RunFails(p)
  <2>1. applied' \subseteq File /\ log' \in Seq(File)
    BY <1>3, TransactTypes DEF RunFails, MigratorTypeOK
  <2>2. /\ at' \in [Starter -> {"down", "check", "apply", "failing", "done", "up"}]
        /\ nextFile' = nextFile
        /\ \A q \in Starter : at'[q] = "apply" => at[q] = "apply"
    BY <1>3 DEF RunFails, AfterFailure, GoTo, MigratorTypeOK
  <2>3. migratorFaults' \in 0..MaxMigratorFaults
    BY <1>0, <1>3 DEF RunFails, MigratorFault, MigratorTypeOK
  <2>4. QED
    BY <1>3, <2>1, <2>2, <2>3 DEF RunFails, MigratorTypeOK, File
<1>4. QED
  BY <1>1, <1>2, <1>3

LEMMA StarterTypes ==
  ASSUME MigratorTypeOK, NEW p \in Starter,
         Run(p) \/ ServeUnmigrated(p) \/ Unlock(p) \/ LoseConnection(p) \/ Stop(p) \/ CrashStart(p)
  PROVE  MigratorTypeOK'
<1>0. LastFile \in Nat /\ MaxMigratorFaults \in Nat
  BY MigratorAssumption
<1>1. CASE Run(p)
  <2>1. 1 \in 1..(LastFile + 1)
    BY <1>0
  <2>2. /\ nextFile' \in [Starter -> 1..(LastFile + 1)]
        /\ \A q \in Starter : q # p => nextFile'[q] = nextFile[q]
    BY <1>1, <2>1 DEF Run, MigratorTypeOK
  <2>3. /\ at' \in [Starter -> {"down", "check", "apply", "failing", "done", "up"}]
        /\ at'[p] = "check" /\ \A q \in Starter : q # p => at'[q] = at[q]
    BY <1>1 DEF Run, GoTo, MigratorTypeOK
  <2>4. QED
    BY <1>1, <2>2, <2>3 DEF Run, StartsTo, TryLock, MigratorTypeOK, File
<1>2. ASSUME ServeUnmigrated(p) \/ Unlock(p) \/ Stop(p) \/ CrashStart(p) \/ LoseConnection(p)
      PROVE  MigratorTypeOK'
  <2>1. /\ at' \in [Starter -> {"down", "check", "apply", "failing", "done", "up"}]
        /\ \A q \in Starter : at'[q] = "apply" => at[q] = "apply"
    BY <1>2 DEF ServeUnmigrated, Unlock, Stop, CrashStart, LoseConnection, GoTo, MigratorTypeOK
  <2>2. lock' \in Starter \cup {"free", "stale"} /\ lockLosses' \in Nat
    BY <1>2, LockTypes DEF ServeUnmigrated, Unlock, Stop, CrashStart, LoseConnection, MigratorTypeOK
  <2>3. migratorFaults' \in 0..MaxMigratorFaults
    <3>1. migratorFaults' = migratorFaults \/ MigratorFault
      BY <1>2 DEF ServeUnmigrated, Unlock, Stop, CrashStart, LoseConnection
    <3>2. QED
      BY <1>0, <3>1 DEF MigratorFault, MigratorTypeOK
  <2>4. migrates' \in [Starter -> BOOLEAN]
    BY <1>2 DEF ServeUnmigrated, StartsTo, Unlock, Stop, CrashStart, LoseConnection, MigratorTypeOK
  <2>5. QED
    BY <1>2, <2>1, <2>2, <2>3, <2>4
       DEF ServeUnmigrated, Unlock, Stop, CrashStart, LoseConnection, MigratorTypeOK, File
<1>3. QED
  BY <1>1, <1>2

\* The lock, the loops and the table of files keep their shape; no loop applies
\* what is not a file.
THEOREM MigratorTypeCorrect == MigratorSpec => []MigratorTypeOK
<1>1. MigratorInit => MigratorTypeOK
  BY MigratorAssumption DEF MigratorInit, MigratorTypeOK
<1>2. MigratorTypeOK /\ [MigratorNext]_migratorVars => MigratorTypeOK'
  <2> SUFFICES ASSUME MigratorTypeOK, [MigratorNext]_migratorVars PROVE MigratorTypeOK'
    OBVIOUS
  <2>1. ASSUME SessionEnds PROVE MigratorTypeOK'
    BY <2>1 DEF SessionEnds, MigratorTypeOK, File
  <2>2. CASE UNCHANGED migratorVars
    BY <2>2 DEF migratorVars, MigratorTypeOK, File
  <2>3. QED
    BY <2>1, <2>2, LoopTypes, StarterTypes DEF MigratorNext
<1>3. QED
  BY <1>1, <1>2, PTL DEF MigratorSpec

\* The file of a transaction is the first that is missing.
LEMMA TransactIsNext ==
  ASSUME MigratorTypeOK, AppliedIsPrefix, LoopsFollow,
         NEW p \in Starter, at[p] = "apply", Transact(nextFile[p])
  PROVE  /\ nextFile[p] = Len(log) + 1 /\ Len(log) < LastFile
         /\ log' = Append(log, Len(log) + 1)
         /\ applied' = applied \cup {Len(log) + 1}
         /\ AppliedIsPrefix'
<1> DEFINE f == nextFile[p]
           n == Len(log)
<1>1. f \in 1..LastFile /\ n \in Nat /\ log \in Seq(File) /\ LastFile \in Nat
  BY MigratorAssumption DEF MigratorTypeOK, File
<1>2. f \notin 1..n
  BY DEF Transact, Commits, AppliedIsPrefix
<1>3. \A g \in 1..LastFile : g < f => g \in 1..n
  BY DEF LoopsFollow, Migrating, AppliedIsPrefix, File
<1>4. f = n + 1
  <2>1. f > n
    BY <1>1, <1>2
  <2>2. CASE f > n + 1
    <3>1. n + 1 \in 1..LastFile /\ n + 1 < f
      BY <1>1, <2>2
    <3>2. n + 1 \in 1..n
      BY <1>3, <3>1
    <3>3. QED
      BY <1>1, <3>2
  <2>3. QED
    BY <1>1, <2>1, <2>2
<1>5. log' = Append(log, n + 1) /\ applied' = applied \cup {n + 1}
  BY <1>4 DEF Transact
<1>6. AppliedIsPrefix'
  <2>1. /\ log' \in Seq(Nat) /\ Len(log') = n + 1 /\ log'[n + 1] = n + 1
        /\ \A i \in 1..n : log'[i] = log[i]
    BY <1>1, <1>5 DEF File
  <2>2. applied = 1..n /\ \A i \in 1..n : log[i] = i
    BY DEF AppliedIsPrefix
  <2>3. applied' = 1..(n + 1)
    BY <1>1, <1>5, <2>2
  <2>4. \A i \in 1..(n + 1) : log'[i] = i
    BY <1>1, <2>1, <2>2
  <2>5. QED
    BY <2>1, <2>3, <2>4 DEF AppliedIsPrefix
<1>7. QED
  BY <1>1, <1>4, <1>5, <1>6

\* A step applies the next file, or none; a loop moves past what is applied.
LEMMA OrderInduction ==
  ASSUME MigratorTypeOK, AppliedIsPrefix, LoopsFollow, ServesComplete,
         [MigratorNext]_migratorVars
  PROVE  /\ AppliedIsPrefix' /\ LoopsFollow' /\ ServesComplete'
         /\ [Order!ApplyNext]_log
<1>1. /\ AppliedIsPrefix' /\ [Order!ApplyNext]_log
      /\ applied \subseteq applied'
  <2>1. CASE UNCHANGED <<applied, log>>
    BY <2>1 DEF AppliedIsPrefix
  <2>2. ASSUME NEW p \in Starter, at[p] = "apply", Transact(nextFile[p])
        PROVE  AppliedIsPrefix' /\ [Order!ApplyNext]_log /\ applied \subseteq applied'
    BY <2>2, TransactIsNext DEF Order!ApplyNext
  <2>3. QED
    BY <2>1, <2>2 DEF MigratorNext, migratorVars, Run, ServeUnmigrated, Check, Apply, RunFails,
         Unlock, LoseConnection, Stop, CrashStart, SessionEnds
<1>2. LoopsFollow'
  <2>1. ASSUME NEW q \in Starter, Migrating(q)', NEW f \in File, f < nextFile'[q]
        PROVE  f \in applied'
    <3>1. CASE Migrating(q) /\ nextFile'[q] = nextFile[q]
      BY <1>1, <2>1, <3>1 DEF LoopsFollow
    <3>2. CASE nextFile'[q] = 1
      BY <2>1, <3>2, MigratorAssumption DEF File
    <3>3. CASE Migrating(q) /\ nextFile'[q] = nextFile[q] + 1 /\ nextFile[q] \in applied'
      <4>1. f < nextFile[q] \/ f = nextFile[q]
        BY <2>1, <3>3, MigratorAssumption DEF File, MigratorTypeOK
      <4>2. QED
        BY <1>1, <3>3, <4>1 DEF LoopsFollow
    <3>4. ASSUME NEW p \in Starter, Check(p) \/ Apply(p) PROVE f \in applied'
      <4>1. Migrating(q)
        BY <2>1, <3>4 DEF Check, Apply, GoTo, Migrating, MigratorTypeOK
      <4>2. \/ nextFile'[q] = nextFile[q]
            \/ nextFile'[q] = nextFile[q] + 1 /\ nextFile[q] \in applied'
        BY <3>4 DEF Check, Apply, Transact, MigratorTypeOK
      <4>3. QED
        BY <3>1, <3>3, <4>1, <4>2
    <3>5. ASSUME NEW p \in Starter, Run(p) PROVE f \in applied'
      <4>1. \/ nextFile'[q] = 1
            \/ Migrating(q) /\ nextFile'[q] = nextFile[q]
        BY <2>1, <3>5 DEF Run, GoTo, Migrating, MigratorTypeOK
      <4>2. QED
        BY <3>1, <3>2, <4>1
    <3>6. ASSUME NEW p \in Starter,
                 \/ RunFails(p) \/ Unlock(p) \/ LoseConnection(p) \/ Stop(p) \/ CrashStart(p)
                 \/ ServeUnmigrated(p)
          PROVE  f \in applied'
      <4>1. Migrating(q) /\ nextFile'[q] = nextFile[q]
        BY <2>1, <3>6 DEF RunFails, AfterFailure, Unlock, LoseConnection, Stop, CrashStart,
             ServeUnmigrated, GoTo, Migrating, MigratorTypeOK
      <4>2. QED
        BY <3>1, <4>1
    <3>7. ASSUME SessionEnds \/ UNCHANGED migratorVars PROVE f \in applied'
      BY <2>1, <3>1, <3>7 DEF SessionEnds, migratorVars, Migrating
    <3>8. QED
      BY <3>4, <3>5, <3>6, <3>7 DEF MigratorNext
  <2>2. QED
    BY <2>1 DEF LoopsFollow, File
<1>3. ServesComplete'
  <2> DEFINE Complete(q) == at[q] = "done" \/ (at[q] = "up" /\ migrates[q])
  <2>1. ASSUME NEW q \in Starter, Complete(q)' PROVE File \subseteq applied'
    <3>1. CASE Complete(q)
      BY <1>1, <3>1 DEF ServesComplete
    <3>2. CASE ~Complete(q)
      <4>1. ASSUME NEW p \in Starter, Check(p)
            PROVE  p = q /\ nextFile[q] > LastFile
        BY <2>1, <3>2, <4>1 DEF Check, GoTo, MigratorTypeOK
      <4>2. ASSUME NEW p \in Starter,
                   \/ Run(p) \/ ServeUnmigrated(p) \/ Apply(p) \/ RunFails(p) \/ Unlock(p)
                   \/ LoseConnection(p) \/ Stop(p) \/ CrashStart(p)
            PROVE  FALSE
        BY <2>1, <3>2, <4>2
           DEF Run, ServeUnmigrated, StartsTo, Apply, RunFails, AfterFailure, Unlock,
               LoseConnection, Stop, CrashStart, GoTo, MigratorTypeOK
      <4>3. ASSUME SessionEnds \/ UNCHANGED migratorVars PROVE FALSE
        BY <2>1, <3>2, <4>3 DEF SessionEnds, migratorVars
      <4>4. Check(q) /\ nextFile[q] > LastFile
        BY <4>1, <4>2, <4>3 DEF MigratorNext
      <4>5. \A f \in File : f \in applied
        BY <4>4, MigratorAssumption
           DEF Check, LoopsFollow, Migrating, MigratorTypeOK, File
      <4>6. QED
        BY <1>1, <4>5
    <3>3. QED
      BY <3>1, <3>2
  <2>2. QED
    BY <2>1 DEF ServesComplete, File
<1>4. QED
  BY <1>1, <1>2, <1>3

LEMMA OrderStart == MigratorInit => AppliedIsPrefix /\ LoopsFollow /\ ServesComplete
BY DEF MigratorInit, AppliedIsPrefix, LoopsFollow, Migrating, ServesComplete

\* However many processes migrate, whatever happens to the lock and wherever a
\* run fails or crashes, the files take effect once each and in their order.
THEOREM FilesApplyInOrder == MigratorSpec => AppliesInOrder
<1>1. MigratorInit => log = <<>>
  BY DEF MigratorInit
<1>2. QED
  BY <1>1, OrderStart, OrderInduction, MigratorTypeCorrect, PTL
     DEF MigratorSpec, AppliesInOrder, Order!Spec

\* A start that migrates ends only when all files have been applied, by whichever
\* process, and the server that it starts serves over all of them; a server whose
\* configuration does not migrate is promised nothing.
THEOREM ServersAreComplete == MigratorSpec => []ServesComplete
BY OrderStart, OrderInduction, MigratorTypeCorrect, PTL DEF MigratorSpec

LEMMA HolderInduction ==
  ASSUME MigratorTypeOK, HolderMigrates, [MigratorNext]_migratorVars
  PROVE  HolderMigrates'
<1> SUFFICES ASSUME lockLosses' = 0
             PROVE  lock' # "stale" /\ \A p \in Starter : (Migrating(p) <=> lock = p)'
  BY DEF HolderMigrates
<1>1. lockLosses = 0
  <2>1. lockLosses' = lockLosses \/ lockLosses' = lockLosses + 1
    BY DEF MigratorNext, migratorVars, Run, ServeUnmigrated, Check, Apply, RunFails, Unlock,
       LoseConnection, Stop, CrashStart, SessionEnds, LockIsLost
  <2>2. QED
    BY <2>1 DEF MigratorTypeOK
<1>2. lock # "stale" /\ \A p \in Starter : Migrating(p) <=> lock = p
  BY <1>1 DEF HolderMigrates
<1>3. ASSUME NEW p \in Starter, Run(p) \/ Unlock(p)
      PROVE  lock' # "stale" /\ \A q \in Starter : (Migrating(q) <=> lock = q)'
  BY <1>2, <1>3, MigratorAssumption
     DEF Run, TryLock, Unlock, GoTo, Migrating, MigratorTypeOK
<1>4. ASSUME NEW p \in Starter,
             ServeUnmigrated(p) \/ Check(p) \/ Apply(p) \/ RunFails(p) \/ Stop(p)
      PROVE  lock' # "stale" /\ \A q \in Starter : (Migrating(q) <=> lock = q)'
  <2>1. lock' = lock /\ \A q \in Starter : Migrating(q)' <=> Migrating(q)
    BY <1>4 DEF ServeUnmigrated, Check, Apply, RunFails, AfterFailure, Stop, GoTo, Migrating,
       MigratorTypeOK
  <2>2. QED
    BY <1>2, <2>1
<1>5. ASSUME NEW p \in Starter, LoseConnection(p) \/ CrashStart(p) PROVE FALSE
  <2>1. lock = p
    BY <1>2, <1>5 DEF LoseConnection, CrashStart, Migrating, MigratorTypeOK
  <2>2. QED
    BY <1>1, <1>5, <2>1 DEF LoseConnection, CrashStart, LockIsLost
<1>6. ASSUME SessionEnds PROVE FALSE
  BY <1>2, <1>6 DEF SessionEnds
<1>7. CASE UNCHANGED migratorVars
  BY <1>2, <1>7 DEF migratorVars, Migrating
<1>8. QED
  BY <1>3, <1>4, <1>5, <1>6, <1>7 DEF MigratorNext

\* The advisory lock lets one process migrate, as long as nobody loses it
\* together with a connection.
THEOREM OneMigrates == MigratorSpec => []OneMigratesAtATime
<1>1. MigratorInit => HolderMigrates
  BY MigratorAssumption DEF MigratorInit, HolderMigrates, Migrating
<1>2. HolderMigrates => OneMigratesAtATime
  BY DEF HolderMigrates, OneMigratesAtATime
<1>3. QED
  BY <1>1, <1>2, HolderInduction, MigratorTypeCorrect, PTL DEF MigratorSpec
-------------------------------------------------------------------------------
(***************************************************************************)
(* AnalyticsBuffer.                                                        *)
(***************************************************************************)
LEMMA ShorterBuffer ==
  ASSUME buffer \in Seq(View), buffer # <<>>
  PROVE  /\ SubSeq(buffer, 1, Len(buffer) - 1) \in Seq(View)
         /\ Len(buffer) \in Nat \ {0} /\ buffer[Len(buffer)] \in View
         /\ Len(SubSeq(buffer, 1, Len(buffer) - 1)) = Len(buffer) - 1
         /\ \A i \in 1..(Len(buffer) - 1) : SubSeq(buffer, 1, Len(buffer) - 1)[i] = buffer[i]
<1> DEFINE n == Len(buffer)
<1>1. n \in Nat \ {0} /\ \A i \in 1..n : buffer[i] \in View
  BY EmptySeq, ElementOfSeq
<1>2. /\ SubSeq(buffer, 1, n - 1) \in Seq(View)
      /\ Len(SubSeq(buffer, 1, n - 1)) = IF 1 <= n - 1 THEN n - 1 - 1 + 1 ELSE 0
      /\ \A i \in 1..(n - 1 - 1 + 1) : SubSeq(buffer, 1, n - 1)[i] = buffer[1 + i - 1]
  <2>1. 1 \in Int /\ n - 1 \in Int /\ \A i \in 1..(n - 1) : buffer[i] \in View
    BY <1>1
  <2>2. QED
    BY <2>1, SubSeqProperties
<1> HIDE DEF n
<1>3. \A i \in 1..(n - 1) : SubSeq(buffer, 1, n - 1)[i] = buffer[i]
  <2>1. ASSUME NEW i \in 1..(n - 1) PROVE SubSeq(buffer, 1, n - 1)[i] = buffer[i]
    <3>1. i \in 1..(n - 1 - 1 + 1) /\ 1 + i - 1 = i
      BY <1>1
    <3>2. QED
      BY <1>2, <3>1
  <2>2. QED
    BY <2>1
<1>4. Len(SubSeq(buffer, 1, n - 1)) = n - 1
  BY <1>1, <1>2
<1>5. QED
  BY <1>1, <1>2, <1>3, <1>4 DEF n

LEMMA SendTypes ==
  ASSUME AnalyticsTypeOK, NEW v \in View, RPush(v)
  PROVE  /\ buffer' \in Seq(View) /\ lostCalls' \in 0..MaxLostCalls
         /\ unanswered' \subseteq pushed \cup {v}
<1>1. Append(buffer, v) \in Seq(View) /\ buffer \in Seq(View)
  BY AppendProperties DEF AnalyticsTypeOK
<1>2. lostCalls' \in 0..MaxLostCalls
  BY AnalyticsAssumption DEF RPush, LostCall, AnalyticsTypeOK
<1>3. QED
  BY <1>1, <1>2 DEF RPush, AnalyticsTypeOK

LEMMA QueueTypes ==
  ASSUME AnalyticsTypeOK, NEW v \in View, NEW stale \in BOOLEAN,
         QueueWidgetAnalytics(v, stale)
  PROVE  AnalyticsTypeOK'
BY SendTypes DEF QueueWidgetAnalytics, flushers, AnalyticsTypeOK

LEMMA ResendTypes ==
  ASSUME AnalyticsTypeOK, NEW v \in View, ResendPush(v)
  PROVE  AnalyticsTypeOK'
<1>1. resent' \in [View -> 0..MaxResends]
  <2>1. resent[v] \in 0..MaxResends /\ resent[v] < MaxResends /\ MaxResends \in Nat
    BY AnalyticsAssumption DEF ResendPush, AnalyticsTypeOK
  <2>2. resent[v] + 1 \in 0..MaxResends
    BY <2>1
  <2>3. QED
    BY <2>2 DEF ResendPush, AnalyticsTypeOK
<1>2. v \in pushed
  BY DEF ResendPush, AnalyticsTypeOK
<1>3. QED
  BY <1>1, <1>2, SendTypes DEF ResendPush, flushers, ends, AnalyticsTypeOK

LEMMA PopTypes ==
  ASSUME AnalyticsTypeOK, NEW p \in Process, Pop(p) \/ PopFails(p)
  PROVE  AnalyticsTypeOK'
<1>1. buffer' \in Seq(View)
  BY ShorterBuffer DEF Pop, PopFails, Remaining, AnalyticsTypeOK
<1>2. hand' \in [Process -> View \cup {0}]
  BY ShorterBuffer DEF Pop, PopFails, AnalyticsTypeOK
<1>3. left' \in [Process -> 0..FlushLimit]
  BY AnalyticsAssumption DEF Pop, PopFails, Return, AnalyticsTypeOK
<1>4. goroutine' \in [Process -> {"waiting", "flushing", "hung"}]
  BY DEF Pop, PopFails, Return, AnalyticsTypeOK
<1>5. lostCalls' \in 0..MaxLostCalls
  BY AnalyticsAssumption DEF Pop, PopFails, LostCall, AnalyticsTypeOK
<1>6. UNCHANGED <<pushed, resent, unanswered, rows, gone, expired, widgetDeleted>>
  BY DEF Pop, PopFails, pushes, ends
<1>7. /\ unanswered' \subseteq pushed' /\ pushed' \subseteq View
      /\ resent' \in [View -> 0..MaxResends] /\ rows' \in [View -> Nat]
      /\ gone' \subseteq View /\ expired' \subseteq View /\ widgetDeleted' \in BOOLEAN
  BY <1>6 DEF AnalyticsTypeOK
<1>8. QED
  BY <1>1, <1>2, <1>3, <1>4, <1>5, <1>7 DEF AnalyticsTypeOK

LEMMA InsertTypes ==
  ASSUME AnalyticsTypeOK, NEW p \in Process, Insert(p) \/ InsertFails(p)
  PROVE  AnalyticsTypeOK'
<1>1. hand[p] \in View /\ hand' \in [Process -> View \cup {0}]
  BY DEF Insert, InsertFails, EmptyHand, AnalyticsTypeOK
<1>2. rows' \in [View -> Nat]
  <2>1. rows' \in {rows, Inserted(p)}
    BY DEF Insert, InsertFails
  <2>2. rows \in [View -> Nat]
    BY DEF AnalyticsTypeOK
  <2>3. Inserted(p) \in [View -> Nat]
    BY <1>1, <2>2 DEF Inserted
  <2>4. QED
    BY <2>1, <2>2, <2>3
<1>3. lostCalls' \in 0..MaxLostCalls
  BY AnalyticsAssumption DEF Insert, InsertFails, LostCall, AnalyticsTypeOK
<1>4. QED
  BY <1>1, <1>2, <1>3 DEF Insert, InsertFails, pushes, ends, AnalyticsTypeOK

LEMMA GoroutineTypes ==
  ASSUME AnalyticsTypeOK, NEW p \in Process,
         \/ FlushWidgetAnalytics(p) \/ EndFlush(p) \/ HangInWebhooks(p) \/ Restart(p)
         \/ \E v \in View : CleanupWidgetAnalytics(p, v)
  PROVE  AnalyticsTypeOK'
<1>1. left' \in [Process -> 0..FlushLimit]
  BY AnalyticsAssumption DEF FlushWidgetAnalytics, Renewed, EndFlush, HangInWebhooks,
     Restart, Return, CleanupWidgetAnalytics, flushers, AnalyticsTypeOK
<1>2. goroutine' \in [Process -> {"waiting", "flushing", "hung"}]
  BY DEF FlushWidgetAnalytics, EndFlush, HangInWebhooks, Restart, Return,
     CleanupWidgetAnalytics, flushers, AnalyticsTypeOK
<1>3. /\ hand' \in [Process -> View \cup {0}]
      /\ rows' \in [View -> Nat] /\ expired' \subseteq View
  <2>1. ASSUME NEW v \in View, NEW n \in 0..(rows[v] - 1), rows' = [rows EXCEPT ![v] = n]
        PROVE  rows' \in [View -> Nat]
    BY <2>1 DEF AnalyticsTypeOK
  <2>2. QED
    BY <2>1 DEF FlushWidgetAnalytics, EndFlush, HangInWebhooks, Restart, EmptyHand,
       CleanupWidgetAnalytics, flushers, ends, AnalyticsTypeOK
<1>4. lostCalls' \in 0..MaxLostCalls
  BY AnalyticsAssumption DEF FlushWidgetAnalytics, EndFlush, HangInWebhooks, Restart,
     CleanupWidgetAnalytics, LostCall, AnalyticsTypeOK
<1>5. UNCHANGED <<pushes, buffer, gone, widgetDeleted>>
  BY DEF FlushWidgetAnalytics, EndFlush, HangInWebhooks, Restart, CleanupWidgetAnalytics, ends
<1>6. QED
  BY <1>1, <1>2, <1>3, <1>4, <1>5 DEF pushes, AnalyticsTypeOK

\* The list, the goroutines and the rows keep their shape.
THEOREM AnalyticsTypeCorrect == AnalyticsSpec => []AnalyticsTypeOK
<1>1. AnalyticsInit => AnalyticsTypeOK
  <2> SUFFICES ASSUME AnalyticsInit PROVE AnalyticsTypeOK
    OBVIOUS
  <2>1. buffer \in Seq(View)
    BY EmptySeq DEF AnalyticsInit
  <2>2. left \in [Process -> 0..FlushLimit] /\ lostCalls \in 0..MaxLostCalls
    BY AnalyticsAssumption DEF AnalyticsInit
  <2>3. resent \in [View -> 0..MaxResends]
    BY AnalyticsAssumption DEF AnalyticsInit
  <2>4. QED
    BY <2>1, <2>2, <2>3 DEF AnalyticsInit, AnalyticsTypeOK
<1>2. AnalyticsTypeOK /\ [AnalyticsNext]_analyticsVars => AnalyticsTypeOK'
  <2> SUFFICES ASSUME AnalyticsTypeOK, [AnalyticsNext]_analyticsVars PROVE AnalyticsTypeOK'
    OBVIOUS
  <2>1. ASSUME DeleteAnalyzedWidget PROVE AnalyticsTypeOK'
    BY <2>1 DEF DeleteAnalyzedWidget, pushes, flushers, AnalyticsTypeOK
  <2>2. CASE UNCHANGED analyticsVars
    BY <2>2 DEF analyticsVars, pushes, flushers, ends, AnalyticsTypeOK
  <2>3. QED
    BY <2>1, <2>2, QueueTypes, ResendTypes, PopTypes, InsertTypes, GoroutineTypes
       DEF AnalyticsNext, Flush
<1>3. QED
  BY <1>1, <1>2, PTL DEF AnalyticsSpec

(***************************************************************************)
(* Where an event is.  Every step is described by what it does to that.    *)
(***************************************************************************)

\* The end of the list is taken off.
LEMMA PopMoves ==
  ASSUME AnalyticsTypeOK, buffer # <<>>,
         buffer' = SubSeq(buffer, 1, Len(buffer) - 1)
  PROVE  /\ Len(buffer') \in Nat /\ 1..Len(buffer') \subseteq 1..Len(buffer)
         /\ \A i \in 1..Len(buffer') : buffer'[i] = buffer[i]
         /\ Len(buffer) \in 1..Len(buffer) /\ Len(buffer) \notin 1..Len(buffer')
         /\ buffer[Len(buffer)] \in View
         /\ \A v \in View : InBuffer(v) =>
              InBuffer(v)' \/ v = buffer[Len(buffer)]
<1>1. /\ Len(buffer) \in Nat \ {0} /\ Len(buffer') = Len(buffer) - 1
      /\ \A i \in 1..(Len(buffer) - 1) : buffer'[i] = buffer[i]
      /\ buffer[Len(buffer)] \in View
  BY ShorterBuffer DEF AnalyticsTypeOK
<1>2. ASSUME NEW v \in View, InBuffer(v), v # buffer[Len(buffer)] PROVE InBuffer(v)'
  <2>1. PICK i \in 1..Len(buffer) : buffer[i] = v
    BY <1>2 DEF InBuffer, Listed
  <2>2. i \in 1..(Len(buffer) - 1)
    BY <1>1, <1>2, <2>1
  <2>3. QED
    BY <1>1, <2>1, <2>2 DEF InBuffer, Listed
<1>3. QED
  BY <1>1, <1>2

\* The list gets a new end.
LEMMA PushMoves ==
  ASSUME AnalyticsTypeOK, NEW v \in View, buffer' = Append(buffer, v)
  PROVE  /\ Len(buffer) \in Nat /\ Len(buffer') = Len(buffer) + 1
         /\ buffer'[Len(buffer) + 1] = v
         /\ \A i \in 1..Len(buffer) : buffer'[i] = buffer[i]
         /\ \A u \in View : InBuffer(u)' <=> InBuffer(u) \/ u = v
<1>1. /\ Len(buffer) \in Nat /\ Len(buffer') = Len(buffer) + 1
      /\ buffer'[Len(buffer) + 1] = v
      /\ \A i \in 1..Len(buffer) : buffer'[i] = buffer[i]
  BY AppendProperties, LenProperties DEF AnalyticsTypeOK
<1>2. QED
  BY <1>1 DEF InBuffer, Listed

LEMMA LostIsFinite ==
  AnalyticsTypeOK => /\ IsFiniteSet(Lost) /\ Cardinality(Lost) \in Nat
                     /\ lostCalls \in Nat
<1>1. Lost \in SUBSET View \/ ~AnalyticsTypeOK
  BY DEF Lost, AnalyticsTypeOK
<1>2. QED
  BY <1>1, FS_Subset, FS_CardinalityType, AnalyticsAssumption DEF AnalyticsTypeOK

LEMMA LossIsCounted ==
  ASSUME AnalyticsTypeOK, AnalyticsTypeOK', LossIsBounded,
         \/ Lost' \subseteq Lost /\ lostCalls' \in {lostCalls, lostCalls + 1}
         \/ (\E v : Lost' \subseteq Lost \cup {v}) /\ lostCalls' = lostCalls + 1
  PROVE  LossIsBounded'
<1>1. /\ IsFiniteSet(Lost) /\ Cardinality(Lost) \in Nat /\ lostCalls \in Nat
      /\ Cardinality(Lost) <= lostCalls
  BY LostIsFinite DEF LossIsBounded
<1>2. (IsFiniteSet(Lost) /\ Cardinality(Lost) \in Nat /\ lostCalls \in Nat)'
  BY LostIsFinite, PTL
<1>3. CASE Lost' \subseteq Lost /\ lostCalls' \in {lostCalls, lostCalls + 1}
  <2>1. Cardinality(Lost') <= Cardinality(Lost)
    BY <1>1, <1>3, FS_Subset
  <2>2. QED
    BY <1>1, <1>2, <1>3, <2>1 DEF LossIsBounded
<1>4. ASSUME NEW v, Lost' \subseteq Lost \cup {v}, lostCalls' = lostCalls + 1
      PROVE  LossIsBounded'
  <2>1. /\ IsFiniteSet(Lost \cup {v})
        /\ Cardinality(Lost \cup {v}) \in {Cardinality(Lost), Cardinality(Lost) + 1}
    BY <1>1, FS_AddElement
  <2>2. Cardinality(Lost') <= Cardinality(Lost \cup {v})
    BY <1>4, <2>1, FS_Subset
  <2>3. QED
    BY <1>1, <1>2, <1>4, <2>1, <2>2 DEF LossIsBounded
<1>5. QED
  BY <1>3, <1>4

LEMMA SendLoses ==
  ASSUME AnalyticsTypeOK, NEW v \in View, RPush(v),
         UNCHANGED <<hand, rows, expired>>, gone \subseteq gone', pushed' = pushed \cup {v}
  PROVE  \/ Lost' \subseteq Lost /\ lostCalls' = lostCalls
         \/ Lost' \subseteq Lost \cup {v} /\ lostCalls' = lostCalls + 1
<1>1. pushed \subseteq View
  BY DEF AnalyticsTypeOK
<1>2. CASE buffer' = Append(buffer, v)
  <2>1. \A u \in View : InBuffer(u)' <=> InBuffer(u) \/ u = v
    BY <1>2, PushMoves
  <2>2. Lost' \subseteq Lost
    BY <1>1, <2>1 DEF Lost, InHand, Popped
  <2>3. QED
    BY <2>2 DEF RPush, LostCall
<1>3. CASE LostCall /\ buffer' = buffer
  BY <1>1, <1>3 DEF Lost, InHand, Popped, InBuffer, Listed, LostCall
<1>4. QED
  BY <1>2, <1>3 DEF RPush

LEMMA QueueLoses ==
  ASSUME AnalyticsTypeOK, NEW v \in View,
         ResendPush(v) \/ \E stale \in BOOLEAN : QueueWidgetAnalytics(v, stale)
  PROVE  \/ Lost' \subseteq Lost /\ lostCalls' = lostCalls
         \/ Lost' \subseteq Lost \cup {v} /\ lostCalls' = lostCalls + 1
<1>1. /\ RPush(v) /\ UNCHANGED <<hand, rows, expired>>
      /\ gone \subseteq gone' /\ pushed' = pushed \cup {v}
  BY DEF QueueWidgetAnalytics, ResendPush, flushers, ends, AnalyticsTypeOK
<1>2. QED
  BY <1>1, SendLoses

LEMMA PopLoses ==
  ASSUME AnalyticsTypeOK, NEW p \in Process, Pop(p) \/ PopFails(p)
  PROVE  \/ Lost' \subseteq Lost /\ lostCalls' \in {lostCalls, lostCalls + 1}
         \/ (\E v : Lost' \subseteq Lost \cup {v}) /\ lostCalls' = lostCalls + 1
<1>1. /\ pushed' = pushed /\ gone' = gone /\ expired' = expired /\ rows' = rows
      /\ pushed \subseteq View
      /\ hand[p] = 0 /\ 0 \notin View
  BY AnalyticsAssumption DEF Pop, PopFails, Ready, pushes, ends, AnalyticsTypeOK
<1>2. CASE Pop(p)
  <2>1. /\ buffer # <<>> /\ buffer' = SubSeq(buffer, 1, Len(buffer) - 1)
        /\ hand' = [hand EXCEPT ![p] = buffer[Len(buffer)]] /\ lostCalls' = lostCalls
    BY <1>2 DEF Pop, Remaining
  <2>2. \A v \in View : InBuffer(v) => InBuffer(v)' \/ v = buffer[Len(buffer)]
    BY <2>1, PopMoves
  <2>3. \A v \in View : InHand(v) \/ v = buffer[Len(buffer)] => InHand(v)'
    BY <1>1, <2>1 DEF InHand, Popped, AnalyticsTypeOK
  <2>4. QED
    BY <1>1, <2>1, <2>2, <2>3 DEF Lost
<1>3. CASE PopFails(p) /\ UNCHANGED buffer
  BY <1>1, <1>3 DEF PopFails, LostCall, Lost, InBuffer, Listed, InHand, Popped
<1>4. CASE PopFails(p) /\ buffer # <<>> /\ buffer' = SubSeq(buffer, 1, Len(buffer) - 1)
  <2>1. \A v \in View : InBuffer(v) => InBuffer(v)' \/ v = buffer[Len(buffer)]
    BY <1>4, PopMoves
  <2>2. hand' = hand /\ lostCalls' = lostCalls + 1
    BY <1>4 DEF PopFails, LostCall
  <2>3. Lost' \subseteq Lost \cup {buffer[Len(buffer)]}
    BY <1>1, <2>1, <2>2 DEF Lost, InHand, Popped
  <2>4. QED
    BY <2>2, <2>3
<1>5. QED
  BY <1>2, <1>3, <1>4 DEF PopFails

LEMMA HandLoses ==
  ASSUME AnalyticsTypeOK, NEW p \in Process, Insert(p) \/ InsertFails(p) \/ Restart(p)
  PROVE  \/ Lost' \subseteq Lost /\ lostCalls' = lostCalls
         \/ Lost' \subseteq Lost \cup {hand[p]} /\ lostCalls' = lostCalls + 1
<1>1. /\ pushed' = pushed /\ buffer' = buffer /\ gone' = gone /\ expired' = expired
      /\ pushed \subseteq View
      /\ hand' = [hand EXCEPT ![p] = 0] /\ hand \in [Process -> View \cup {0}]
  BY DEF Insert, InsertFails, Restart, EmptyHand, pushes, ends, AnalyticsTypeOK
<1>2. \A v \in View : v # hand[p] => (InHand(v) => InHand(v)')
  BY <1>1 DEF InHand, Popped
<1>3. CASE Insert(p)
  <2>1. \A v \in View : rows[v] \in Nat /\ (v # hand[p] => rows'[v] = rows[v])
    BY <1>3 DEF Insert, Inserted, AnalyticsTypeOK
  <2>2. hand[p] \in View /\ (hand[p] \notin gone => rows'[hand[p]] > 0)
    BY <1>3 DEF Insert, Inserted, AnalyticsTypeOK
  <2>3. lostCalls' = lostCalls
    BY <1>3 DEF Insert
  <2>4. QED
    BY <1>1, <1>2, <2>1, <2>2, <2>3 DEF Lost, InBuffer, Listed
<1>4. CASE InsertFails(p) \/ Restart(p)
  <2>1. rows' = rows /\ lostCalls' = lostCalls + 1
    BY <1>4 DEF InsertFails, Restart, LostCall
  <2>2. QED
    BY <1>1, <1>2, <2>1 DEF Lost, InBuffer, Listed
<1>5. QED
  BY <1>3, <1>4

\* However many processes flush the list and however they fail, each failure
\* costs one event at most.
THEOREM LossIsBoundedAlways == AnalyticsSpec => []LossIsBounded
<1>1. AnalyticsInit => LossIsBounded
  <2>1. AnalyticsInit => Lost = {} /\ lostCalls = 0
    BY DEF AnalyticsInit, Lost
  <2>2. QED
    BY <2>1, FS_EmptySet DEF LossIsBounded
<1>2. AnalyticsTypeOK /\ AnalyticsTypeOK' /\ LossIsBounded /\ [AnalyticsNext]_analyticsVars
        => LossIsBounded'
  <2> SUFFICES ASSUME AnalyticsTypeOK, AnalyticsTypeOK', LossIsBounded,
                      [AnalyticsNext]_analyticsVars
               PROVE  LossIsBounded'
    OBVIOUS
  <2>1. ASSUME NEW v \in View,
               ResendPush(v) \/ \E stale \in BOOLEAN : QueueWidgetAnalytics(v, stale)
        PROVE  LossIsBounded'
    BY <2>1, QueueLoses, LossIsCounted
  <2>2. ASSUME NEW p \in Process, Pop(p) \/ PopFails(p) PROVE LossIsBounded'
    BY <2>2, PopLoses, LossIsCounted
  <2>3. ASSUME NEW p \in Process, Insert(p) \/ InsertFails(p) \/ Restart(p)
        PROVE  LossIsBounded'
    BY <2>3, HandLoses, LossIsCounted
  <2>4. ASSUME NEW p \in Process, FlushWidgetAnalytics(p) \/ EndFlush(p) \/ HangInWebhooks(p)
        PROVE  LossIsBounded'
    <3>1. UNCHANGED <<pushed, buffer, hand, rows, gone, expired, lostCalls>>
      BY <2>4 DEF FlushWidgetAnalytics, EndFlush, HangInWebhooks, pushes, ends
    <3>2. Lost' = Lost
      BY <3>1 DEF Lost, InBuffer, Listed, InHand, Popped
    <3>3. QED
      BY <3>1, <3>2, LossIsCounted
  <2>5. ASSUME NEW p \in Process, NEW v \in View, CleanupWidgetAnalytics(p, v)
        PROVE  LossIsBounded'
    <3>1. \A u \in View : u # v => rows'[u] = rows[u]
      BY <2>5 DEF CleanupWidgetAnalytics, AnalyticsTypeOK
    <3>2. /\ UNCHANGED <<pushed, buffer, hand, gone, lostCalls>>
          /\ expired' = expired \cup {v} /\ pushed \subseteq View
      BY <2>5 DEF CleanupWidgetAnalytics, pushes, flushers, AnalyticsTypeOK
    <3>3. Lost' \subseteq Lost
      BY <3>1, <3>2 DEF Lost, InBuffer, Listed, InHand, Popped
    <3>4. QED
      BY <3>2, <3>3, LossIsCounted
  <2>6. ASSUME DeleteAnalyzedWidget PROVE LossIsBounded'
    <3>1. Lost' \subseteq Lost /\ lostCalls' = lostCalls
      BY <2>6 DEF DeleteAnalyzedWidget, pushes, Lost
    <3>2. QED
      BY <3>1, LossIsCounted
  <2>7. CASE UNCHANGED analyticsVars
    BY <2>7 DEF analyticsVars, pushes, flushers, ends, LossIsBounded, Lost, InBuffer, Listed,
                InHand, Popped
  <2>8. QED
    BY <2>1, <2>2, <2>3, <2>4, <2>5, <2>6, <2>7 DEF AnalyticsNext, Flush
<1>3. QED
  BY <1>1, <1>2, AnalyticsTypeCorrect, PTL DEF AnalyticsSpec

(***************************************************************************)
(* An event has a copy for every time its push was sent, at most.          *)
(***************************************************************************)
Bounded(v) == IsFiniteSet(Popped(v)) /\ Copies(v) <= Sends(v)

PerSend == \A v \in View : Bounded(v)

LEMMA CopyParts ==
  ASSUME AnalyticsTypeOK, NEW v \in View
  PROVE  /\ IsFiniteSet(Listed(v)) /\ Cardinality(Listed(v)) \in Nat
         /\ IsFiniteSet(Popped(v)) => Cardinality(Popped(v)) \in Nat
         /\ rows[v] \in Nat /\ Sends(v) \in Nat
<1>1. Len(buffer) \in Nat
  BY LenProperties DEF AnalyticsTypeOK
<1>2. IsFiniteSet(Listed(v))
  <2>1. IsFiniteSet(1..Len(buffer))
    BY <1>1, FS_Interval
  <2>2. Listed(v) \in SUBSET (1..Len(buffer))
    BY DEF Listed
  <2>3. QED
    BY <2>1, <2>2, FS_Subset
<1>3. Sends(v) \in Nat
  BY AnalyticsAssumption DEF Sends, AnalyticsTypeOK
<1>4. rows[v] \in Nat
  BY DEF AnalyticsTypeOK
<1>5. QED
  BY <1>2, <1>3, <1>4, FS_CardinalityType

LEMMA CopyPartsNext ==
  ASSUME NEW v \in View
  PROVE  AnalyticsTypeOK'
           => (/\ Cardinality(Listed(v)) \in Nat
               /\ IsFiniteSet(Popped(v)) => Cardinality(Popped(v)) \in Nat
               /\ rows[v] \in Nat /\ Sends(v) \in Nat)'
<1>1. AnalyticsTypeOK
        => /\ Cardinality(Listed(v)) \in Nat
           /\ IsFiniteSet(Popped(v)) => Cardinality(Popped(v)) \in Nat
           /\ rows[v] \in Nat /\ Sends(v) \in Nat
  BY CopyParts
<1>2. QED
  BY <1>1, PTL

LEMMA SumStays ==
  ASSUME NEW r \in Nat, NEW l \in Nat, NEW h \in Nat, NEW s \in Nat,
         NEW r2 \in Nat, NEW l2 \in Nat, NEW h2 \in Nat, NEW s2 \in Nat,
         NEW dr \in Int, NEW dl \in Int, NEW dh \in Int, NEW ds \in Int,
         r2 <= r + dr, l2 <= l + dl, h2 <= h + dh, s2 >= s + ds,
         dr + dl + dh <= ds, r + l + h <= s
  PROVE  r2 + l2 + h2 <= s2
OBVIOUS

\* The copies of an event stay within its sends when they grow by no more.
LEMMA CopiesStay ==
  ASSUME AnalyticsTypeOK, AnalyticsTypeOK', NEW v \in View, Bounded(v), IsFiniteSet(Popped(v)'),
         NEW dr \in Int, NEW dl \in Int, NEW dh \in Int, NEW ds \in Int,
         rows'[v] <= rows[v] + dr,
         Cardinality(Listed(v)') <= Cardinality(Listed(v)) + dl,
         Cardinality(Popped(v)') <= Cardinality(Popped(v)) + dh,
         Sends(v)' >= Sends(v) + ds,
         dr + dl + dh <= ds
  PROVE  Bounded(v)'
<1> DEFINE r  == rows[v]    l  == Cardinality(Listed(v))
           h  == Cardinality(Popped(v))    s  == Sends(v)
           r2 == rows'[v]   l2 == Cardinality(Listed(v)')
           h2 == Cardinality(Popped(v)')   s2 == Sends(v)'
<1>1. r \in Nat /\ l \in Nat /\ h \in Nat /\ s \in Nat
  BY CopyParts DEF Bounded
<1>2. r2 \in Nat /\ l2 \in Nat /\ h2 \in Nat /\ s2 \in Nat
  BY CopyPartsNext
<1>3. r2 <= r + dr /\ l2 <= l + dl /\ h2 <= h + dh /\ s2 >= s + ds /\ r + l + h <= s
  BY DEF Bounded, Copies
<1>4. Copies(v)' = r2 + l2 + h2
  BY DEF Copies
<1> HIDE DEF r, l, h, s, r2, l2, h2, s2
<1>5. r2 + l2 + h2 <= s2
  BY <1>1, <1>2, <1>3, SumStays
<1>6. QED
  BY <1>4, <1>5 DEF Bounded, s2

\* An event that keeps its places stays within its sends.
LEMMA RowsStay ==
  ASSUME AnalyticsTypeOK, AnalyticsTypeOK', NEW v \in View, Bounded(v), rows'[v] <= rows[v],
         Listed(v)' = Listed(v), Popped(v)' = Popped(v), Sends(v)' = Sends(v)
  PROVE  Bounded(v)'
<1>1. /\ rows'[v] <= rows[v] + 0
      /\ Cardinality(Listed(v)') <= Cardinality(Listed(v)) + 0
      /\ Cardinality(Popped(v)') <= Cardinality(Popped(v)) + 0
      /\ Sends(v)' >= Sends(v) + 0
  BY CopyParts, CopyPartsNext DEF Bounded
<1>2. IsFiniteSet(Popped(v)') /\ 0 + 0 + 0 <= 0 /\ 0 \in Int
  BY DEF Bounded
<1>3. QED
  BY <1>1, <1>2, CopiesStay

LEMMA SendKeeps ==
  ASSUME AnalyticsTypeOK, AnalyticsTypeOK', PerSend, NEW v \in View, RPush(v),
         UNCHANGED <<rows, hand>>, Sends(v)' >= Sends(v) + 1,
         \A u \in View \ {v} : Sends(u)' = Sends(u)
  PROVE  PerSend'
<1>1. ASSUME NEW u \in View, Listed(u)' = Listed(u), Sends(u)' = Sends(u)
      PROVE  Bounded(u)'
  <2>1. Popped(u)' = Popped(u) /\ Bounded(u)
    BY DEF Popped, PerSend
  <2>2. rows[u] \in Nat
    BY DEF AnalyticsTypeOK
  <2>3. rows'[u] <= rows[u]
    BY <2>2
  <2>4. QED
    BY <1>1, <2>1, <2>3, RowsStay
<1>2. Cardinality(Listed(v)') <= Cardinality(Listed(v)) + 1
      /\ \A u \in View \ {v} : Listed(u)' = Listed(u)
  <2>1. CASE buffer' = buffer
    BY <2>1, CopyParts DEF Listed
  <2>2. CASE buffer' = Append(buffer, v)
    <3> DEFINE n == Len(buffer)
    <3>1. /\ n \in Nat /\ Len(buffer') = n + 1 /\ buffer'[n + 1] = v
          /\ \A i \in 1..n : buffer'[i] = buffer[i]
      BY <2>2, PushMoves
    <3>2. 1..Len(buffer') = 1..n \cup {n + 1}
      BY <3>1
    <3>3. Listed(v)' = Listed(v) \cup {n + 1} /\ \A u \in View \ {v} : Listed(u)' = Listed(u)
      BY <3>1, <3>2 DEF Listed
    <3>4. Cardinality(Listed(v) \cup {n + 1}) \in {Cardinality(Listed(v)), Cardinality(Listed(v)) + 1}
      BY CopyParts, FS_AddElement
    <3>5. QED
      BY <3>3, <3>4, CopyParts
  <2>3. QED
    BY <2>1, <2>2 DEF RPush
<1>3. Bounded(v)'
  <2>1. Popped(v)' = Popped(v) /\ Bounded(v)
    BY DEF Popped, PerSend
  <2>2. /\ rows'[v] <= rows[v] + 0
        /\ Cardinality(Popped(v)') <= Cardinality(Popped(v)) + 0
        /\ IsFiniteSet(Popped(v)') /\ 0 + 1 + 0 <= 1 /\ 0 \in Int /\ 1 \in Int
    BY <2>1, CopyParts DEF Bounded
  <2>3. QED
    BY <1>2, <2>1, <2>2, CopiesStay
<1>4. QED
  BY <1>1, <1>2, <1>3 DEF PerSend

LEMMA QueueKeeps ==
  ASSUME AnalyticsTypeOK, AnalyticsTypeOK', PerSend, NEW v \in View,
         ResendPush(v) \/ \E stale \in BOOLEAN : QueueWidgetAnalytics(v, stale)
  PROVE  PerSend'
<1>1. RPush(v) /\ UNCHANGED <<rows, hand>>
  BY DEF ResendPush, QueueWidgetAnalytics, flushers
<1>2. \A u \in View \ {v} : Sends(u)' = Sends(u)
  BY DEF ResendPush, QueueWidgetAnalytics, Sends, AnalyticsTypeOK
<1>3. Sends(v)' >= Sends(v) + 1
  <2>1. resent[v] \in Nat
    BY AnalyticsAssumption DEF AnalyticsTypeOK
  <2>2. CASE ResendPush(v)
    BY <2>1, <2>2 DEF ResendPush, Sends, AnalyticsTypeOK
  <2>3. CASE v \notin pushed /\ v \in pushed' /\ resent' = resent
    BY <2>1, <2>3 DEF Sends
  <2>4. QED
    BY <2>2, <2>3 DEF QueueWidgetAnalytics
<1>4. QED
  BY <1>1, <1>2, <1>3, SendKeeps

LEMMA PopKeeps ==
  ASSUME AnalyticsTypeOK, AnalyticsTypeOK', PerSend, NEW p \in Process, Pop(p) \/ PopFails(p)
  PROVE  PerSend'
<1>1. /\ rows' = rows /\ pushed' = pushed /\ resent' = resent /\ hand[p] = 0 /\ 0 \notin View
      /\ hand \in [Process -> View \cup {0}]
  BY AnalyticsAssumption DEF Pop, PopFails, Ready, pushes, AnalyticsTypeOK
<1>2. \A v \in View : Sends(v)' = Sends(v) /\ rows'[v] <= rows[v] /\ Bounded(v)
  BY <1>1, CopyParts DEF Sends, PerSend
<1>3. CASE UNCHANGED <<buffer, hand>>
  <2>1. \A v \in View : Listed(v)' = Listed(v) /\ Popped(v)' = Popped(v)
    BY <1>3 DEF Listed, Popped
  <2>2. QED
    BY <1>2, <2>1, RowsStay DEF PerSend
<1>4. ASSUME NEW last, last = buffer[Len(buffer)],
             buffer # <<>>, buffer' = SubSeq(buffer, 1, Len(buffer) - 1),
             hand' \in {hand, [hand EXCEPT ![p] = last]}
      PROVE  PerSend'
  <2> DEFINE n == Len(buffer)
  <2>1. /\ n \in Nat /\ n # 0 /\ Len(buffer') = n - 1 /\ last \in View
        /\ \A i \in 1..(n - 1) : buffer'[i] = buffer[i]
    BY <1>4, ShorterBuffer DEF AnalyticsTypeOK
  <2>2. 1..(n - 1) = (1..n) \ {n} /\ n \in 1..n
    BY <2>1
  <2>3. /\ Listed(last)' = Listed(last) \ {n} /\ n \in Listed(last)
        /\ \A v \in View \ {last} : Listed(v)' = Listed(v)
    BY <1>4, <2>1, <2>2 DEF Listed
  <2>4. /\ Popped(last)' \in {Popped(last), Popped(last) \cup {p}}
        /\ \A v \in View \ {last} : Popped(v)' = Popped(v)
    BY <1>1, <1>4 DEF Popped
  <2>5. Bounded(last)'
    <3>1. IsFiniteSet(Popped(last)) /\ IsFiniteSet(Listed(last))
      BY <2>1, <1>2, CopyParts DEF Bounded
    <3>2. Cardinality(Listed(last)') = Cardinality(Listed(last)) - 1
      BY <2>3, <3>1, FS_RemoveElement
    <3>3. /\ IsFiniteSet(Popped(last) \cup {p})
          /\ Cardinality(Popped(last) \cup {p}) \in {Cardinality(Popped(last)), Cardinality(Popped(last)) + 1}
      BY <3>1, FS_AddElement
    <3>4. /\ Cardinality(Listed(last)) \in Nat /\ Cardinality(Popped(last)) \in Nat
          /\ rows[last] \in Nat /\ Sends(last) \in Nat
      BY <2>1, <3>1, CopyParts
    <3>5. /\ IsFiniteSet(Popped(last)')
          /\ Cardinality(Popped(last)') <= Cardinality(Popped(last)) + 1
      <4>1. CASE Popped(last)' = Popped(last)
        BY <3>1, <3>4, <4>1
      <4>2. CASE Popped(last)' = Popped(last) \cup {p}
        BY <3>3, <3>4, <4>2
      <4>3. QED
        BY <2>4, <4>1, <4>2
    <3>6. /\ Cardinality(Listed(last)') <= Cardinality(Listed(last)) + (-1)
          /\ rows'[last] <= rows[last] + 0 /\ Sends(last)' >= Sends(last) + 0
          /\ 0 + (-1) + 1 <= 0 /\ 0 \in Int /\ -1 \in Int /\ 1 \in Int
      BY <1>1, <1>2, <2>1, <3>2, <3>4
    <3>7. QED
      BY <1>2, <2>1, <3>5, <3>6, CopiesStay
  <2>6. ASSUME NEW v \in View \ {last} PROVE Bounded(v)'
    BY <1>2, <2>3, <2>4, RowsStay
  <2>7. QED
    BY <2>5, <2>6 DEF PerSend
<1>5. QED
  BY <1>3, <1>4 DEF Pop, PopFails, Remaining

LEMMA HandKeeps ==
  ASSUME AnalyticsTypeOK, AnalyticsTypeOK', PerSend,
         NEW p \in Process, Insert(p) \/ InsertFails(p) \/ Restart(p)
  PROVE  PerSend'
<1>1. /\ buffer' = buffer /\ pushed' = pushed /\ resent' = resent /\ 0 \notin View
      /\ hand \in [Process -> View \cup {0}] /\ hand' = [hand EXCEPT ![p] = 0]
  BY AnalyticsAssumption DEF Insert, InsertFails, Restart, EmptyHand, pushes, AnalyticsTypeOK
<1>2. ASSUME NEW v \in View PROVE Bounded(v)'
  <2>1. Bounded(v) /\ Listed(v)' = Listed(v) /\ Sends(v)' = Sends(v)
    BY <1>1 DEF PerSend, Listed, Sends
  <2>2. /\ Cardinality(Listed(v)) \in Nat /\ Cardinality(Popped(v)) \in Nat
        /\ rows[v] \in Nat /\ Sends(v) \in Nat /\ IsFiniteSet(Popped(v))
    BY <2>1, CopyParts DEF Bounded
  <2>3. CASE hand[p] # v
    <3>1. Popped(v)' = Popped(v)
      BY <1>1, <2>3 DEF Popped
    <3>2. rows'[v] <= rows[v]
      BY <2>2, <2>3 DEF Insert, Inserted, InsertFails, Restart, AnalyticsTypeOK
    <3>3. QED
      BY <2>1, <3>1, <3>2, RowsStay
  <2>4. CASE hand[p] = v
    <3>1. Popped(v)' = Popped(v) \ {p} /\ p \in Popped(v)
      BY <1>1, <2>4 DEF Popped
    <3>2. IsFiniteSet(Popped(v)') /\ Cardinality(Popped(v)') = Cardinality(Popped(v)) - 1
      BY <2>2, <3>1, FS_RemoveElement, FS_Subset
    <3>3. rows'[v] <= rows[v] + 1
      BY <2>2, <2>4 DEF Insert, Inserted, InsertFails, Restart, AnalyticsTypeOK
    <3>4. /\ Cardinality(Popped(v)') <= Cardinality(Popped(v)) + (-1)
          /\ Cardinality(Listed(v)') <= Cardinality(Listed(v)) + 0
          /\ Sends(v)' >= Sends(v) + 0
          /\ 1 + 0 + (-1) <= 0 /\ 0 \in Int /\ -1 \in Int /\ 1 \in Int
      BY <2>1, <2>2, <3>2
    <3>5. QED
      BY <2>1, <3>2, <3>3, <3>4, CopiesStay
  <2>5. QED
    BY <2>3, <2>4
<1>3. QED
  BY <1>2 DEF PerSend

LEMMA RowsKeep ==
  ASSUME AnalyticsTypeOK, AnalyticsTypeOK', PerSend,
         UNCHANGED <<pushed, resent, buffer, hand>>, \A v \in View : rows'[v] <= rows[v]
  PROVE  PerSend'
<1>1. ASSUME NEW v \in View PROVE Bounded(v)'
  <2>1. /\ Bounded(v) /\ Listed(v)' = Listed(v) /\ Popped(v)' = Popped(v)
        /\ Sends(v)' = Sends(v) /\ rows'[v] <= rows[v]
    BY DEF PerSend, Listed, Popped, Sends
  <2>2. QED
    BY <2>1, RowsStay
<1>2. QED
  BY <1>1 DEF PerSend

\* However many processes flush the list, however often they fail or restart,
\* and however often the client sends a push again, no event gets more rows than
\* its push was sent; with nothing sent again, one row at most.
THEOREM StoredPerSendAlways == AnalyticsSpec => []StoredPerSend
<1>1. AnalyticsInit => PerSend
  <2> SUFFICES ASSUME AnalyticsInit, NEW v \in View PROVE Bounded(v)
    BY DEF PerSend
  <2>1. Listed(v) = {} /\ Popped(v) = {} /\ rows[v] = 0 /\ Sends(v) = 0
    BY AnalyticsAssumption, EmptySeq DEF AnalyticsInit, Listed, Popped, Sends
  <2>2. QED
    BY <2>1, FS_EmptySet DEF Bounded, Copies
<1>2. AnalyticsTypeOK /\ AnalyticsTypeOK' /\ PerSend /\ [AnalyticsNext]_analyticsVars => PerSend'
  <2> SUFFICES ASSUME AnalyticsTypeOK, AnalyticsTypeOK', PerSend, [AnalyticsNext]_analyticsVars
               PROVE  PerSend'
    OBVIOUS
  <2>1. \A v \in View : rows[v] \in Nat
    BY DEF AnalyticsTypeOK
  <2>2. ASSUME NEW p \in Process, FlushWidgetAnalytics(p) \/ EndFlush(p) \/ HangInWebhooks(p)
        PROVE  PerSend'
    BY <2>1, <2>2, RowsKeep DEF FlushWidgetAnalytics, EndFlush, HangInWebhooks, pushes
  <2>3. ASSUME NEW p \in Process, NEW v \in View, CleanupWidgetAnalytics(p, v)
        PROVE  PerSend'
    <3>1. PICK n \in 0..(rows[v] - 1) : rows' = [rows EXCEPT ![v] = n]
      BY <2>3 DEF CleanupWidgetAnalytics
    <3>2. \A u \in View : rows'[u] <= rows[u]
      BY <2>1, <3>1 DEF AnalyticsTypeOK
    <3>3. QED
      BY <2>3, <3>2, RowsKeep DEF CleanupWidgetAnalytics, pushes, flushers
  <2>4. ASSUME DeleteAnalyzedWidget PROVE PerSend'
    <3>1. \A u \in View : rows'[u] <= rows[u]
      BY <2>1, <2>4 DEF DeleteAnalyzedWidget
    <3>2. QED
      BY <2>4, <3>1, RowsKeep DEF DeleteAnalyzedWidget, pushes, flushers
  <2>5. CASE UNCHANGED analyticsVars
    BY <2>1, <2>5, RowsKeep DEF analyticsVars, pushes, flushers
  <2>6. QED
    BY <2>2, <2>3, <2>4, <2>5, QueueKeeps, PopKeeps, HandKeeps DEF AnalyticsNext, Flush
<1>3. PerSend => StoredPerSend
  BY DEF PerSend, Bounded, StoredPerSend
<1>4. QED
  BY <1>1, <1>2, <1>3, AnalyticsTypeCorrect, PTL DEF AnalyticsSpec

(***************************************************************************)
(* The list is flushed: every step leaves the backlog as it is or makes it *)
(* smaller, and a goroutine that does not hang makes it smaller.           *)
(***************************************************************************)
\* Events whose push is still to be sent, or may be sent again.
Unpushed == (View \ pushed) \cup unanswered
Awake    == {p \in Process : goroutine[p] # "hung"}

\* What may still be popped, pushed, hung or lost.  A push adds an event to the
\* list, so that it counts twice; a lost call may add one and leave its push to
\* be sent again, or wake a goroutine, so that it counts three times.
Backlog ==
  Len(buffer) + 2 * Cardinality(Unpushed) + Cardinality(Awake) + 3 * (MaxLostCalls - lostCalls)

LEMMA FlushHoldsInduction == AnalyticsSpec => []FlushHolds
<1> USE DEF FlushHolds, AnalyticsTypeOK
<1>1. AnalyticsInit => FlushHolds
  BY DEF AnalyticsInit
<1>2. AnalyticsTypeOK /\ FlushHolds /\ [AnalyticsNext]_analyticsVars => FlushHolds'
  <2> SUFFICES ASSUME AnalyticsTypeOK, FlushHolds, [AnalyticsNext]_analyticsVars PROVE FlushHolds'
    OBVIOUS
  <2>1. ASSUME NEW v \in View,
               ResendPush(v) \/ \E stale \in BOOLEAN : QueueWidgetAnalytics(v, stale)
        PROVE  FlushHolds'
    BY <2>1 DEF ResendPush, QueueWidgetAnalytics, flushers
  <2>2. ASSUME NEW p \in Process, Flush(p)
        PROVE  FlushHolds'
    BY <2>2 DEF Flush, FlushWidgetAnalytics, Pop, EndFlush, PopFails, Insert, InsertFails, Ready,
                Return, EmptyHand
  <2>3. ASSUME NEW p \in Process, HangInWebhooks(p) \/ Restart(p) \/ \E v \in View : CleanupWidgetAnalytics(p, v)
        PROVE  FlushHolds'
    BY <2>3 DEF HangInWebhooks, Restart, CleanupWidgetAnalytics, flushers, Return, EmptyHand
  <2>4. CASE DeleteAnalyzedWidget \/ UNCHANGED analyticsVars
    BY <2>4 DEF DeleteAnalyzedWidget, flushers, analyticsVars
  <2>5. QED
    BY <2>1, <2>2, <2>3, <2>4 DEF AnalyticsNext
<1>3. QED
  BY <1>1, <1>2, AnalyticsTypeCorrect, PTL DEF AnalyticsSpec

LEMMA BacklogParts ==
  ASSUME IsFiniteSet(Process), AnalyticsTypeOK
  PROVE  /\ IsFiniteSet(Unpushed) /\ Cardinality(Unpushed) \in Nat
         /\ IsFiniteSet(Awake) /\ Cardinality(Awake) \in Nat
         /\ Len(buffer) \in Nat /\ MaxLostCalls - lostCalls \in Nat
         /\ Backlog \in Nat
<1>1. IsFiniteSet(Unpushed) /\ IsFiniteSet(Awake)
  BY AnalyticsAssumption, FS_Subset DEF Unpushed, Awake, AnalyticsTypeOK
<1>2. Cardinality(Unpushed) \in Nat /\ Cardinality(Awake) \in Nat
  BY <1>1, FS_CardinalityType
<1>3. Len(buffer) \in Nat /\ MaxLostCalls - lostCalls \in Nat
  BY AnalyticsAssumption, LenProperties DEF AnalyticsTypeOK
<1>4. QED
  BY <1>1, <1>2, <1>3 DEF Backlog

LEMMA BacklogPartsNext ==
  IsFiniteSet(Process) /\ AnalyticsTypeOK'
    => (/\ IsFiniteSet(Unpushed) /\ Cardinality(Unpushed) \in Nat
        /\ IsFiniteSet(Awake) /\ Cardinality(Awake) \in Nat
        /\ Len(buffer) \in Nat)'
<1>1. IsFiniteSet(Process) /\ AnalyticsTypeOK
        => /\ IsFiniteSet(Unpushed) /\ Cardinality(Unpushed) \in Nat
           /\ IsFiniteSet(Awake) /\ Cardinality(Awake) \in Nat
           /\ Len(buffer) \in Nat
  BY BacklogParts
<1>2. (IsFiniteSet(Process) /\ AnalyticsTypeOK)'
        => (/\ IsFiniteSet(Unpushed) /\ Cardinality(Unpushed) \in Nat
            /\ IsFiniteSet(Awake) /\ Cardinality(Awake) \in Nat
            /\ Len(buffer) \in Nat)'
  BY <1>1, PTL
<1>3. QED
  BY <1>2

\* Less in one part weighs more than what is added to another.
LEMMA SumFalls ==
  ASSUME NEW b \in Nat, NEW u \in Nat, NEW a \in Nat, NEW l \in Nat,
         NEW b2 \in Nat, NEW u2 \in Nat, NEW a2 \in Nat, NEW l2 \in Nat, NEW max \in Nat,
         NEW sends \in {0, 1}, NEW pops \in {0, 1}, NEW hangs \in {0, 1}, NEW loses \in {0, 1},
         u2 = u - sends, b2 <= b + sends + loses - pops, l2 = l + loses, a2 <= a + loses - hangs
  PROVE  b2 + 2 * u2 + a2 + 3 * (max - l2)
           <= b + 2 * u + a + 3 * (max - l) - sends - pops - hangs - loses
OBVIOUS

\* What a step does to the backlog, by what it does to the parts.
LEMMA BacklogFalls ==
  ASSUME IsFiniteSet(Process), AnalyticsTypeOK, AnalyticsTypeOK',
         NEW sends \in {0, 1}, NEW pops \in {0, 1}, NEW hangs \in {0, 1}, NEW loses \in {0, 1},
         Cardinality(Unpushed)' = Cardinality(Unpushed) - sends,
         Cardinality(Awake)' <= Cardinality(Awake) + loses - hangs,
         lostCalls' = lostCalls + loses,
         Len(buffer)' <= Len(buffer) + sends + loses - pops
  PROVE  Backlog' <= Backlog - sends - pops - hangs - loses
<1>1. /\ Len(buffer)' \in Nat /\ Cardinality(Unpushed)' \in Nat /\ Cardinality(Awake)' \in Nat
      /\ Len(buffer) \in Nat /\ Cardinality(Unpushed) \in Nat /\ Cardinality(Awake) \in Nat
  BY BacklogParts, BacklogPartsNext
<1>2. lostCalls \in Nat /\ lostCalls' \in Nat /\ MaxLostCalls \in Nat
  BY AnalyticsAssumption DEF AnalyticsTypeOK
<1> DEFINE b  == Len(buffer)    u  == Cardinality(Unpushed)   a  == Cardinality(Awake)
           b2 == Len(buffer)'   u2 == Cardinality(Unpushed)'  a2 == Cardinality(Awake)'
           l  == lostCalls      l2 == lostCalls'
<1>3. /\ b \in Nat /\ u \in Nat /\ a \in Nat /\ l \in Nat
      /\ b2 \in Nat /\ u2 \in Nat /\ a2 \in Nat /\ l2 \in Nat
      /\ u2 = u - sends /\ b2 <= b + sends + loses - pops /\ l2 = l + loses /\ a2 <= a + loses - hangs
  BY <1>1, <1>2
<1>4. /\ Backlog = b + 2 * u + a + 3 * (MaxLostCalls - l)
      /\ Backlog' = b2 + 2 * u2 + a2 + 3 * (MaxLostCalls - l2)
  BY DEF Backlog
<1> HIDE DEF b, u, a, l, b2, u2, a2, l2
<1>5. b2 + 2 * u2 + a2 + 3 * (MaxLostCalls - l2)
        <= b + 2 * u + a + 3 * (MaxLostCalls - l) - sends - pops - hangs - loses
  BY <1>2, <1>3, SumFalls
<1>6. QED
  BY <1>2, <1>3, <1>4, <1>5

Falls == Backlog \in Nat /\ Backlog' \in Nat /\ Backlog' < Backlog
Lasts == Backlog \in Nat /\ Backlog' = Backlog

LEMMA BacklogIsNaturalNext ==
  IsFiniteSet(Process) /\ AnalyticsTypeOK' => (Backlog \in Nat)'
<1>1. IsFiniteSet(Process) /\ AnalyticsTypeOK => Backlog \in Nat
  BY BacklogParts
<1>2. (IsFiniteSet(Process) /\ AnalyticsTypeOK)' => (Backlog \in Nat)'
  BY <1>1, PTL
<1>3. QED
  BY <1>2

LEMMA BacklogIsNatural ==
  ASSUME IsFiniteSet(Process), AnalyticsTypeOK, AnalyticsTypeOK'
  PROVE  Backlog \in Nat /\ Backlog' \in Nat
BY BacklogParts, BacklogIsNaturalNext

\* A push that is answered is not sent again; one that is not may have been made.
LEMMA QueueFalls ==
  ASSUME IsFiniteSet(Process), AnalyticsTypeOK, AnalyticsTypeOK', NEW v \in View,
         ResendPush(v) \/ \E stale \in BOOLEAN : QueueWidgetAnalytics(v, stale)
  PROVE  Falls
<1>1. RPush(v) /\ v \in Unpushed /\ Awake' = Awake /\ pushed' = pushed \cup {v}
  BY DEF ResendPush, QueueWidgetAnalytics, Unpushed, Awake, flushers, AnalyticsTypeOK
<1>2. Cardinality(Awake)' <= Cardinality(Awake) + 0 - 0 /\ Cardinality(Awake)' <= Cardinality(Awake) + 1 - 0
  BY <1>1, BacklogParts
<1>3. Len(Append(buffer, v)) = Len(buffer) + 1
  BY AppendProperties DEF AnalyticsTypeOK
<1>4. CASE /\ buffer' = Append(buffer, v) /\ unanswered' = unanswered \ {v}
           /\ UNCHANGED lostCalls
  <2>1. Unpushed' = Unpushed \ {v}
    BY <1>1, <1>4 DEF Unpushed
  <2>2. Cardinality(Unpushed)' = Cardinality(Unpushed) - 1
    BY <1>1, <2>1, BacklogParts, FS_RemoveElement
  <2>3. Len(buffer)' <= Len(buffer) + 1 + 0 - 0
    BY <1>3, <1>4, BacklogParts
  <2>4. lostCalls' = lostCalls + 0
    BY <1>4, AnalyticsAssumption DEF AnalyticsTypeOK
  <2>5. Backlog' <= Backlog - 1 - 0 - 0 - 0
    BY <1>2, <2>2, <2>3, <2>4, BacklogFalls
  <2>6. QED
    BY <2>5, BacklogIsNatural DEF Falls
<1>5. CASE /\ LostCall /\ buffer' \in {buffer, Append(buffer, v)}
           /\ unanswered' = unanswered \cup {v}
  <2>1. Unpushed' = Unpushed
    BY <1>1, <1>5 DEF Unpushed
  <2>2. Cardinality(Unpushed)' = Cardinality(Unpushed) - 0
    BY <2>1, BacklogParts
  <2>3. Len(buffer)' <= Len(buffer) + 0 + 1 - 0
    BY <1>3, <1>5, BacklogParts
  <2>4. lostCalls' = lostCalls + 1
    BY <1>5 DEF LostCall
  <2>5. Backlog' <= Backlog - 0 - 0 - 0 - 1
    BY <1>2, <2>2, <2>3, <2>4, BacklogFalls
  <2>6. QED
    BY <2>5, BacklogIsNatural DEF Falls
<1>6. QED
  BY <1>1, <1>4, <1>5 DEF RPush

\* A step that pops, hangs or loses a call without a push.
LEMMA PartsFall ==
  ASSUME IsFiniteSet(Process), AnalyticsTypeOK, AnalyticsTypeOK',
         NEW pops \in {0, 1}, NEW hangs \in {0, 1}, NEW loses \in {0, 1},
         UNCHANGED <<pushed, unanswered>>,
         Cardinality(Awake)' <= Cardinality(Awake) + loses - hangs,
         lostCalls' = lostCalls + loses,
         Len(buffer)' <= Len(buffer) - pops,
         pops + hangs + loses > 0
  PROVE  Falls
<1>1. Cardinality(Unpushed)' = Cardinality(Unpushed) - 0
  BY BacklogParts DEF Unpushed
<1>2. Len(buffer)' <= Len(buffer) + 0 + loses - pops
  BY BacklogParts, BacklogPartsNext
<1>3. Backlog' <= Backlog - 0 - pops - hangs - loses
  BY <1>1, <1>2, BacklogFalls
<1>4. QED
  BY <1>3, BacklogIsNatural DEF Falls

LEMMA PopFalls ==
  ASSUME IsFiniteSet(Process), AnalyticsTypeOK, AnalyticsTypeOK',
         NEW p \in Process, Pop(p) \/ PopFails(p) \/ InsertFails(p)
  PROVE  Falls
<1>1. pushed' = pushed /\ unanswered' = unanswered /\ Awake' = Awake
  BY DEF Pop, PopFails, InsertFails, Awake, Ready, Return, pushes, AnalyticsTypeOK
<1>2. /\ Cardinality(Awake)' <= Cardinality(Awake) + 0 - 0
      /\ Cardinality(Awake)' <= Cardinality(Awake) + 1 - 0
  BY <1>1, BacklogParts
<1>3. CASE Pop(p)
  <2>1. Len(buffer)' <= Len(buffer) - 1
    BY <1>3, ShorterBuffer DEF Pop, Remaining, AnalyticsTypeOK
  <2>2. lostCalls' = lostCalls + 0
    BY <1>3, AnalyticsAssumption DEF Pop, AnalyticsTypeOK
  <2>3. QED
    BY <1>1, <1>2, <2>1, <2>2, PartsFall
<1>4. CASE PopFails(p) \/ InsertFails(p)
  <2>1. Len(buffer)' <= Len(buffer) - 0
    BY <1>4, ShorterBuffer, BacklogParts DEF PopFails, InsertFails, AnalyticsTypeOK
  <2>2. lostCalls' = lostCalls + 1
    BY <1>4 DEF PopFails, InsertFails, LostCall
  <2>3. QED
    BY <1>1, <1>2, <2>1, <2>2, PartsFall
<1>5. QED
  BY <1>3, <1>4

LEMMA HangFalls ==
  ASSUME IsFiniteSet(Process), AnalyticsTypeOK, AnalyticsTypeOK',
         NEW p \in Process, HangInWebhooks(p) \/ Restart(p)
  PROVE  Falls
<1>1. UNCHANGED <<pushed, unanswered>> /\ Len(buffer)' <= Len(buffer) - 0
  BY BacklogParts DEF HangInWebhooks, Restart, pushes
<1>2. IsFiniteSet(Awake) /\ Cardinality(Awake) \in Nat /\ Cardinality(Awake)' \in Nat
  BY BacklogParts, BacklogPartsNext
<1>3. CASE HangInWebhooks(p)
  <2>1. Awake' = Awake \ {p} /\ p \in Awake
    BY <1>3 DEF HangInWebhooks, Awake, AnalyticsTypeOK
  <2>2. Cardinality(Awake)' = Cardinality(Awake) - 1
    BY <1>2, <2>1, FS_RemoveElement
  <2>3. Cardinality(Awake)' <= Cardinality(Awake) + 0 - 1
    BY <1>2, <2>2
  <2>4. lostCalls' = lostCalls + 0
    BY <1>3, AnalyticsAssumption DEF HangInWebhooks, AnalyticsTypeOK
  <2>5. QED
    BY <1>1, <2>3, <2>4, PartsFall
<1>4. CASE Restart(p)
  <2>1. Awake' = Awake \cup {p}
    BY <1>4 DEF Restart, Return, Awake, AnalyticsTypeOK
  <2>2. Cardinality(Awake)' \in {Cardinality(Awake), Cardinality(Awake) + 1}
    BY <1>2, <2>1, FS_AddElement
  <2>3. Cardinality(Awake)' <= Cardinality(Awake) + 1 - 0
    BY <1>2, <2>2
  <2>4. lostCalls' = lostCalls + 1
    BY <1>4 DEF Restart, LostCall
  <2>5. QED
    BY <1>1, <2>3, <2>4, PartsFall
<1>5. QED
  BY <1>3, <1>4

LEMMA BacklogStays ==
  ASSUME IsFiniteSet(Process), AnalyticsTypeOK,
         UNCHANGED <<pushed, unanswered, buffer, lostCalls>>, Awake' = Awake
  PROVE  Lasts
BY BacklogParts DEF Lasts, Backlog, Unpushed

\* A flush that neither pops nor fails leaves the backlog.
LEMMA FlushLasts ==
  ASSUME IsFiniteSet(Process), AnalyticsTypeOK,
         NEW p \in Process, FlushWidgetAnalytics(p) \/ EndFlush(p) \/ Insert(p)
  PROVE  Lasts
<1>1. UNCHANGED <<pushed, unanswered, buffer, lostCalls>>
  BY DEF FlushWidgetAnalytics, EndFlush, Insert, pushes
<1>2. Awake' = Awake
  BY DEF FlushWidgetAnalytics, EndFlush, Insert, Awake, Return, Ready, AnalyticsTypeOK
<1>3. QED
  BY <1>1, <1>2, BacklogStays

\* Where a goroutine is in its round.
Inserting(p) == hand[p] # 0
Spent(p)     == Ready(p) /\ left[p] = 0
Waiting(p)   == goroutine[p] = "waiting" /\ hand[p] = 0
Popping(p)   == Ready(p) /\ left[p] > 0

SameRound(p) == UNCHANGED <<goroutine[p], left[p], hand[p]>>

\* A step of another leaves the goroutine where it is, or the backlog falls.
LEMMA OthersLeaveRound ==
  ASSUME IsFiniteSet(Process), AnalyticsTypeOK, AnalyticsTypeOK', [AnalyticsNext]_analyticsVars,
         NEW p \in Process, ~Flush(p)
  PROVE  Falls \/ (Lasts /\ SameRound(p))
<1> USE DEF AnalyticsTypeOK, SameRound
<1>1. ASSUME NEW v \in View,
             ResendPush(v) \/ \E stale \in BOOLEAN : QueueWidgetAnalytics(v, stale)
      PROVE  Falls
  BY <1>1, QueueFalls
<1>2. ASSUME NEW q \in Process, Flush(q)
      PROVE  Falls \/ (Lasts /\ SameRound(p))
  <2>1. CASE Pop(q) \/ PopFails(q) \/ InsertFails(q)
    BY <2>1, PopFalls
  <2>2. CASE FlushWidgetAnalytics(q) \/ EndFlush(q) \/ Insert(q)
    <3>1. Lasts
      BY <2>2, FlushLasts
    <3>2. q # p
      BY <1>2
    <3>3. SameRound(p)
      <4>1. CASE FlushWidgetAnalytics(q)
        BY <3>2, <4>1 DEF FlushWidgetAnalytics, Renewed
      <4>2. CASE EndFlush(q)
        BY <3>2, <4>2 DEF EndFlush, Return
      <4>3. CASE Insert(q)
        BY <3>2, <4>3 DEF Insert, EmptyHand
      <4>4. QED
        BY <2>2, <4>1, <4>2, <4>3
    <3>4. QED
      BY <3>1, <3>3
  <2>3. QED
    BY <1>2, <2>1, <2>2 DEF Flush
<1>3. ASSUME NEW q \in Process, HangInWebhooks(q) \/ Restart(q)
      PROVE  Falls
  BY <1>3, HangFalls
<1>4. CASE (\E q \in Process, v \in View : CleanupWidgetAnalytics(q, v)) \/ DeleteAnalyzedWidget
           \/ UNCHANGED analyticsVars
  <2>1. UNCHANGED <<pushed, unanswered, buffer, lostCalls, flushers>>
    BY <1>4 DEF CleanupWidgetAnalytics, DeleteAnalyzedWidget, analyticsVars, pushes
  <2>2. Awake' = Awake
    BY <2>1 DEF flushers, Awake
  <2>3. QED
    BY <2>1, <2>2, BacklogStays DEF flushers
<1>5. QED
  BY <1>1, <1>2, <1>3, <1>4 DEF AnalyticsNext

\* The rounds of a goroutine, while there is something to pop.
LEMMA RoundGoesOn ==
  ASSUME IsFiniteSet(Process), AnalyticsTypeOK, AnalyticsTypeOK', FlushHolds,
         NEW p \in Process, Flush(p), buffer # <<>>
  PROVE  \/ Falls
         \/ /\ Lasts
            /\ \/ Inserting(p) /\ (Spent(p)' \/ Popping(p)')
               \/ Spent(p) /\ Waiting(p)'
               \/ Waiting(p) /\ Popping(p)'
<1>1. CASE Pop(p) \/ PopFails(p) \/ InsertFails(p)
  BY <1>1, PopFalls
<1>2. CASE FlushWidgetAnalytics(p)
  <2>1. Waiting(p) /\ Popping(p)'
    BY <1>2, AnalyticsAssumption
    DEF FlushWidgetAnalytics, Renewed, FlushHolds, AnalyticsTypeOK, Waiting, Popping, Ready
  <2>2. QED
    BY <1>2, <2>1, FlushLasts
<1>3. CASE EndFlush(p)
  <2>1. Spent(p) /\ Waiting(p)'
    BY <1>3 DEF EndFlush, Return, AnalyticsTypeOK, Spent, Waiting, Ready
  <2>2. QED
    BY <1>3, <2>1, FlushLasts
<1>4. CASE Insert(p)
  <2>1. Inserting(p) /\ (Spent(p)' \/ Popping(p)')
    BY <1>4, AnalyticsAssumption
    DEF Insert, EmptyHand, FlushHolds, AnalyticsTypeOK, Inserting, Spent, Popping, Ready
  <2>2. QED
    BY <1>4, <2>1, FlushLasts
<1>5. QED
  BY <1>1, <1>2, <1>3, <1>4 DEF Flush

Going ==
  /\ [][AnalyticsNext]_analyticsVars /\ []AnalyticsTypeOK /\ []FlushHolds
  /\ []FlushesGoOn /\ []AnalyticsFairness

Sinks(v, n) == ~InBuffer(v) \/ Backlog <= n
Stuck(v)    == ~InBuffer(v) \/ \A p \in Process : goroutine[p] = "hung"

\* The event waits, with a backlog of n + 1.
At(v, n, round) == InBuffer(v) /\ Backlog = n + 1 /\ round

LEMMA RoundStays ==
  ASSUME IsFiniteSet(Process), NEW v \in View, NEW n \in Nat, NEW p \in Process,
         AnalyticsTypeOK, AnalyticsTypeOK', [AnalyticsNext]_analyticsVars,
         InBuffer(v), Backlog = n + 1, ~Flush(p)
  PROVE  \/ Sinks(v, n)'
         \/ (InBuffer(v) /\ Backlog = n + 1)' /\ SameRound(p)
BY OthersLeaveRound DEF Falls, Lasts, Sinks

LEMMA RoundAdvances ==
  ASSUME IsFiniteSet(Process), NEW v \in View, NEW n \in Nat, NEW p \in Process,
         AnalyticsTypeOK, AnalyticsTypeOK', FlushHolds,
         InBuffer(v), Backlog = n + 1, Flush(p)
  PROVE  \/ Sinks(v, n)'
         \/ /\ (InBuffer(v) /\ Backlog = n + 1)'
            /\ \/ Inserting(p) /\ (Spent(p)' \/ Popping(p)')
               \/ Spent(p) /\ Waiting(p)'
               \/ Waiting(p) /\ Popping(p)'
<1>1. buffer # <<>>
  BY LenProperties DEF InBuffer, Listed, AnalyticsTypeOK
<1>2. QED
  BY <1>1, RoundGoesOn DEF Falls, Lasts, Sinks

SinksFrom(v, n, p) ==
  (InBuffer(v) /\ Backlog <= n + 1 /\ goroutine[p] # "hung") ~> Sinks(v, n)

\* A goroutine that does not hang lets the backlog fall.
LEMMA EachFlushSinks ==
  ASSUME IsFiniteSet(Process), NEW v \in View, NEW n \in Nat, NEW p \in Process
  PROVE  Going => SinksFrom(v, n, p)
<1> DEFINE Here(round) == At(v, n, round)
<1>1. AnalyticsTypeOK /\ FlushHolds /\ InBuffer(v) /\ Backlog <= n + 1 /\ goroutine[p] # "hung"
        => \/ Sinks(v, n)
           \/ Here(Inserting(p)) \/ Here(Spent(p)) \/ Here(Waiting(p)) \/ Here(Popping(p))
  BY BacklogParts
  DEF AnalyticsTypeOK, FlushHolds, Sinks, At, Inserting, Spent, Waiting, Popping, Ready
<1>2. AnalyticsTypeOK /\ FlushHolds /\ FlushesGoOn
        /\ (Here(Inserting(p)) \/ Here(Spent(p)) \/ Here(Waiting(p)) \/ Here(Popping(p)))
        => ENABLED <<Flush(p)>>_analyticsVars
  BY DEF FlushesGoOn, At, FlushHolds, Inserting, Spent, Waiting, Popping, Ready
<1>3. AnalyticsTypeOK /\ AnalyticsTypeOK' /\ FlushHolds /\ [AnalyticsNext]_analyticsVars
        => /\ Here(Inserting(p))
                => \/ Here(Inserting(p))' /\ ~<<Flush(p)>>_analyticsVars
                   \/ Here(Spent(p))' \/ Here(Popping(p))' \/ Sinks(v, n)'
           /\ Here(Spent(p))
                => \/ Here(Spent(p))' /\ ~<<Flush(p)>>_analyticsVars
                   \/ Here(Waiting(p))' \/ Sinks(v, n)'
           /\ Here(Waiting(p))
                => \/ Here(Waiting(p))' /\ ~<<Flush(p)>>_analyticsVars
                   \/ Here(Popping(p))' \/ Sinks(v, n)'
           /\ Here(Popping(p))
                => \/ Here(Popping(p))' /\ ~<<Flush(p)>>_analyticsVars
                   \/ Sinks(v, n)'
  <2>1. ASSUME AnalyticsTypeOK, AnalyticsTypeOK', FlushHolds, [AnalyticsNext]_analyticsVars, Flush(p)
        PROVE  /\ Here(Inserting(p)) => Here(Spent(p))' \/ Here(Popping(p))' \/ Sinks(v, n)'
               /\ Here(Spent(p)) => Here(Waiting(p))' \/ Sinks(v, n)'
               /\ Here(Waiting(p)) => Here(Popping(p))' \/ Sinks(v, n)'
               /\ Here(Popping(p)) => Sinks(v, n)'
    BY <2>1, RoundAdvances DEF At, FlushHolds, Inserting, Spent, Waiting, Popping, Ready
  <2>2. ASSUME AnalyticsTypeOK, AnalyticsTypeOK', [AnalyticsNext]_analyticsVars, ~Flush(p)
        PROVE  /\ Here(Inserting(p)) => Here(Inserting(p))' \/ Sinks(v, n)'
               /\ Here(Spent(p)) => Here(Spent(p))' \/ Sinks(v, n)'
               /\ Here(Waiting(p)) => Here(Waiting(p))' \/ Sinks(v, n)'
               /\ Here(Popping(p)) => Here(Popping(p))' \/ Sinks(v, n)'
    BY <2>2, RoundStays DEF At, SameRound, Inserting, Spent, Waiting, Popping, Ready
  <2> HIDE DEF Here
  <2>3. QED
    BY <2>1, <2>2
<1>4. AnalyticsFairness => KeepsFlushing(p)
  BY DEF AnalyticsFairness
<1> HIDE DEF Here
<1>5. QED
  BY <1>1, <1>2, <1>3, <1>4, PTL DEF Going, KeepsFlushing, SinksFrom

SinksSoon(v, n, p) == InBuffer(v) /\ Backlog <= n + 1 /\ goroutine[p] # "hung" => <>Sinks(v, n)

Empties(v, n) == InBuffer(v) /\ Backlog <= n ~> Stuck(v)

LEMMA EmptyBacklog ==
  ASSUME IsFiniteSet(Process), NEW v \in View
  PROVE  Going => Empties(v, 0)
<1>1. AnalyticsTypeOK => ~(InBuffer(v) /\ Backlog <= 0)
  <2> SUFFICES ASSUME AnalyticsTypeOK, InBuffer(v) PROVE Backlog > 0
    BY BacklogParts
  <2>1. Len(buffer) > 0
    BY BacklogParts DEF InBuffer, Listed
  <2>2. QED
    BY <2>1, BacklogParts DEF Backlog
<1>2. QED
  BY <1>1, PTL DEF Going, Empties

LEMMA LargerEmpties ==
  ASSUME IsFiniteSet(Process), NEW v \in View, NEW n \in Nat
  PROVE  Going => (Empties(v, n) => Empties(v, n + 1))
<1>1. ASSUME NEW p \in Process
      PROVE  Going => SinksSoon(v, n, p)
  <2>1. Going => SinksFrom(v, n, p)
    BY EachFlushSinks
  <2>2. QED
    BY <2>1, PTL DEF SinksFrom, SinksSoon
<1>2. Going => \A p \in Process : SinksSoon(v, n, p)
  BY <1>1
<1>3. (\A p \in Process : SinksSoon(v, n, p))
        => (InBuffer(v) /\ Backlog <= n + 1 => Stuck(v) \/ <>Sinks(v, n))
  BY DEF SinksSoon, Stuck
<1>4. Sinks(v, n) => Stuck(v) \/ (InBuffer(v) /\ Backlog <= n)
  BY DEF Sinks, Stuck
<1>5. QED
  BY <1>2, <1>3, <1>4, PTL DEF Going, Empties

EmptiesSoon(v, n) == InBuffer(v) /\ Backlog <= n => <>Stuck(v)

\* Induction over the natural numbers, for the formula Empties(v, _).  It holds
\* of every behaviour; it is a hypothesis because Empties is a temporal formula.
Induction(v) ==
  Empties(v, 0) /\ (\A n \in Nat : Empties(v, n) => Empties(v, n + 1)) => \A n \in Nat : Empties(v, n)

\* A buffered event is popped, unless every goroutine hangs: no push, failed
\* call or restart makes the backlog larger, for any number of processes and
\* events.  Fairness says at every moment what it says at the start.
THEOREM EventsAreFlushedAlways ==
  ASSUME IsFiniteSet(Process)
  PROVE  AnalyticsSpec /\ []AnalyticsFairness /\ []FlushesGoOn /\ (\A v \in View : []Induction(v))
           => EventsAreFlushed
<1>1. AnalyticsSpec /\ []AnalyticsFairness /\ []FlushesGoOn => Going
  BY AnalyticsTypeCorrect, FlushHoldsInduction, PTL DEF AnalyticsSpec, Going
<1>2. ASSUME NEW v \in View
      PROVE  Going /\ []Induction(v)
               => (InBuffer(v) ~> ~InBuffer(v) \/ \A p \in Process : goroutine[p] = "hung")
  <2>1. Going => Empties(v, 0) /\ \A n \in Nat : Empties(v, n) => Empties(v, n + 1)
    BY EmptyBacklog, LargerEmpties
  <2>2. Going /\ Induction(v) => \A n \in Nat : Empties(v, n)
    BY <2>1 DEF Induction
  <2>3. ASSUME NEW n \in Nat
        PROVE  Empties(v, n) => EmptiesSoon(v, n)
    BY PTL DEF Empties, EmptiesSoon
  <2>4. Going /\ Induction(v) => \A n \in Nat : EmptiesSoon(v, n)
    BY <2>2, <2>3
  <2>5. AnalyticsTypeOK /\ InBuffer(v) /\ (\A n \in Nat : EmptiesSoon(v, n)) => <>Stuck(v)
    <3>1. AnalyticsTypeOK => \E n \in Nat : Backlog <= n
      BY BacklogParts
    <3>2. QED
      BY <3>1 DEF EmptiesSoon
  <2>6. QED
    BY <2>4, <2>5, PTL DEF Going, Stuck
<1>3. QED
  BY <1>1, <1>2 DEF EventsAreFlushed

-------------------------------------------------------------------------------
\* Every behaviour of the composition is one of each module: so what is proved
\* of the modules above holds of every behaviour of the run.
THEOREM ServerProcessComposes ==
  MCInit /\ [][MCNext]_All => Spec /\ AnalyticsSpec /\ MigratorSpec
<1>1. MCInit => Init /\ AnalyticsInit /\ MigratorInit
  BY DEF MCInit
<1>2. [MCNext]_All => [Next]_vars /\ [AnalyticsNext]_analyticsVars /\ [MigratorNext]_migratorVars
  BY DEF MCNext, All, Delivers, Flushes, Migrates
<1>3. QED
  BY <1>1, <1>2, PTL DEF Spec, AnalyticsSpec, MigratorSpec
===============================================================================
