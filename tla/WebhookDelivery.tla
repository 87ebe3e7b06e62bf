---------------------------- MODULE WebhookDelivery ----------------------------
(***************************************************************************)
(* Delivery of the lead webhooks of one account: the rows of               *)
(* lead_webhook_events, the account's row of lead_webhook_configs, and the *)
(* background goroutine of every server process, which fetches a batch of  *)
(* due rows without locking them and works through its snapshot with one   *)
(* autocommit statement per change.                                        *)
(***************************************************************************)
EXTENDS Naturals, FiniteSets

CONSTANTS Event,        \* events, numbered in the order of created_at
          Worker,       \* server processes: one background goroutine each
          MaxAttempts,  \* lead_webhook_events.max_attempts
          BatchLimit,   \* LIMIT of the query that fetches a batch
          MaxMishaps,   \* bound: crashes, failed writes and padded URLs
          MaxRetries    \* bound: manual retries

ASSUME ConstantsAssumption ==
  /\ Event \subseteq Nat
  /\ MaxAttempts \in Nat \ {0}
  /\ BatchLimit \in Nat \ {0}
  /\ MaxMishaps \in Nat
  /\ MaxRetries \in Nat

VARIABLES
  status,      \* event -> "none" (no row yet) or lead_webhook_events.status
  attempts,    \* event -> lead_webhook_events.attempts
  due,         \* event -> next_attempt_at <= CURRENT_TIMESTAMP
  lastError,   \* event -> what last_error tells
  received,    \* event -> the endpoint has received it at least once
  url, active, \* the account's lead_webhook_configs row
  enterprise,  \* whether the account's plan is enterprise
  pc,          \* worker -> where its goroutine is
  batch,       \* worker -> the fetched rows it has not started on
  row,         \* worker -> the row it is delivering
  mishaps, retries

events  == <<status, attempts, due, lastError, received>>
account == <<url, active, enterprise>>
workers == <<pc, batch, row>>
vars    == <<events, account, workers, mishaps, retries>>

Status == {"none", "pending", "processing", "retrying", "delivered", "dead"}
Row    == [event : Event, attempts : Nat, url : {"plain", "padded"}]
NoRow  == [event |-> 0, attempts |-> 0, url |-> "none"]

TypeOK ==
  /\ status \in [Event -> Status]
  /\ attempts \in [Event -> Nat]
  /\ due \in [Event -> BOOLEAN]
  /\ lastError \in [Event -> {"none", "blocked", "failed"}]
  /\ received \in [Event -> BOOLEAN]
  /\ url \in {"none", "plain", "padded"}
  /\ active \in BOOLEAN
  /\ enterprise \in BOOLEAN
  /\ pc \in [Worker -> {"idle", "posting", "succeeded", "failed", "hung"}]
  /\ batch \in [Worker -> SUBSET Row]
  /\ row \in [Worker -> Row \cup {NoRow}]
  /\ \A w \in Worker : pc[w] # "idle" => row[w] \in Row
  /\ active => url # "none"
  /\ mishaps \in 0..MaxMishaps
  /\ retries \in 0..MaxRetries

Init ==
  /\ status = [e \in Event |-> "none"]
  /\ attempts = [e \in Event |-> 0]
  /\ due = [e \in Event |-> TRUE]
  /\ lastError = [e \in Event |-> "none"]
  /\ received = [e \in Event |-> FALSE]
  /\ url = "none"
  /\ active = FALSE
  /\ enterprise \in BOOLEAN
  /\ pc = [w \in Worker |-> "idle"]
  /\ batch = [w \in Worker |-> {}]
  /\ row = [w \in Worker |-> NoRow]
  /\ mishaps = 0
  /\ retries = 0

Mishap == mishaps < MaxMishaps /\ mishaps' = mishaps + 1

(***************************************************************************)
(* The account.                                                            *)
(***************************************************************************)

\* A super admin moves the account to or from the enterprise plan.
AdminSetPlan ==
  /\ enterprise' = ~enterprise
  /\ UNCHANGED <<events, url, active, workers, mishaps, retries>>

\* Saves the endpoint.  The URL is validated with its surrounding space
\* trimmed and stored untrimmed: a padded URL passes here.
UpsertLeadWebhook(u, a) ==
  /\ enterprise
  /\ url' = u
  /\ active' = a
  /\ IF u = "padded" THEN Mishap ELSE UNCHANGED mishaps
  /\ UNCHANGED <<events, enterprise, workers, retries>>

\* Mutant of QueueWebhookEvent: an event without an outcome is queued again.
QueueWebhookEventAgain(e) ==
  /\ status[e] \in {"none", "processing"}
  /\ \A f \in Event : f < e => status[f] # "none"
  /\ active
  /\ status' = [status EXCEPT ![e] = "pending"]
  /\ UNCHANGED <<attempts, due, lastError, received, account, workers, mishaps, retries>>

\* One INSERT ... SELECT: an event exists only if the endpoint is active.
QueueWebhookEvent(e) ==
  /\ status[e] = "none"
  /\ \A f \in Event : f < e => status[f] # "none"
  /\ active
  /\ status' = [status EXCEPT ![e] = "pending"]
  /\ UNCHANGED <<attempts, due, lastError, received, account, workers, mishaps, retries>>

\* A visitor leaves their contact: queued whatever the owner's plan.
PublicContact(e) == QueueWebhookEvent(e)

\* The owner sends a test event.
LeadWebhookTest(e) == enterprise /\ QueueWebhookEvent(e)

\* The owner retries an event by hand, whatever its status.
RetryWebhookEvent(e) ==
  /\ enterprise
  /\ status[e] # "none"
  /\ retries < MaxRetries
  /\ retries' = retries + 1
  /\ status' = [status EXCEPT ![e] = "pending"]
  /\ attempts' = [attempts EXCEPT ![e] = 0]
  /\ due' = [due EXCEPT ![e] = TRUE]
  /\ lastError' = [lastError EXCEPT ![e] = "none"]
  /\ UNCHANGED <<received, account, workers, mishaps>>

(***************************************************************************)
(* The background goroutine of a server process.                           *)
(***************************************************************************)

\* Mutants of Selectable: delivered rows too, and rows that wait for a retry
\* never.
SelectableDelivered ==
  {e \in Event : status[e] \in {"pending", "retrying", "delivered"} /\ due[e] /\ active}

SelectablePending ==
  {e \in Event : status[e] = "pending" /\ due[e] /\ active}

Selectable ==
  {e \in Event : status[e] \in {"pending", "retrying"} /\ due[e] /\ active}

Oldest(S) == {e \in S : Cardinality({f \in S : f < e}) < BatchLimit}

\* The batch is a snapshot: attempts and URL as they are now.
Fetch(w) ==
  /\ pc[w] = "idle"
  /\ batch[w] = {}
  /\ Selectable # {}
  /\ batch' = [batch EXCEPT ![w] =
       {[event |-> e, attempts |-> attempts[e], url |-> url] : e \in Oldest(Selectable)}]
  /\ UNCHANGED <<events, account, pc, row, mishaps, retries>>

\* The goroutine takes the rows of its batch in the order of created_at.
TakeRow(w, r) ==
  /\ pc[w] = "idle"
  /\ r \in batch[w]
  /\ \A q \in batch[w] : r.event <= q.event
  /\ batch' = [batch EXCEPT ![w] = @ \ {r}]

\* The target no longer validates (its name does not resolve, or resolves
\* to a blocked network): the event dies at once.
BlockTarget(w, r) ==
  /\ TakeRow(w, r)
  /\ \/ /\ status' = [status EXCEPT ![r.event] = "dead"]
        /\ lastError' = [lastError EXCEPT ![r.event] = "blocked"]
        /\ UNCHANGED mishaps
     \/ Mishap /\ UNCHANGED <<status, lastError>>
  /\ UNCHANGED <<attempts, due, received, account, pc, row, retries>>

\* The row is marked; when the write fails the code goes on all the same.
\* No request can be built for a padded URL: the row is left as it is.
MarkProcessing(w, r) ==
  /\ TakeRow(w, r)
  /\ \/ /\ status' = [status EXCEPT ![r.event] = "processing"]
        /\ attempts' = [attempts EXCEPT ![r.event] = @ + 1]
        /\ UNCHANGED mishaps
     \/ Mishap /\ UNCHANGED <<status, attempts>>
  /\ IF r.url = "plain"
       THEN /\ pc' = [pc EXCEPT ![w] = "posting"]
            /\ row' = [row EXCEPT ![w] = r]
       ELSE UNCHANGED <<pc, row>>
  /\ UNCHANGED <<due, lastError, received, account, retries>>

\* The request, under a client without a timeout: answered with 2xx, failed
\* (whether or not the endpoint got it), or never answered.
Post(w) ==
  /\ pc[w] = "posting"
  /\ \E answer \in {"succeeded", "failed", "hung"}, arrived \in BOOLEAN :
       /\ answer = "succeeded" => arrived
       /\ pc' = [pc EXCEPT ![w] = answer]
       /\ received' = [received EXCEPT ![row[w].event] = @ \/ arrived]
  /\ UNCHANGED <<status, attempts, due, lastError, account, batch, row, mishaps, retries>>

RowDone(w) ==
  /\ pc' = [pc EXCEPT ![w] = "idle"]
  /\ row' = [row EXCEPT ![w] = NoRow]
  /\ UNCHANGED batch

\* Mutant of RecordDelivered: any answer at all counts as a delivery.
RecordAnyAnswer(w) ==
  /\ pc[w] \in {"succeeded", "failed"}
  /\ RowDone(w)
  /\ status' = [status EXCEPT ![row[w].event] = "delivered"]
  /\ lastError' = [lastError EXCEPT ![row[w].event] = "none"]
  /\ UNCHANGED <<attempts, due, received, account, mishaps, retries>>

RecordDelivered(w) ==
  /\ pc[w] = "succeeded"
  /\ RowDone(w)
  /\ \/ /\ status' = [status EXCEPT ![row[w].event] = "delivered"]
        /\ lastError' = [lastError EXCEPT ![row[w].event] = "none"]
        /\ UNCHANGED mishaps
     \/ Mishap /\ UNCHANGED <<status, lastError>>
  /\ UNCHANGED <<attempts, due, received, account, retries>>

\* Mutants of Exhausted: one attempt too few, one too many.
ExhaustedEarly(r) == r.attempts + 2 >= MaxAttempts
ExhaustedLate(r)  == r.attempts >= MaxAttempts

\* The attempts are counted on the snapshot, not on the row.
Exhausted(r) == r.attempts + 1 >= MaxAttempts

FailureStatus(r) == IF Exhausted(r) THEN "dead" ELSE "retrying"

\* Mutant of RecordFailure: the failure is logged and not written.
RecordFailureLogged(w) ==
  /\ pc[w] = "failed"
  /\ RowDone(w)
  /\ UNCHANGED <<events, account, mishaps, retries>>

\* The delay pushes next_attempt_at into the future unless the event is dead.
RecordFailure(w) ==
  /\ pc[w] = "failed"
  /\ RowDone(w)
  /\ \/ LET e == row[w].event
           s == FailureStatus(row[w])
       IN  /\ status' = [status EXCEPT ![e] = s]
           /\ lastError' = [lastError EXCEPT ![e] = "failed"]
           /\ due' = [due EXCEPT ![e] = @ /\ s = "dead"]
           /\ UNCHANGED mishaps
     \/ Mishap /\ UNCHANGED <<status, lastError, due>>
  /\ UNCHANGED <<attempts, received, account, retries>>

\* The process dies, or ends while its goroutine is at work (Run does not
\* wait for it), and starts again: nothing looks at the rows it held.
Crash(w) ==
  /\ pc[w] # "idle" \/ batch[w] # {}
  /\ Mishap
  /\ pc' = [pc EXCEPT ![w] = "idle"]
  /\ batch' = [batch EXCEPT ![w] = {}]
  /\ row' = [row EXCEPT ![w] = NoRow]
  /\ UNCHANGED <<events, account, retries>>

TimePasses(e) ==
  /\ ~due[e]
  /\ due' = [due EXCEPT ![e] = TRUE]
  /\ UNCHANGED <<status, attempts, lastError, received, account, workers, mishaps, retries>>

-------------------------------------------------------------------------------
Deliver(w) ==
  \/ Fetch(w)
  \/ \E r \in batch[w] : BlockTarget(w, r) \/ MarkProcessing(w, r)
  \/ Post(w)
  \/ RecordDelivered(w)
  \/ RecordFailure(w)

Next ==
  \/ AdminSetPlan
  \/ \E u \in {"plain", "padded"}, a \in BOOLEAN : UpsertLeadWebhook(u, a)
  \/ \E e \in Event : PublicContact(e) \/ LeadWebhookTest(e)
  \/ \E e \in Event : RetryWebhookEvent(e) \/ TimePasses(e)
  \/ \E w \in Worker : Deliver(w) \/ Crash(w)

Spec == Init /\ [][Next]_vars

\* The ticker of StartBackgroundWorkers keeps every goroutine going and time
\* passes.  Nobody has to queue, retry or configure anything, or to crash.
KeepsDelivering(w) == WF_vars(Deliver(w))
KeepsTime(e)       == WF_vars(TimePasses(e))

Fairness ==
  /\ \A w \in Worker : KeepsDelivering(w)
  /\ \A e \in Event : KeepsTime(e)

FairSpec == Spec /\ Fairness

-------------------------------------------------------------------------------
Holds(w, e)  == pc[w] # "idle" /\ row[w].event = e
InBatch(w, e) == \E r \in batch[w] : r.event = e

\* Marked, and no goroutine is at work on it any more.
Orphan(e) == status[e] = "processing" /\ \A w \in Worker : ~Holds(w, e)

\* A row reads "delivered" only if the endpoint has received the event, over
\* any interleaving of goroutines that hold the same row, late answers, failed
\* writes and manual retries (processPendingWebhookEvents).
DeliveredWasReceived ==
  \A e \in Event : status[e] = "delivered" => received[e]

\* An event is stranded in "processing" only after a crash, a failed write or
\* a padded URL: goroutines that hold the same row never strand each other's.
OrphansComeFromMishaps ==
  (\E e \in Event : Orphan(e)) => mishaps > 0

\* Without manual retries an event that dies of failures has had its
\* max_attempts attempts, except for those whose marking could not be written,
\* however old the snapshots are on which the goroutines count.
NoEarlyDeath ==
  retries = 0 =>
    \A e \in Event :
      status[e] = "dead" /\ lastError[e] = "failed" => attempts[e] + mishaps >= MaxAttempts

\* Nothing but a manual retry releases a stranded event that no batch holds:
\* the code has no recovery of rows in "processing", at start-up or later.
OrphanNeedsRetry ==
  [][\A e \in Event :
       Orphan(e) /\ (\A w \in Worker : ~InBatch(w, e))
         => Orphan(e)' \/ RetryWebhookEvent(e)]_vars

\* With a single server process the attempts of an event never pass
\* max_attempts, manual retries during a delivery included.
BudgetKept ==
  (\A w, v \in Worker : w = v) => \A e \in Event : attempts[e] <= MaxAttempts

\* With a single server process a delivered event stays delivered, and is not
\* marked again, until the owner retries it.
DeliveredStays ==
  [][(\A w, v \in Worker : w = v) =>
       \A e \in Event :
         status[e] = "delivered" => status'[e] = "delivered" \/ RetryWebhookEvent(e)]_vars

Settled(e) ==
  \/ status[e] \in {"delivered", "dead"}
  \/ Orphan(e)
  \/ \A w \in Worker : pc[w] = "hung"

\* While the endpoint stays active, a queued event is in the end delivered,
\* dead, stranded or behind goroutines that all wait for an answer for ever.
Settles ==
  \A e \in Event :
    <>[]active => (status[e] \in {"pending", "retrying"} ~> Settled(e))

-------------------------------------------------------------------------------
(***************************************************************************)
(* The strengthenings that make the properties above inductive; they are   *)
(* used by module ServerProcess_proofs.                                    *)
(***************************************************************************)
Busy(w) == pc[w] # "idle"

\* Goroutines hold rows of queued events only, and a 2xx is a receipt.
RowsAreQueued ==
  \A w \in Worker :
    /\ \A r \in batch[w] : status[r.event] # "none"
    /\ Busy(w) => status[row[w].event] # "none"
    /\ pc[w] = "succeeded" => received[row[w].event]

\* Before the first mishap no URL is padded and every marked row is held.
MarkedIsHeld ==
  mishaps = 0 =>
    /\ url # "padded"
    /\ \A w \in Worker : \A r \in batch[w] : r.url = "plain"
    /\ \A e \in Event : ~Orphan(e)

\* Before the first manual retry no goroutine counts beyond the row.
SnapshotsLag ==
  retries = 0 =>
    \A w \in Worker :
      /\ \A r \in batch[w] : r.attempts <= attempts[r.event]
      /\ Busy(w) => row[w].attempts + 1 <= attempts[row[w].event] + mishaps

\* What the goroutine of the only process knows of the rows.
SnapshotsLead ==
  (\A w, v \in Worker : w = v) =>
    /\ \A e \in Event : attempts[e] <= MaxAttempts
    /\ \A e \in Event : status[e] = "none" => attempts[e] = 0
    /\ \A e \in Event : status[e] \in {"pending", "retrying"} => attempts[e] < MaxAttempts
    /\ \A w \in Worker : \A r \in batch[w] :
         /\ attempts[r.event] <= r.attempts
         /\ r.attempts < MaxAttempts
         /\ status[r.event] # "delivered"
         /\ \A q \in batch[w] : q.event = r.event => q = r
         /\ Busy(w) => row[w].event # r.event
    /\ \A w \in Worker : Busy(w) =>
         /\ attempts[row[w].event] <= row[w].attempts + 1
         /\ row[w].attempts < MaxAttempts
         /\ status[row[w].event] # "delivered"

\* What the goroutine of the only process holds has no outcome yet.
HeldIsOpen ==
  (\A w, v \in Worker : w = v) =>
    \A w \in Worker :
      /\ \A r \in batch[w] : status[r.event] \in {"pending", "retrying"}
      /\ Busy(w) => status[row[w].event] \in {"pending", "retrying", "processing"}

\* A goroutine that does not hang has a step to take while it holds a row or
\* finds one, and time passes for a row that waits.
DeliveriesGoOn ==
  /\ \A w \in Worker :
       /\ pc[w] \in {"posting", "succeeded", "failed"} => ENABLED <<Deliver(w)>>_vars
       /\ pc[w] = "idle" /\ (batch[w] # {} \/ Selectable # {}) => ENABLED <<Deliver(w)>>_vars
  /\ \A e \in Event : ~due[e] => ENABLED <<TimePasses(e)>>_vars

-------------------------------------------------------------------------------
\* The promise of module WebhookPromise, read off the rows.
obligation ==
  [e \in Event |->
     CASE status[e] = "none"      -> "none"
       [] status[e] = "delivered" -> "kept"
       [] status[e] = "dead"      -> "givenUp"
       [] OTHER                   -> "owed"]

Promise == INSTANCE WebhookPromise
             WITH Event <- Event, obligation <- obligation, received <- received

\* The rows keep the promise that WebhookPromise states.
KeepsPromise == Promise!Spec
===============================================================================
