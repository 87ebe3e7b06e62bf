# Verification of konvoq-backend

TLA+ specifications of the parts of konvoq-backend whose correctness depends on
the order of events: rows that several requests, background goroutines and
server processes read and write with separate statements, jobs that outlive the
request that started them, and answers that may be lost. The modules are
checked with TLC on small instances, and what matters most is proved with TLAPS
for every value of the constants. `PROJECT.json` holds the index: components,
runs, the mutants that show each property can fail, the source lines of every
definition, the hazards and the theorems.

## 1. The system

konvoq-backend is one Go process (usually several copies behind a balancer)
over PostgreSQL and Redis; Pinecone, OpenAI, Google, SMTP and the endpoints of
customers are external. Requests are served concurrently, each handler in its
own goroutine. Most handlers are a sequence of autocommit statements on
`c.db`; a few open a transaction, READ COMMITTED and without `FOR UPDATE`.
Every authenticated route goes through `WithAuth` (`middleware/auth.go`), which
authenticates with one statement before the handler acts with others.

| component | state it keeps | operations | interacts with | what is hard |
|---|---|---|---|---|
| lead webhooks | `lead_webhook_configs`, `lead_webhook_events` | save endpoint, queue event, deliver batch, retry by hand | public contact form (queues), background goroutine, the customer's endpoint | no row locks, several processes, crash while processing, no client timeout |
| login codes | `verification_codes`, `users.is_verified` | request, verify, Google login, cleanup | opens user sessions, sends email | transactions that overlap without locks |
| user sessions | `sessions`, cookies of the browsers | login, refresh, logout, revoke, maintenance | every authenticated route | look-up and update are separate, answers lost or out of order |
| website scraping | `scraper_sources`, `scrape_jobs`, vectors | start job, crawl, index, delete | vector index, plan limits | goroutines without recovery, quota checked early, deletes that race with jobs |
| documents | `documents`, vectors | upload, upload many, delete | vector index, plan limits | count-then-insert, indexing after deletion |
| chat and usage | `chat_conversations`, `chat_messages`, `users.conversations_used` | chat, widget stream, clear | RAG answer, plan limits | usage charged before the answer, partial failures |
| widget configuration cache | `widget_keys`, Redis copy | read, create, update, regenerate, delete | public widget | stale fill after an invalidation |
| leads and follow-ups | `leads` | contact, follow-up email, deletion | webhooks, email | check, send, record |
| plan checks | `users.plan_type` | authenticate, edit, change of plan | every page of a paid feature | the plan is read before the handler acts |
| handoff inbox | `handoff_requests`, `handoff_messages` | request, list, claim, reply, resolve | agents of one account | lists that are out of date, answers that do not say whether a row changed |
| conversation flows | `conversation_flows` | create, update, activate, delete | widget | one active flow, two statements |
| widget settings | `widget_keys.widget_config` | read, replace, merge a part | the widget's, persona, navigation and branding pages, the cache | one page replaces what the others merge |
| analytics buffer | Redis list, `widget_analytics` | push, flush, clean up | public widget, background goroutine, deletion of widgets | pop before insert, several processes, the goroutine hangs in a webhook |
| migrations | `schema_migrations`, advisory lock | run pending files | start of a server, the migrate command | the lock belongs to a connection that may break |
| browser widget | session and message list in the page | send, stream, rate, contact | public API | overlapping sends, chunk boundaries |

Not components with a protocol of their own: CSRF tokens, admin accounts, brand
extraction, feedback and ratings, routing, configuration, logging, health checks (see
`PROJECT.json`, status `not_modelled`, for the reason of each).

What makes each component correct, in short: an event or job that was accepted
is finished or visibly given up; what a row reports has happened; a limit holds
up to the number of requests served at once; a decision taken on stale data does
no lasting harm; what was revoked or deleted stays so. `PROJECT.json` lists the
hazards, each at its line with the properties that cover it.

## 2. Plan

| order | module | contents | status |
|---|---|---|---|
| 1 | `WebhookPromise`, `WebhookDelivery` | the event table and its workers, with an abstract promise | checked and proved |
| 2 | `LoginCodes` | verification codes and logins | checked and proved |
| 3 | `UserSessions` | sessions, cookies, refresh, revocation | checked and proved |
| 4 | `ScrapeJobs` | sources, page quota, jobs, vectors | checked and proved |
| 5 | `Documents` | document limit, indexing goroutines | checked and proved |
| 6 | `ChatUsage` | conversation counter, messages, clearing | checked and proved |
| 7 | `WidgetCache` | Redis copy against the table | checked and proved |
| 8 | `LeadFollowUp` | leads, follow-up emails | checked and proved |
| 9 | `PlanChecks`, `Flows`, `WidgetSettings`, `HandoffInbox` | the other tables behind the pages of the dashboard | checked and proved |
| 10 | `MigrationOrder`, `Migrator` | the start of a server, with the abstract order of the files | checked and proved |
| 11 | `AnalyticsBuffer` | the Redis list and its flush | checked and proved |
| 12 | `MCDashboard`, `MCServerProcess` | the modules of the dashboard, and those of a server process, in one run each | checked; the composition proved |
| 13 | pure algorithms | `chunkText`, `splitAnswerChunks`, the event-stream parser, the domain check | left out, see section 6 |

Two abstract specifications are stated and implemented by refinement:
`WebhookPromise`, what an integrator may rely on, and `MigrationOrder`, what the
schema may rely on. The bounds of `LoginCodes`, `ScrapeJobs`, `Documents`,
`ChatUsage`, `LeadFollowUp`, `PlanChecks` and `Flows` are of one kind, a limit
that holds up to the requests served at once, and are proved one by one; one
abstract specification of such a budget, refined by each of them, is what is left
of the plan, with the general form of `Settles` for several processes.

## 3. Modules

Every module declares its parameters as constants with named assumptions, has
one action per operation, and is written without recursion so that it can be
proved about. `MC<module>` instantiates it for TLC; `<module>_proofs` holds its
theorems. `MCDashboard` (with `Dashboard_proofs`) and `MCServerProcess` (with
`ServerProcess_proofs`) do so for several modules that share no variable: a
behaviour of theirs is one of one module, chosen at the start by `subject`,
while the others stay as they are. Since no action of one module reads or writes
a variable of another, nothing is lost by not interleaving them; and
`DashboardComposes` and `ServerProcessComposes` prove that each behaviour of the
composition is one of every module, so what is proved of the modules holds in
the runs. Definitions introduced by a comment "Mutant of ..." are plausible bugs
of the definition that follows; no specification uses them.

### WebhookPromise and WebhookDelivery

`WebhookPromise` is what an integrator may rely on: a queued event is never
forgotten, nothing is received that was not queued, and an event counts as kept
only after it was received.

`WebhookDelivery` models one account. `status`, `attempts`, `due`
(`next_attempt_at` has come) and `lastError` are columns of
`lead_webhook_events`; `url`, `active` the row of `lead_webhook_configs`;
`enterprise` the plan; `received` is history. A worker is the background
goroutine of a server process: `Fetch` is the unlocked SELECT, whose result
`batch` is a snapshot; `MarkProcessing`, `Post`, `RecordDelivered` and
`RecordFailure` are the statements of `processPendingWebhookEvents`, each of
which may fail to be written while the code goes on; `Crash` ends a process.
Attempts are counted on the snapshot, as in the code. The order of `created_at`
is the order of the event numbers. Payload, signature, response status and the
length of the delay are left out; time is one bit per event.

### LoginCodes

One account. `code[c]` is a row of `verification_codes`; numbers are in the
order of `created_at`, which PostgreSQL fixes when a transaction begins, so a
smaller number may be committed later. A handler's transaction is the step that
reads what it decides on (`RequestCodeCount`, `RequestCodeMark`,
`VerifyCodeFind`, `VerifyGoogleFind`) and the step that commits its writes; its
writes are invisible before. Row locks are left out: the writes that meet on a
row (use it up, count a miss) commute, so waiting for a lock changes only the
order in which they commit. `Rollback` is any failure on the way, a client that
goes away included, since the transaction runs under the request's context. The
text of a code is abstracted to whether the guess is right. `age` separates the
times the code compares with: `expires_at`, one hour, one day. The widget key and the profile
prompt that a login also writes are left out.

### UserSessions

One account. `state` and `age` are the row of `sessions`: the token pair whose
hashes it holds is known by session and age, because `createToken` signs the
same text for the same session in the same second. `cookie` is what each browser
holds. A handler looks the session up (`RefreshTokenFind`, `AuthenticateUser`)
and acts with a later statement; the `Set-Cookie` headers reach the browser later
still (`SetAuthCookies`, `ClearAuthCookies`) or never (`LoseAnswer`). An UPDATE
of a refresh that is committed while the database's own answer is lost ends in an
error for the browser, and is `RefreshTokenStore` followed by `LoseAnswer`. `Tick`
ages every token, saturating just past the refresh lifetime, so time is
unbounded and the state space finite. `raced` is history: two requests have
refreshed one session at once.

### ScrapeJobs

One account. `rows` holds the sources present in `scraper_sources`, `pages` their
`scraped_pages`; `status` is that of the rows of `scrape_jobs`; `vectors` is what the vector index holds
(a page stands for all its chunks, whose identifiers are derived from its
address, so indexing a page twice replaces it). A job is a goroutine started by
`Scrape`; job numbers are slots and are used again once the goroutine has
returned. `ReadUsage` and `ReadOwnPages` are the two reads of the quota that
`Scrape` makes one after the other, `Acquire` takes a place in `scrapeSem`,
`CrawlWebsite` produces the pages, `CleanSource` and `CleanURL` delete the old
vectors, `Upsert` puts the pages that were found, or those of them that could be embedded, in the index, `CountPages` and `Finish` write
the outcome, and each step has the failure that the code handles beside it.
`DeleteSource`, `DeleteSourceURL`, `DeleteAllSources` and `DeleteRows` are the
deletions, vectors before rows as in the code. Status writes nobody decides on are merged with the step beside them;
branches no call can reach (`maxPages <= 0` after the caller's check, a page
without chunks) are left out. An index call that fails has had its effect, or
not, before its caller goes on. `Crash` drops every goroutine.
The limit of pages is fixed: changes of plan are left out.
`overlapped` and `unsettled` are history: jobs that counted the quota while
another was under way, and jobs that ended without their last statement.

### WidgetCache

One account. `row` is the key of its row in `widget_keys`, `content` the number
of the change that gave the row its present content; `copy[k]` is what Redis
holds under `widget:k`, by the same number, and `age` how long it has been
there. A visitor is a request of `PublicWidgetConfig`: `LookUp` finds no copy (a
request that finds one answers with it and changes nothing), `ReadRow` reads the
row, `FillCopy` sets the copy, which the code does under a context that ends two
seconds after the request began (`waited`, `InTime`); the query between is under
no such limit. An editor is a request of the dashboard: `Save` is the statement
of the handlers for settings, persona, branding and navigation, followed by
`Invalidate`, which deletes the copy or fails and is ignored.
`RegenerateWidgetRead` and `RegenerateWidget` are the two statements that replace
a key, with one deletion for each of the two keys. `DeleteWidget` deletes the
row and no copy. `EnsureWidget` is the part of a login that `LoginCodes` leaves
out. A process that ends before a deletion is a deletion that failed. What the
configuration says, the domain check, the plan checks of the feature pages and
`usage_count` are left out. Redis is assumed to apply a command when it is
sent, or not at all; this is an assumption, since the client does not recall what
is on its way when the context of its caller ends. A SET that the client sends
again after a lost reply is that of another visitor with the same steps at the
same times, which the theorems cover for any number of visitors; a repeated DEL
removes copies only.
`behind` (how long ago the row left a content) and `exposed` (the keys for which
a race or a failure keeps a copy) are history.

### Documents

One account; a file is known by the id its row gets. `rows` are the rows of
`documents`, `indexing` the documents whose goroutine has not returned,
`vectors` those that the index holds. A request of `UploadDocument` or
`UploadMultipleDocuments` counts and decides (`CountDocuments`), then stores one
file after another (`StoreFile`, or `SkipFile` when the form or the insert
fails); the single upload is a form of one file, for which `>= limit` and
`+ 1 > limit` agree. A stored file whose content cannot be read gets a row and
no goroutine. `Index` and `IndexFails` end a goroutine, with the index call
having had its effect or not when it fails. `Sweep` is the removal of vectors
with which both deletions begin, followed by the clean-up of old vectors under a
URL (`DeleteDocumentURL`) or by the deletion of the sources
(`DeleteSourceRows`), and by the rows last. `DeleteDocument` takes any id that
was ever given, so two requests may delete one document. `Crash` ends requests
and goroutines. `docSem` is left out: it decides which goroutine goes first and
nothing waits for another while it holds a place. A configured index, the size
of files and changes of plan are left out too. `raced` and `lost` are history:
documents whose deletion met their indexing, and rows that a failure or a crash
keeps from the index.

The comparison with `Limit` is the code's, so `Limit = 0` refuses everything,
while `plan_limits.go` says that 0 means unlimited and the enterprise plan
leaves `Documents` at 0: the run `documents_unlimited` shows the disagreement.

### ChatUsage

One account. `state` is whether a row of `chat_conversations` exists and is
deleted, `by` its `widget_key_id`; `turns` counts the pairs of rows in
`chat_messages` and `count` is `message_count`, both in pairs; `used` and `limit`
are the columns of `users`, `widget` the row of `widget_keys`. A request is one
of `Chat` (`via` is 0) or of `PublicWebhook` (`via` is the widget it looked up),
and does what their statements do in their order: the widget (`LookUpWidget`),
the conversation, which is inserted or updated on conflict (`Open`), the charge,
which only `Chat` makes (`Charge`, `RefuseCharge`), the two messages
(`InsertTurn`, or `InsertNothing` when the conversation is no longer writable),
the count and the answer (`CountTurn`). A failed statement of the last two is
only logged and the request goes on (`InsertFails`, `CountFails`); it may have
taken effect. Each statement is atomic; in particular `InsertTurn` is an `INSERT
... SELECT` whose snapshot sees the conversation as it is when it takes effect,
so the moment in which a concurrent clear commits between that snapshot and the
insert is left out. A statement that fails in `Open` ends the request, which leaves at most
an empty conversation, and is left out. `DeleteWidget` sets `widget_key_id` of its conversations to NULL, by
the foreign key; a later widget may adopt them. The answer's text and its
streaming are left out, as are identifiers of other accounts' conversations: no
statement touches a row whose `user_id` differs. `answered`, `allowed` and `disturbed` are
history.

Visitors' messages are not charged and not refused, while `plan_limits.go`
speaks of the maximum of messages and the browser widget has a text for a reached limit:
the run `chat_visitors` shows the disagreement. Two more are visible without a
run: accounts are created with a limit of 100, the column's default, where the
free plan has 300, and nothing but `AdminResetUsage` resets a counter that is
described as monthly.

### LeadFollowUp

One account. `row[s]` is the id of the row that `leads` holds for a session,
`stamped` the rows with `follow_up_sent_at`. `PublicContact` inserts the row or
updates it on conflict, and starts a goroutine when the form has an email; the
goroutine reads the plan (`ReadPlan`), the mark (`ReadStamp`), the owner's
email, hands the follow-up to the mailer (`SendFollowUpEmail`) and writes the
mark (`Stamp`), with the failure of each query. A failed mark that was written
all the same is as one that did not fail. `DeleteLead` removes a row, whose id
is never given again. A mailer is assumed to be configured; what happens to an
email after it was handed over is only logged by the code. The lead's own data,
its status, stage and notes are left out: no modelled step reads them. `emails`,
`forgotten` and `failed` are history.

Three things are visible in the code without a run. The goroutine sends
follow-ups for the plans basic and enterprise (`public_controller.go:510`),
while `plan_limits.go` gives them to pro and enterprise and
`follow_up_controller.go:60` answers that they require pro or above. The saved
configuration (`is_active`, the delay, the template) is read by its own page
only. `UpdateLeadPipeline` overwrites `next_follow_up_at` with NULL when the
request names no date.

### PlanChecks

The handlers of six pages begin alike: `WithAuth` has read the user, and
`limitsForPlan` of the plan in that record decides (`AuthenticateUser`, `Edit`,
`RefuseEdit`), although an admin may have changed the plan since
(`AdminSetPlanType`). The features are given to the same two plans, so that one
operator (`HasFeatures`) stands for all of them. `late` is history: edits made
since the plan stopped to allow them.

Only creation asks for the plan: `UpdateFlow`, `DeleteFlow` and the actions of
the inbox do not, so an account whose plan was lowered goes on with what it has.

### Flows

One account. `flows` are its rows in `conversation_flows`, `activeFlows` those
with `is_active`. A request that activates a flow makes two statements: the
deactivation of the others (`CreateActiveFlow`, `UpdateActiveFlow`), whose error
is thrown away, and the insert or update of its own row (`InsertFlow`,
`UpdateFlow`), which fails, or finds that the flow was deleted, after the others
were deactivated. A row id is a random UUID; here it is the next number, and
never given again. Requests without `isActive` are one statement. `UpdateFlow`
takes any id that was ever given. `ignored` and `noneActive` are history: the
deactivations that failed in a row, and whether something explains that no flow
is active.

Since the payload of an update is decoded into a boolean, a request that leaves
`isActive` out deactivates the flow.

### WidgetSettings

One account. `config` is `widget_config`, a part of it known by the number of
the save that wrote it. The persona, navigation and branding pages merge their
part with one statement (`SavePart`); the page of the widget replaces the column
with what it was shown when it was opened (`GetWidget`, `Sent`,
`UpdateSettings`), which is how the handler is used: what the dashboard sends is
external. `CreateSettings` is the upsert of a new widget. The plan checks are in
`PlanChecks`, the copies in Redis in `WidgetCache`. `saved`, `outdated` and
`undone` are history.

### HandoffInbox

One account. `handoff` is the status of each row of `handoff_requests`, `listed`
what the inbox of each agent shows: an agent acts on that list, whatever has
happened since. `ClaimHandoff` changes a row that is pending and otherwise
nothing, and is answered with success either way; `ResolveHandoff` changes any
row; `SendHandoffMessage` asks for the row and not for its status. Who claimed a
handoff and the texts are left out. The comment of `RequestHandoff` says that a
visitor's widget may call it, while its route requires the login and the CSRF
token of the dashboard.

### AnalyticsBuffer

All accounts: the list `widget:analytics:buffer` is shared by them and by all
server processes. `buffer` is that list, `hand[p]` the event that process `p` has
popped and not yet inserted, `left[p]` how many more it pops in this tick. The
list is pushed and popped at the same end (`RPush`, `RPop`).

`rediscache.Open` leaves the retries of the Redis client at their default, so the
client sends a command again when it had no answer, up to three times and without
knowing whether Redis has executed it. A push without an answer was made or not
(`RPush`) and leaves its event in `unanswered`, from where `ResendPush` sends it
once more, until an answer comes or `resent` has reached `MaxResends`: the event
is then in the list once for every push that was made, and the copies need not
come together. A client that stops before has a request or a process that ended;
the error is ignored. `PopFails` is a pop without an answer, made or not, after
which the client sends it again or the flush ends; each time is a lost call, and
how many belong to one pop is not counted. A lost call is therefore one command
that was sent, not one call of the Go code. `InsertFails` is an insert whose
error is only logged; an insert that took effect and whose answer is lost is an
insert. A command that has no answer has had its effect before its caller goes
on, or has none.

An event whose widget was deleted is refused by
the foreign key, and the pushes may come from copies in Redis that are older
than the deletion. The goroutine of a process also delivers webhooks, where it
hangs when an endpoint does not answer (`HangInWebhooks`), and runs the daily
maintenance (`CleanupWidgetAnalytics`). A queued event always names a widget and
decodes, since the same code writes it; fields are left out. `rows` counts the
rows of an event, which may expire one after the other; `gone` (no row can be
inserted any more), `expired` and `widgetDeleted` are history.

Two things are visible without a run. The push writes the fields `ip` and
`referer`, and the flush decodes `ip_address` and `referer_url`: both columns
are always NULL. And since the latest event goes first, the oldest wait as long
as more than 200 events per tick arrive.

### MigrationOrder and Migrator

`MigrationOrder` is what the files may rely on: each takes effect once, after
all files before it. `Migrator` models the starts of servers and of the migrate
command on one database. A server migrates only when `AUTO_MIGRATE` is set, which
is false by default (`config.go:270`, `application.go:57`): otherwise it serves
over the schema that it finds (`ServeUnmigrated`), complete or not. `migrates`
says which of the two a process was last started to do, and each start may do
either. `ServesComplete` is about those that migrate; nothing in the code keeps a
server that does not from serving over an incomplete schema, and there is no
check of `schema_migrations` but the one in `Run`. The repository's README says
of the server that it "runs DB migrations from `migrations/sql`", without the
condition, and `.env.example` sets it. `Run` asks for the advisory lock and gives up at once
when another has it; `Check` and `Apply` are the loop, whose transaction runs the
file and inserts its row in `schema_migrations`; `Unlock` is the deferred
statement. A session-level advisory lock belongs to the connection that asked.
The process makes one statement at a time and has no other work yet, so the pool
hands it the same connection, until that one breaks (`LoseConnection`): the next
statement gets another, and the lock is free, or held until PostgreSQL gives the
old session up (`SessionEnds`). Then another start migrates at the same time,
and the primary key of `schema_migrations` decides which transaction of a file
commits. Transactions of one file are taken to be serial: the second insert
of an id waits for the first. What a file does is left out, so a file whose own
statements cannot run twice fails earlier, in `RunFails`. `lockLosses` and `log`
are history.

## 4. Runs

| run | instance | what it shows |
|---|---|---|
| `webhook_two_instances` | 2 processes, 1 event, 3 attempts, 2 mishaps, 1 retry | both processes hold the same row in every order: rows stranded only by mishaps and released only by a retry, no early death, and the refinement of `WebhookPromise` |
| `server_process` | webhooks: 1 process, 2 events, batch limit 1, 3 attempts, 2 mishaps, 1 retry; analytics: 2 processes, 2 events, each pushed twice at most, 2 per tick, 2 lost calls; migrations: 2 servers or commands, 3 files, 3 faults | the attempt budget, that deliveries stay, and that events settle (liveness); an analytics event is stored at most as often as its push was sent, a failure loses one, all are flushed (liveness); the refinement of `MigrationOrder`, one migration at a time, no server that migrates over an incomplete schema |
| `login_codes` | 2 requests at once, 3 codes, 2 guesses | codes are reused, guessed, kept alive and welcomed at most as often as requests overlap |
| `user_sessions` | 2 requests at once, 2 browsers, 2 sessions, 1 lost answer, lifetimes 1 and 2 | revocation is final, browsers are locked out only by races and losses, abandoned sessions end (liveness) |
| `scrape_jobs` | 2 jobs at once, 2 sources that share pages, 1 deletion at once, 2 pages allowed, 1 slot, 1 mishap | the page quota is exceeded only when jobs overlap; what a source's row counts and what the index holds agree once nothing is under way and nothing was lost |
| `scrape_slots` | 2 jobs at once, 1 source, 1 slot, 2 mishaps | a queued job ends, whatever fails before it (liveness) |
| `widget_cache` | 2 visitors, 2 editors, 2 keys, 3 changes, copies live 2 ticks, timeout 1 | a copy is out of date only while its deletion is due or after a named race or failure, and never for longer than its lifetime and one timeout |
| `documents` | 2 requests, 5 documents (one without text), limit 2, forms of 1 or 2, 1 mishap | the limit is passed by at most one form; a vector without a row and a row without a vector have a named cause |
| `documents_unlimited` | the same with limit 0 | finding: a limit of 0, documented as unlimited, accepts no upload |
| `chat_usage` | 2 requests, 2 conversations, 4 messages, limit 1 or none, 2 widgets in turn, 1 mishap | charged answers keep the limit up to the requests in flight at a reset; the count of a conversation agrees with its messages; a cleared conversation is final |
| `chat_visitors` | the same | finding: visitors' messages pass the limit |
| `dashboard` | leads: 2 contacts at once, 2 sessions, 2 leads, 1 mishap; plan checks: 2 requests; flows: 2 requests, 4 flows, 1 ignored failure; settings: 2 pages, 3 saves; inbox: 2 agents, 2 handoffs | a lead is written to more than once only by overlapping goroutines and lost marks, a mark means an email, a lead with an email is followed up (liveness); a plan that was lost allows only the edits under way; active flows are bounded by the requests at once, and overlapping switches leave one; a saved part of the settings is undone only from an older page; a handoff is not reopened |

Bounds. `MaxAttempts` is 8 in the code; 3 keeps a first, a middle and a last
attempt. `BatchLimit` is 50; 1 and 2 give a batch below and above the backlog.
Mishaps, retries, lost answers and sessions are the only unbounded sources of
new behaviour and are capped by `MaxMishaps`, `MaxRetries`, `MaxLosses` and the
sets `Event`, `Code` and `Session`. `MaxVerifyAttempts` is 5; 2 separates the
first wrong guess from the last. Three codes are one more than the requests at
once, so a third unused code would show. `scrapeSem` has 5 places; 1 makes two
jobs queue. A limit of 2 pages is less than the three pages of the first source
and equal to what two jobs of one page use. The rate limit of three needs three
requests at once and is therefore only a guard here. Two keys are the one that is
replaced and the one that replaces it; three changes are a row, its change and
the change that overtakes it. Copies live ten minutes and the timeout is two
seconds; 2 and 1 ticks keep the order of the two and let a request outwait its
timeout. Five documents are one more than the limit, 2, and one
form of two allow; the fifth has no text, so four have vectors. Four messages are the two
that may be in flight at a reset, the one a limit of 1 allows and one too many; a
second widget is needed to adopt the conversations of the first. Two leads are
those of two sessions, or of one whose first was deleted. Four flows are the
three that two requests and an ignored failure may leave active and one too many; three saves a part, its change and
the save of another. `MaxResends` is 3; with 1 and two lost
calls a push is answered at once, at its second attempt or never. Two events
with a copy of one are one more than the two of a tick. Three files have a first, a middle and a last. Three faults of a migration are the loss
of the lock, the crash of the start that lost it and a failed statement of the
other.

Fairness. `WebhookDelivery`: each goroutine keeps working and time passes,
because the ticker of `StartBackgroundWorkers` fires again after every batch; a
request without an answer may still hang for ever, which `Settles` excludes
explicitly. `UserSessions`: time passes, requests are served, the daily
maintenance runs (its goroutine is the one that delivers webhooks, so this
assumes that no endpoint hangs). Fairness of `ScrapeJobs`: a job that runs keeps running, because
its HTTP calls have timeouts and its statements return; `Acquire` is strongly
fair, because a Go channel serves blocked senders in the order of their arrival.
`FairSpec` of `LeadFollowUp`: a goroutine's statements return.
`AnalyticsBuffer`: the ticker fires and the statements of a flush return, for a
goroutine that does not hang; the events of an instance are finite, so the latest
do not keep the oldest from being flushed for ever. Nobody has to log
in, refresh, retry, start a job, send a form or crash. `WidgetCache` states no
liveness: its staleness bound is an invariant over `behind`.

## 5. Proofs

Every theorem is proved for all values of the constants, from the assumption
named in the module (`ConstantsAssumption` and the like: limits are natural
numbers, sets that are counted are finite, "no value" is not a value). The
proof of each invariant follows one pattern: a frame lemma says which variables
the invariant reads, a lemma per action or per conjunct shows the step, and the
temporal theorem combines them with `PTL`.

- `ServerProcess_proofs`, `WebhookDelivery`: type correctness, the safety
  invariants and action properties of the two runs, and the refinement of `WebhookPromise`. The
  strengthening says what the position of a worker implies about its snapshot: a
  worker that has an answer to record holds an event of its batch that was
  received.
- `ServerProcess_proofs`, `Migrator`: `AppliedIsPrefix` says that the rows of
  `schema_migrations` are those of a prefix of the files, which is what took
  effect, and `LoopsFollow` that no loop has left a file behind. They hold
  without the lock; so the order of the files does not rest on it. That one start
  migrates at a time does (`HolderMigrates`), until the lock is lost.
- `ServerProcess_proofs`, `AnalyticsBuffer`: the lemmas `PopMoves` and
  `PushMoves` say where the events of the list are after a step; with them, a step
  loses at most one event and counts a failure for it. For
  `StoredPerSend`, the copies of an event are counted over the three places where
  they can be, its rows, the list and the goroutines: a push adds one copy and one
  send, and every later step moves a copy or drops it (`CopiesStay`). The only
  strengthening is that a finite number of goroutines hold an event, since
  `Process` may be infinite.
- `LoginCodes_proofs`: the bounds by which overlapping requests overshoot. The
  invariant counts what was done together with what is about to be done: the
  transactions that have read but not committed hold a share of the same budget,
  so a commit moves a share and cannot raise the total. For unused codes
  (`UnusedBudget`) the budget ranges over the subsets of the transactions that
  have marked codes as used.
- `UserSessions_proofs`: no session has two current owners (`OneOwner`), and a
  browser's cookie is in step with the row unless a race or a loss is recorded
  (`Synced`); together they make revocation final and lockouts explicable.
- `ScrapeJobs_proofs`: `QuotaKept` says that what a lone job may still count fits
  beside the pages of the other sources; it is what makes the early quota check
  sufficient when jobs do not overlap. `AllSettledAgree` says, stage by stage of a
  job, which part of its pages the row and the index already show; the two
  properties of agreement follow at the stage "no job". The invariant is needed
  because the row and the index are written by different steps, and a deletion
  may come between them.
- `WidgetCache_proofs`: `KnowsItsKey` and `LateIsExposed` say that a visitor who
  holds content that the row has left asks for an exposed key; they are needed
  because the copy goes stale by a step that comes after the deletion.
  `NoOlderThanRead` gives the bound: a copy is behind by at most its age and the
  timeout, since what was read in time was current when the request began or
  later.
- `Documents_proofs`: `BudgetKept` counts the rows together with the files that
  requests may still store; a request that has counted holds at most a form of
  this budget, which is why the overshoot is a form for each request but one.
  `Unraced` says that what is being deleted has no vector and no goroutine unless
  the deletion met the indexing; without it the last step of a deletion could
  leave a vector nobody accounts for.
- `ChatUsage_proofs`: `Spent` counts the answers together with the requests that
  were charged and have yet to answer: they share what was charged and what a
  reset forgets, at most one message for each request. `Capped` ties the charge
  to the highest limit since the reset. `AbsentUntouched` (a conversation that
  does not exist has no messages and nobody writes to it) and `VisitorsKnown` (a
  visitor's request writes to a conversation of its widget, or one whose widget
  was deleted under it) carry the agreement of counts over `Open` and
  `DeleteWidget`.
- `Dashboard_proofs`: for the leads, `UnmarkedIsExplained` says that every email
  to a row without a mark has lost its mark or is about to be marked; with it, a
  goroutine that finds no mark is one of the goroutines that `SendsAreBounded`
  allows. For the plan checks, `LateIsExplained` counts the late edits together
  with the requests that may still make one. For the flows, `FlowBudget` counts
  the active flows together with those that requests under way will activate; a
  deactivation that takes effect empties the first part. For the settings,
  `ShownIsExplained` says which parts an open page shows as they were saved,
  which is what its save writes back.

Type invariants are proved for every module and stated in no run: the proofs of
the other theorems rest on them. The same holds for `DeliveredWasReceived` of
`WebhookDelivery`, which is a part of `KeepsPromise`, and for `SlotsKept` of
`ScrapeJobs`: no more jobs run than `scrapeSem` has places, and whoever holds a
place is at work. `ZeroAdmitsNothing` is the finding of `documents_unlimited` for
every set of documents and requests.

### Liveness

The five liveness properties are theorems too, each relative to hypotheses that
its statement spells out. The proofs are alike. A goroutine is followed from
stage to stage: a step lemma says that a step of the system leaves it at its
stage, moves it on or reaches the goal, and another that its own step does not
leave it there; fairness then moves it on, and `PTL` chains the stages. Fairness
of one goroutine has a name (`Goes`, `Runs`, `GetsSlot`, `Serves`,
`KeepsFlushing`, `KeepsDelivering`, `KeepsTime`) that the temporal steps do not
open.

| theorem | what makes it end |
|---|---|
| `FollowUpsHappen` | the goroutine has read the plan, then the mark, then sent the email |
| `QueuedJobsEndAlways` | a job that has a slot crawls, cleans, indexes, counts and finishes; a slot comes free again and again, because a job that holds one ends (`SlotsKept`, `QueuedWaits`), and `Acquire` is strongly fair |
| `AbandonedSessionEndsAlways` | the session ages by every tick, up to the refresh lifetime, where the maintenance revokes it |
| `EventsAreFlushedAlways` | a backlog that no step makes larger and each pop makes smaller: buffered events, twice those not yet pushed or whose push may be sent again, goroutines that do not hang, and three times the calls that may still be lost |
| `SingleProcessSettles` | an effort that no step makes larger and each attempt makes smaller: the attempts that the rows have left, the events that are not dead, the mishaps that are left and, for each retry left, what it can give back (`MaxAttempts + 2`) |

The hypotheses are of three kinds.

- Fairness, as section 4 justifies it. Where it is written as `[]Fairness`, this
  says no more than `Fairness`: a formula of weak and strong fairness that holds
  of a behaviour holds of each of its suffixes.
- That whoever has work has a step: `FollowUpsGoOn`, `JobsGoOn`, `SessionsGoOn`,
  `FlushesGoOn`, `DeliveriesGoOn`. They are about ENABLED, which the provers do
  not expand, so they are not proved. They hold in every reachable state of the
  instances of the runs, where TLC evaluates them as invariants when they are
  named in the `.cfg`; the runs do not name them, because a goroutine that has
  work and no step would stop there for ever, and the liveness property of the
  run would fail.
- Induction over the natural numbers for one temporal formula (`Induction`,
  `EffortInduction`), in the last three. It is valid in every behaviour; it is
  a hypothesis because the library's theorem takes an operator as a parameter,
  which the provers cannot instantiate. What the induction needs, its
  base and its step for every number, is proved.

`SingleProcessSettles` is about one server process, as the run is. With two, an
event may be in the hands of the one whose request is never answered while the
other goes on, and then it neither settles nor does every worker hang; the
strengthening `HeldIsOpen` (what the goroutine holds has no outcome yet) is what
fails there. `EventsAreFlushedAlways` is about any finite number of processes.

## 6. Only model-checked, and not modelled

Every property of a passing run is also a theorem. What stays with TLC is what
the liveness theorems take as hypotheses: that goroutines with work have a step
(ENABLED), and the fairness of a composition, which `MCSpec` states for the
variables of all its modules. The two findings are shown by counterexamples.

Not modelled: CSRF tokens and admin accounts, which are written once and looked
up; feedback, ratings, projects, the list pages and the brand extraction, each
of whose handlers is one statement on a row of its own or keeps no state; the
browser widget, which is one visitor's page; the text algorithms (chunks of a
page or an answer, the event-stream parser, the domain check), whose subject is
the characters that the models leave out; routing, configuration and logging.
Security of the tokens, signatures and outbound filters, wording and layout are
outside the project.
