------------------------------- MODULE ScrapeJobs -------------------------------
(***************************************************************************)
(* The websites of one account: its rows of scraper_sources and            *)
(* scrape_jobs, the vectors of its namespace, the requests that queue a    *)
(* job and the goroutines that run it, and the requests that delete        *)
(* sources.  Statements and calls of the vector index are steps of their   *)
(* own; nothing is locked, and nothing of a goroutine survives a restart.  *)
(*                                                                         *)
(* A source is known by its URL, which is also that of its first page.  A  *)
(* page stands for its chunks.                                             *)
(***************************************************************************)
EXTENDS Integers, FiniteSets

CONSTANTS Source,     \* scraper_sources.source_url
          Page,       \* URLs of pages
          Site,       \* source -> the pages that its website links
          Job,        \* jobs at once; an ended one makes room for another
          Deleter,    \* requests that delete sources, under way at once
          Limit,      \* limits.ScrapedPages of the plan
          Slots,      \* cap(c.scrapeSem)
          MaxMishaps  \* bound: failures that the code only logs or reports

NoSource == "none"

ASSUME ConstantsAssumption ==
  /\ Source \subseteq Page
  /\ NoSource \notin Source
  /\ Site \in [Source -> SUBSET Page]
  /\ \A s \in Source : s \in Site[s] /\ IsFiniteSet(Site[s])
  /\ IsFiniteSet(Source)
  /\ Limit \in Nat \ {0}
  /\ Slots \in Nat \ {0}
  /\ MaxMishaps \in Nat

VARIABLES
  rows,        \* the sources that have a row
  pages,       \* source -> scraped_pages, 0 without a row
  vectors,     \* source -> the pages in the index under its sourceKey
  status,      \* job -> scrape_jobs.status, or "none"
  pc,          \* job -> what its request or its goroutine does next
  source,      \* job -> sourceURL
  own,         \* job -> currentSourcePages
  remaining,   \* job -> remainingPages
  found,       \* job -> the pages that it has crawled
  deleting,    \* deleter -> the sources whose vectors it has removed
  step,        \* deleter -> what it does next
  overlapped,  \* history: while a job was asked for, another was under way or
               \* the row that it had read was deleted
  unsettled,   \* history: the sources disturbed since their last clean refresh
  mishaps

table   == <<rows, pages>>
jobs    == <<status, pc, source, own, remaining, found>>
deletes == <<deleting, step>>
vars    == <<table, vectors, jobs, deletes, overlapped, unsettled, mishaps>>

Running  == {"crawl", "clean", "url", "upsert", "count", "succeed", "fail"}
Asking   == {"usage", "store", "insert"}

UnderWay(j) == pc[j] # "none"

TableOK ==
  /\ rows \in SUBSET Source
  /\ pages \in [Source -> 0..Limit]
  /\ \A s \in Source \ rows : pages[s] = 0

IndexOK ==
  /\ vectors \in [Source -> SUBSET Page]
  /\ \A s \in Source : vectors[s] \subseteq Site[s]

JobOK(j) ==
  /\ UnderWay(j) <=> source[j] # NoSource
  /\ UnderWay(j) => found[j] \subseteq Site[source[j]]
  /\ pc[j] \in {"none", "queued", "crawl"} \cup Asking => found[j] = {}
  /\ Cardinality(found[j]) <= remaining[j]

JobsOK ==
  /\ status \in [Job -> {"none", "queued", "scraping", "indexing", "done", "failed"}]
  /\ pc \in [Job -> {"none", "queued"} \cup Asking \cup Running]
  /\ source \in [Job -> Source \cup {NoSource}]
  /\ own \in [Job -> 0..Limit]
  /\ remaining \in [Job -> 0..Limit]
  /\ found \in [Job -> SUBSET Page]
  /\ \A j \in Job : JobOK(j)

DeletesOK ==
  /\ deleting \in [Deleter -> SUBSET Source]
  /\ step \in [Deleter -> {"idle", "url", "row"}]
  /\ \A d \in Deleter : step[d] = "idle" => deleting[d] = {}

TypeOK ==
  /\ TableOK /\ IndexOK /\ JobsOK /\ DeletesOK
  /\ overlapped \in BOOLEAN
  /\ unsettled \in SUBSET Source
  /\ mishaps \in 0..MaxMishaps

Init ==
  /\ rows = {}
  /\ pages = [s \in Source |-> 0]
  /\ vectors = [s \in Source |-> {}]
  /\ status = [j \in Job |-> "none"]
  /\ pc = [j \in Job |-> "none"]
  /\ source = [j \in Job |-> NoSource]
  /\ own = [j \in Job |-> 0]
  /\ remaining = [j \in Job |-> 0]
  /\ found = [j \in Job |-> {}]
  /\ deleting = [d \in Deleter |-> {}]
  /\ step = [d \in Deleter |-> "idle"]
  /\ overlapped = FALSE
  /\ unsettled = {}
  /\ mishaps = 0

JobsOf(s)     == {j \in Job : source[j] = s}
DeletersOf(s) == {d \in Deleter : s \in deleting[d]}
Busy(s)       == JobsOf(s) # {} \/ DeletersOf(s) # {}

Mishap ==
  /\ mishaps < MaxMishaps
  /\ mishaps' = mishaps + 1

Disturb(S) == unsettled' = unsettled \cup S

Goto(j, what) == pc' = [pc EXCEPT ![j] = what]

End(j) ==
  /\ Goto(j, "none")
  /\ source' = [source EXCEPT ![j] = NoSource]
  /\ own' = [own EXCEPT ![j] = 0]
  /\ remaining' = [remaining EXCEPT ![j] = 0]
  /\ found' = [found EXCEPT ![j] = {}]

\* updateScrapeJob: a failure is only logged.
UpdateScrapeJob(j, what) ==
  \/ status' = [status EXCEPT ![j] = what] /\ UNCHANGED mishaps
  \/ Mishap /\ UNCHANGED status

(***************************************************************************)
(* Scrape.                                                                 *)
(***************************************************************************)

\* The pages that the source counts already.
ReadOwnPages(j, s) ==
  /\ pc[j] = "none"
  /\ Goto(j, "usage")
  /\ status' = [status EXCEPT ![j] = "none"]
  /\ source' = [source EXCEPT ![j] = s]
  /\ own' = [own EXCEPT ![j] = pages[s]]
  /\ overlapped' = (overlapped \/ \E k \in Job : UnderWay(k))
  /\ Disturb(IF Busy(s) THEN {s} ELSE {})
  /\ UNCHANGED <<table, vectors, remaining, found, deletes, mishaps>>

\* The pages that count says of the sources in S, one by one.
Counted(S, count) == {c \in S \X (1..Limit) : c[2] <= count[c[1]]}

TotalPages == Cardinality(Counted(Source, pages))

\* Mutant of UsedByOthers: the operands are swapped.
UsedByOthersSwapped(j) == IF own[j] < TotalPages THEN 0 ELSE own[j] - TotalPages

UsedByOthers(j) == IF TotalPages < own[j] THEN 0 ELSE TotalPages - own[j]

\* The pages of the account; without any left it answers 402.
ReadUsage(j) ==
  /\ pc[j] = "usage"
  /\ IF UsedByOthers(j) >= Limit
     THEN End(j)
     ELSE /\ Goto(j, "store")
          /\ remaining' = [remaining EXCEPT ![j] = Limit - UsedByOthers(j)]
          /\ UNCHANGED <<source, own, found>>
  /\ UNCHANGED <<table, vectors, status, deletes, overlapped, unsettled, mishaps>>

\* A source that has no row gets one with the pages that were read before.
UpsertSource(j) ==
  /\ pc[j] = "store"
  /\ rows' = rows \cup {source[j]}
  /\ pages' = IF source[j] \in rows THEN pages ELSE [pages EXCEPT ![source[j]] = own[j]]
  /\ Goto(j, "insert")
  /\ UNCHANGED <<vectors, status, source, own, remaining, found, deletes, overlapped, unsettled, mishaps>>

InsertJob(j) ==
  /\ pc[j] = "insert"
  /\ status' = [status EXCEPT ![j] = "queued"]
  /\ Goto(j, "queued")
  /\ UNCHANGED <<table, vectors, source, own, remaining, found, deletes, overlapped, unsettled, mishaps>>

\* A statement of the request fails: it answers 500.
ScrapeFails(j) ==
  /\ pc[j] \in Asking
  /\ End(j)
  /\ UNCHANGED <<table, vectors, status, deletes, overlapped, unsettled, mishaps>>

(***************************************************************************)
(* runScrapeJob.                                                           *)
(***************************************************************************)

\* Mutant of HoldsSlot: a failed job returns without giving its slot back.
HoldsSlotFailed(j) == pc[j] \in Running \/ (pc[j] = "none" /\ status[j] = "failed")

HoldsSlot(j) == pc[j] \in Running

Acquire(j) ==
  /\ pc[j] = "queued"
  /\ Cardinality({k \in Job : HoldsSlot(k)}) < Slots
  /\ Goto(j, "crawl")
  /\ UpdateScrapeJob(j, "scraping")
  /\ UNCHANGED <<table, vectors, source, own, remaining, found, deletes, overlapped, unsettled>>

\* The crawl starts from the source's own page and stops at maxPages; a page
\* that fails, is blocked or has no text is passed over.
CrawlWebsite(j) ==
  /\ pc[j] = "crawl"
  /\ \E P \in SUBSET Site[source[j]] :
       /\ source[j] \in P
       /\ Cardinality(P) <= remaining[j]
       /\ found' = [found EXCEPT ![j] = P]
  /\ Goto(j, "clean")
  /\ UpdateScrapeJob(j, "indexing")
  /\ UNCHANGED <<table, vectors, source, own, remaining, deletes, overlapped, unsettled>>

CrawlFails(j) ==
  /\ pc[j] = "crawl"
  /\ Goto(j, "fail")
  /\ UNCHANGED <<table, vectors, status, source, own, remaining, found, deletes, overlapped, unsettled, mishaps>>

\* Mutant of CleanSource: the vectors of the pages it does not find again stay.
CleanSourceFound(j) ==
  /\ pc[j] = "clean"
  /\ vectors' = [vectors EXCEPT ![source[j]] = @ \ found[j]]
  /\ Goto(j, "url")
  /\ unsettled' = IF source[j] \in rows /\ JobsOf(source[j]) = {j} /\ DeletersOf(source[j]) = {}
                  THEN unsettled \ {source[j]} ELSE unsettled
  /\ UNCHANGED <<table, status, source, own, remaining, found, deletes, overlapped, mishaps>>

\* pineconeDeleteBySource.  A source with a row that nobody else is at work on
\* starts afresh.
CleanSource(j) ==
  /\ pc[j] = "clean"
  /\ vectors' = [vectors EXCEPT ![source[j]] = {}]
  /\ Goto(j, "url")
  /\ unsettled' = IF source[j] \in rows /\ JobsOf(source[j]) = {j} /\ DeletersOf(source[j]) = {}
                  THEN unsettled \ {source[j]} ELSE unsettled
  /\ UNCHANGED <<table, status, source, own, remaining, found, deletes, overlapped, mishaps>>

\* It fails, or its answer is late: the vectors may be gone.
CleanSourceFails(j) ==
  /\ pc[j] = "clean"
  /\ Mishap
  /\ vectors' \in {vectors, [vectors EXCEPT ![source[j]] = {}]}
  /\ Goto(j, "fail")
  /\ Disturb({source[j]})
  /\ UNCHANGED <<table, status, source, own, remaining, found, deletes, overlapped>>

WithoutURL(url) == [s \in Source |-> vectors[s] \ {url}]

\* Mutant of CleanURL: the whole namespace is deleted.
CleanURLAll(j) ==
  /\ pc[j] = "url"
  /\ vectors' = [s \in Source |-> {}]
  /\ Goto(j, "upsert")
  /\ UNCHANGED <<table, status, source, own, remaining, found, deletes, overlapped, unsettled, mishaps>>

\* pineconeDeleteByURL reaches the page under every source; a failure is only
\* logged.
CleanURL(j) ==
  /\ pc[j] = "url"
  /\ \/ vectors' = WithoutURL(source[j]) /\ UNCHANGED mishaps
     \/ Mishap /\ UNCHANGED vectors
  /\ Goto(j, "upsert")
  /\ UNCHANGED <<table, status, source, own, remaining, found, deletes, overlapped, unsettled>>

\* pineconeUpsertChunks leaves out what it has no embedding for, and is content.
Upsert(j) ==
  /\ pc[j] = "upsert"
  /\ \E P \in SUBSET found[j] :
       /\ vectors' = [vectors EXCEPT ![source[j]] = @ \cup P]
       /\ IF P = found[j] THEN UNCHANGED <<unsettled, mishaps>>
                          ELSE Mishap /\ Disturb({source[j]})
  /\ Goto(j, "count")
  /\ UNCHANGED <<table, status, source, own, remaining, found, deletes, overlapped>>

\* It fails, or its answer is late: the vectors may be there.
UpsertFails(j) ==
  /\ pc[j] = "upsert"
  /\ Mishap
  /\ vectors' \in {vectors, [vectors EXCEPT ![source[j]] = @ \cup found[j]]}
  /\ Goto(j, "fail")
  /\ Disturb({source[j]})
  /\ UNCHANGED <<table, status, source, own, remaining, found, deletes, overlapped>>

\* The UPDATE of scraped_pages reaches the row if there still is one; a failure
\* is only logged.
CountPages(j) ==
  /\ pc[j] = "count"
  /\ \/ /\ pages' = IF source[j] \in rows
                    THEN [pages EXCEPT ![source[j]] = Cardinality(found[j])] ELSE pages
        /\ UNCHANGED <<unsettled, mishaps>>
     \/ Mishap /\ Disturb({source[j]}) /\ UNCHANGED pages
  /\ Goto(j, "succeed")
  /\ UNCHANGED <<rows, vectors, status, source, own, remaining, found, deletes, overlapped>>

Finish(j) ==
  /\ pc[j] \in {"succeed", "fail"}
  /\ UpdateScrapeJob(j, IF pc[j] = "succeed" THEN "done" ELSE "failed")
  /\ End(j)
  /\ UNCHANGED <<table, vectors, deletes, overlapped, unsettled>>

(***************************************************************************)
(* DeleteSource and DeleteAllSources.                                      *)
(***************************************************************************)
BeginDelete(d, S, next) ==
  /\ step[d] = "idle"
  /\ step' = [step EXCEPT ![d] = next]
  /\ deleting' = [deleting EXCEPT ![d] = S]

EndDelete(d) ==
  /\ step' = [step EXCEPT ![d] = "idle"]
  /\ deleting' = [deleting EXCEPT ![d] = {}]

\* The vectors go first; when that fails the answer is 502 and nothing else is
\* done, though they may be gone.
DeleteSource(d, s) ==
  \/ /\ BeginDelete(d, {s}, "url")
     /\ vectors' = [vectors EXCEPT ![s] = {}]
     /\ Disturb(IF JobsOf(s) # {} THEN {s} ELSE {})
     /\ UNCHANGED <<table, jobs, overlapped, mishaps>>
  \/ /\ step[d] = "idle"
     /\ Mishap
     /\ vectors' \in {vectors, [vectors EXCEPT ![s] = {}]}
     /\ Disturb({s})
     /\ UNCHANGED <<table, jobs, deletes, overlapped>>

DeleteSourceURL(d) ==
  /\ step[d] = "url"
  /\ \E s \in deleting[d] :
       \/ vectors' = WithoutURL(s) /\ UNCHANGED mishaps
       \/ Mishap /\ UNCHANGED vectors
  /\ step' = [step EXCEPT ![d] = "row"]
  /\ UNCHANGED <<table, jobs, deleting, overlapped, unsettled>>

DeleteAllSources(d) ==
  \/ /\ BeginDelete(d, Source, "row")
     /\ vectors' = [s \in Source |-> {}]
     /\ Disturb({s \in Source : JobsOf(s) # {}})
     /\ UNCHANGED <<table, jobs, overlapped, mishaps>>
  \/ /\ step[d] = "idle"
     /\ Mishap
     /\ vectors' \in {vectors, [s \in Source |-> {}]}
     /\ Disturb(Source)
     /\ UNCHANGED <<table, jobs, deletes, overlapped>>

\* The rows; when that fails the vectors are gone and the rows stay.
DeleteRows(d) ==
  /\ step[d] = "row"
  /\ \/ /\ rows' = rows \ deleting[d]
        /\ pages' = [s \in Source |-> IF s \in deleting[d] THEN 0 ELSE pages[s]]
        /\ overlapped' = (overlapped \/ \E j \in Job : pc[j] = "usage" /\ source[j] \in deleting[d])
        /\ UNCHANGED <<unsettled, mishaps>>
     \/ Mishap /\ Disturb(deleting[d]) /\ UNCHANGED <<table, overlapped>>
  /\ EndDelete(d)
  /\ UNCHANGED <<vectors, jobs>>

(***************************************************************************)
(* The process ends, and its requests and goroutines with it; the rows of  *)
(* the jobs stay as they are, and nothing takes them up again.             *)
(***************************************************************************)
Crash ==
  /\ Mishap
  /\ \E s \in Source : Busy(s)
  /\ Disturb({s \in Source : Busy(s)})
  /\ pc' = [j \in Job |-> "none"]
  /\ source' = [j \in Job |-> NoSource]
  /\ own' = [j \in Job |-> 0]
  /\ remaining' = [j \in Job |-> 0]
  /\ found' = [j \in Job |-> {}]
  /\ step' = [d \in Deleter |-> "idle"]
  /\ deleting' = [d \in Deleter |-> {}]
  /\ UNCHANGED <<table, vectors, status, overlapped>>

-------------------------------------------------------------------------------
Scrape(j) ==
  \/ \E s \in Source : ReadOwnPages(j, s)
  \/ ReadUsage(j) \/ UpsertSource(j) \/ InsertJob(j) \/ ScrapeFails(j)

RunScrapeJob(j) ==
  \/ Acquire(j)
  \/ CrawlWebsite(j) \/ CrawlFails(j)
  \/ CleanSource(j) \/ CleanSourceFails(j)
  \/ CleanURL(j)
  \/ Upsert(j) \/ UpsertFails(j)
  \/ CountPages(j)
  \/ Finish(j)

Delete(d) ==
  \/ \E s \in Source : DeleteSource(d, s)
  \/ DeleteSourceURL(d)
  \/ DeleteAllSources(d)
  \/ DeleteRows(d)

Next ==
  \/ \E j \in Job : Scrape(j) \/ RunScrapeJob(j)
  \/ \E d \in Deleter : Delete(d)
  \/ Crash

Spec == Init /\ [][Next]_vars

\* Every call of a goroutine returns or times out, so the goroutine goes on;
\* goroutines that wait for room in a channel get it in turn.
Runs(j)     == WF_vars(RunScrapeJob(j))
GetsSlot(j) == SF_vars(Acquire(j))

Fairness == \A j \in Job : Runs(j) /\ GetsSlot(j)

FairSpec == Spec /\ Fairness

-------------------------------------------------------------------------------
\* The pages that an account's sources count pass the limit of its plan only
\* after two jobs were under way at once, each of which had read how many pages
\* were left before the other counted its own, or after a source was deleted
\* between the two reads of Scrape, which subtracts its pages from a sum that
\* has none of them.
QuotaNeedsOverlap == ~overlapped => TotalPages <= Limit

\* The pages of other sources that the website of s links.
Shared(s) == (Site[s] \cap Source) \ {s}

\* A source that was not disturbed since its last clean refresh has no more
\* pages in the index than its row counts; without a row it has none.
IndexIsCounted ==
  \A s \in Source \ unsettled : ~Busy(s) => Cardinality(vectors[s]) <= pages[s]

\* And it counts no more pages than are in the index, but for those that are
\* sources themselves: refreshing or deleting a source takes its URL out of
\* the index under every other source too.
CountIsIndexed ==
  \A s \in Source \ unsettled :
    ~Busy(s) => pages[s] <= Cardinality(vectors[s] \cup Shared(s))

\* A queued job is done or fails in the end, unless something went wrong that
\* the code does not report: jobs that fail give their slot back.
QueuedJobsEnd ==
  \A j \in Job : status[j] = "queued" ~> status[j] \in {"done", "failed"} \/ mishaps > 0

-------------------------------------------------------------------------------
(***************************************************************************)
(* The strengthening that makes IndexIsCounted and CountIsIndexed          *)
(* inductive: what they say at every stage of a job and of a deletion.     *)
(***************************************************************************)
Agrees(s) ==
  /\ Cardinality(vectors[s]) <= pages[s]
  /\ pages[s] <= Cardinality(vectors[s] \cup Shared(s))

AgreesDuring(j, s) ==
  /\ pc[j] = "usage" \/ pc[j] = "store" => own[j] = pages[s]
  /\ pc[j] \in {"insert", "queued"} \cup Running => s \in rows
  /\ pc[j] \in Asking \cup {"queued", "crawl", "clean", "succeed", "fail"} => Agrees(s)
  /\ pc[j] \in {"url", "upsert"} => vectors[s] = {}
  /\ pc[j] = "count" =>
       vectors[s] \subseteq found[j] /\ found[j] \subseteq vectors[s] \cup Shared(s)

SettledAgrees(s) ==
  /\ ~Busy(s) => Agrees(s)
  /\ DeletersOf(s) # {} => JobsOf(s) = {} /\ vectors[s] = {}
  /\ \A j \in JobsOf(s) : JobsOf(s) = {j} /\ AgreesDuring(j, s)

AllSettledAgree == \A s \in Source \ unsettled : SettledAgrees(s)

(***************************************************************************)
(* The strengthening that makes QuotaNeedsOverlap inductive: the pages     *)
(* that a job may still count fit beside those of the other sources.       *)
(***************************************************************************)
OthersOf(j) == Cardinality(Counted(Source \ {source[j]}, pages))

KeepsQuota(j) ==
  /\ \A k \in Job : UnderWay(k) => k = j
  /\ pc[j] = "usage" => own[j] = pages[source[j]]
  /\ pc[j] = "store" => own[j] <= remaining[j]
  /\ pc[j] # "usage" => OthersOf(j) + remaining[j] <= Limit

QuotaKept ==
  ~overlapped => TotalPages <= Limit /\ \A j \in Job : UnderWay(j) => KeepsQuota(j)

(***************************************************************************)
(* What the progress of the jobs rests on.                                 *)
(***************************************************************************)
Holders == {j \in Job : HoldsSlot(j)}
Free    == Cardinality(Holders) < Slots

\* However many jobs wait, no more than Slots of them run, and every one that
\* leaves its goroutine, in whatever way, has given its slot back.
SlotsKept == IsFiniteSet(Holders) /\ Cardinality(Holders) <= Slots

\* A queued row has a goroutine that waits for its slot, unless something went
\* wrong.
QueuedWaits == mishaps = 0 => \A j \in Job : status[j] = "queued" => pc[j] = "queued"

\* A goroutine that has its slot has a step to take, and so has one that waits
\* while a slot is free.
JobsGoOn ==
  \A j \in Job :
    /\ pc[j] \in Running => ENABLED <<RunScrapeJob(j)>>_vars
    /\ pc[j] = "queued" /\ Free => ENABLED <<Acquire(j)>>_vars
===============================================================================
