---------------------------- MODULE ScrapeJobs_proofs ----------------------------
(***************************************************************************)
(* Theorems about ScrapeJobs, for any finite set of sources and any number *)
(* of jobs and deletions at once.                                          *)
(***************************************************************************)
EXTENDS ScrapeJobs, FiniteSetTheorems, TLAPS

-------------------------------------------------------------------------------
(***************************************************************************)
(* Pages that are counted.                                                 *)
(***************************************************************************)
LEMMA CountedIsFinite ==
  ASSUME NEW S \in SUBSET Source, NEW count
  PROVE  IsFiniteSet(Counted(S, count)) /\ Cardinality(Counted(S, count)) \in Nat
<1>1. IsFiniteSet(S) /\ IsFiniteSet(1..Limit)
  BY ConstantsAssumption, FS_Subset, FS_Interval
<1>2. IsFiniteSet(S \X (1..Limit))
  BY <1>1, FS_Product
<1>3. Counted(S, count) \in SUBSET (S \X (1..Limit))
  BY DEF Counted
<1>4. QED
  BY <1>2, <1>3, FS_Subset, FS_CardinalityType

\* Fewer sources that count fewer pages.
LEMMA CountedGrows ==
  ASSUME NEW S \in SUBSET Source, NEW T \in SUBSET Source, S \subseteq T,
         NEW less \in [Source -> Nat], NEW more \in [Source -> Nat],
         \A s \in S : less[s] <= more[s]
  PROVE  Cardinality(Counted(S, less)) <= Cardinality(Counted(T, more))
<1>1. ASSUME NEW c \in Counted(S, less)
      PROVE  c \in Counted(T, more)
  <2>1. c \in S \X (1..Limit) /\ c[2] <= less[c[1]] /\ c[1] \in S /\ c[2] \in 1..Limit
    BY <1>1 DEF Counted
  <2>2. c[2] <= more[c[1]]
    BY <2>1, ConstantsAssumption
  <2>3. QED
    BY <2>1, <2>2 DEF Counted
<1>2. Counted(S, less) \in SUBSET Counted(T, more)
  BY <1>1
<1>3. QED
  BY <1>2, CountedIsFinite, FS_Subset

LEMMA CountedOfOne ==
  ASSUME NEW s \in Source, NEW count \in [Source -> 0..Limit]
  PROVE  Cardinality(Counted({s}, count)) = count[s]
<1> DEFINE f == [i \in 1..count[s] |-> <<s, i>>]
<1>1. count[s] \in Nat /\ count[s] <= Limit /\ Limit \in Nat
  BY ConstantsAssumption
<1>2. f \in [1..count[s] -> Counted({s}, count)]
  BY <1>1 DEF Counted
<1>3. \A i, k \in 1..count[s] : f[i] = f[k] => i = k
  OBVIOUS
<1>4. \A c \in Counted({s}, count) : \E i \in 1..count[s] : f[i] = c
  <2> SUFFICES ASSUME NEW c \in Counted({s}, count)
               PROVE  \E i \in 1..count[s] : f[i] = c
    OBVIOUS
  <2>1. c = <<s, c[2]>> /\ c[2] \in 1..Limit /\ c[2] <= count[s]
    BY DEF Counted
  <2>2. c[2] \in 1..count[s]
    BY <1>1, <2>1
  <2>3. QED
    BY <2>1, <2>2
<1>5. f \in Bijection(1..count[s], Counted({s}, count))
  BY <1>2, <1>3, <1>4 DEF Bijection, Injection, IsInjective, Surjection
<1>6. QED
  BY <1>1, <1>5, FS_CountingElements DEF ExistsBijection

LEMMA CountedSplits ==
  ASSUME NEW s \in Source, NEW count \in [Source -> 0..Limit]
  PROVE  Cardinality(Counted(Source, count))
           = Cardinality(Counted(Source \ {s}, count)) + count[s]
<1>1. Counted(Source, count) = Counted(Source \ {s}, count) \cup Counted({s}, count)
  BY DEF Counted
<1>2. Counted(Source \ {s}, count) \cap Counted({s}, count) = {}
  BY DEF Counted
<1>3. IsFiniteSet(Counted(Source \ {s}, count)) /\ IsFiniteSet(Counted({s}, count))
  BY CountedIsFinite
<1>4. Cardinality(Counted(Source \ {s}, count)) \in Nat
  BY CountedIsFinite
<1>5. Cardinality(Counted({s}, count)) = count[s] /\ count[s] \in Nat
  BY CountedOfOne, ConstantsAssumption
<1>6. Cardinality(Counted(Source \ {s}, count) \cup Counted({s}, count))
        = Cardinality(Counted(Source \ {s}, count)) + Cardinality(Counted({s}, count))
          - Cardinality(Counted(Source \ {s}, count) \cap Counted({s}, count))
  BY <1>3, FS_Union
<1>7. Cardinality(Counted(Source \ {s}, count) \cap Counted({s}, count)) = 0
  BY <1>2, FS_EmptySet
<1>8. QED
  BY <1>1, <1>4, <1>5, <1>6, <1>7

\* Pages of a website are finitely many.
LEMMA PagesAreFinite ==
  ASSUME NEW s \in Source, NEW P \in SUBSET Site[s]
  PROVE  IsFiniteSet(P) /\ Cardinality(P) \in Nat
BY ConstantsAssumption, FS_Subset, FS_CardinalityType

-------------------------------------------------------------------------------
(***************************************************************************)
(* Types.                                                                  *)
(***************************************************************************)
LEMMA UsedByOthersIsBounded ==
  ASSUME TypeOK, NEW j \in Job, ~(UsedByOthers(j) >= Limit)
  PROVE  Limit - UsedByOthers(j) \in 0..Limit
<1>1. TotalPages \in Nat
  BY CountedIsFinite DEF TotalPages
<1>2. own[j] \in Nat
  BY ConstantsAssumption DEF TypeOK, JobsOK
<1>3. UsedByOthers(j) \in Nat
  BY <1>1, <1>2 DEF UsedByOthers
<1>4. QED
  BY <1>3, ConstantsAssumption

\* It is enough to look at the job that moves.
LEMMA OneJobType ==
  ASSUME JobsOK, NEW j \in Job,
         status' \in [Job -> {"none", "queued", "scraping", "indexing", "done", "failed"}],
         pc' \in [Job -> {"none", "queued"} \cup Asking \cup Running],
         source' \in [Job -> Source \cup {NoSource}],
         own' \in [Job -> 0..Limit],
         remaining' \in [Job -> 0..Limit],
         found' \in [Job -> SUBSET Page],
         JobOK(j)',
         \A k \in Job \ {j} : /\ pc'[k] = pc[k] /\ source'[k] = source[k]
                              /\ found'[k] = found[k] /\ remaining'[k] = remaining[k]
  PROVE  JobsOK'
<1>1. ASSUME NEW k \in Job
      PROVE  JobOK(k)'
  <2>1. CASE k = j
    BY <2>1
  <2>2. CASE k # j
    BY <2>2 DEF JobsOK, JobOK, UnderWay
  <2>3. QED
    BY <2>1, <2>2
<1>2. QED
  BY <1>1 DEF JobsOK, JobOK

LEMMA EndType ==
  ASSUME JobsOK, NEW j \in Job, End(j),
         status' \in [Job -> {"none", "queued", "scraping", "indexing", "done", "failed"}]
  PROVE  JobsOK'
<1>1. /\ pc' \in [Job -> {"none", "queued"} \cup Asking \cup Running]
      /\ source' \in [Job -> Source \cup {NoSource}]
      /\ own' \in [Job -> 0..Limit]
      /\ remaining' \in [Job -> 0..Limit]
      /\ found' \in [Job -> SUBSET Page]
  BY ConstantsAssumption DEF JobsOK, End, Goto
<1>2. pc'[j] = "none" /\ source'[j] = NoSource /\ found'[j] = {} /\ remaining'[j] = 0
  BY DEF JobsOK, End, Goto
<1>3. \A k \in Job \ {j} : /\ pc'[k] = pc[k] /\ source'[k] = source[k]
                           /\ found'[k] = found[k] /\ remaining'[k] = remaining[k]
  BY DEF JobsOK, End, Goto
<1>4. JobOK(j)'
  BY <1>2, FS_EmptySet DEF JobOK, UnderWay, Asking
<1>5. QED
  BY <1>1, <1>3, <1>4, OneJobType

\* A job goes on, and keeps its source and its number of pages.
LEMMA StepType ==
  ASSUME JobsOK, NEW j \in Job, UnderWay(j),
         NEW what \in {"queued"} \cup Asking \cup Running, Goto(j, what),
         status' \in [Job -> {"none", "queued", "scraping", "indexing", "done", "failed"}],
         what \in Running \ {"crawl"} \/ found[j] = {},
         UNCHANGED <<source, own, remaining, found>>
  PROVE  JobsOK'
<1>1. pc' \in [Job -> {"none", "queued"} \cup Asking \cup Running]
  BY DEF JobsOK, Goto
<1>2. pc'[j] = what /\ what # "none" /\ pc[j] # "none" /\ \A k \in Job \ {j} : pc'[k] = pc[k]
  BY DEF JobsOK, Goto, UnderWay, Asking, Running
<1>3. JobOK(j)'
  BY <1>2 DEF JobsOK, JobOK, UnderWay, Asking, Running
<1>4. QED
  BY <1>1, <1>2, <1>3, OneJobType DEF JobsOK

LEMMA UpdateType ==
  ASSUME JobsOK, mishaps \in 0..MaxMishaps, NEW j \in Job,
         NEW what \in {"queued", "scraping", "indexing", "done", "failed"}, UpdateScrapeJob(j, what)
  PROVE  /\ status' \in [Job -> {"none", "queued", "scraping", "indexing", "done", "failed"}]
         /\ mishaps' \in 0..MaxMishaps
BY ConstantsAssumption DEF JobsOK, UpdateScrapeJob, Mishap

LEMMA MishapType ==
  ASSUME mishaps \in 0..MaxMishaps, Mishap
  PROVE  mishaps' \in 0..MaxMishaps
BY ConstantsAssumption DEF Mishap

\* The statements and calls of a job.
LEMMA ScrapeType ==
  ASSUME TypeOK, NEW j \in Job, Scrape(j)
  PROVE  TypeOK'
<1> USE DEF TypeOK
<1>1. ASSUME NEW s \in Source, ReadOwnPages(j, s)
      PROVE  TypeOK'
  <2>1. UNCHANGED <<table, vectors, remaining, found, deletes, mishaps>>
    BY <1>1 DEF ReadOwnPages
  <2>2. TableOK' /\ IndexOK' /\ DeletesOK' /\ mishaps' \in 0..MaxMishaps
    BY <2>1 DEF table, deletes, TableOK, IndexOK, DeletesOK
  <2>3. overlapped' \in BOOLEAN
    BY <1>1 DEF ReadOwnPages
  <2>4. unsettled' \in SUBSET Source
    BY <1>1 DEF ReadOwnPages, Disturb
  <2>5. /\ pc[j] = "none" /\ pc' = [pc EXCEPT ![j] = "usage"]
        /\ source' = [source EXCEPT ![j] = s] /\ own' = [own EXCEPT ![j] = pages[s]]
        /\ status' = [status EXCEPT ![j] = "none"]
    BY <1>1 DEF ReadOwnPages, Goto
  <2>6. s # NoSource /\ pages[s] \in 0..Limit
    BY <2>5, ConstantsAssumption DEF JobsOK, TableOK
  <2>7. found[j] = {}
    BY <2>5 DEF JobsOK, JobOK
  <2>8. /\ pc' \in [Job -> {"none", "queued"} \cup Asking \cup Running]
        /\ source' \in [Job -> Source \cup {NoSource}]
        /\ own' \in [Job -> 0..Limit]
        /\ status' \in [Job -> {"none", "queued", "scraping", "indexing", "done", "failed"}]
    BY <2>5, <2>6 DEF JobsOK, Asking
  <2>9. remaining' = remaining /\ found' = found
    BY <2>1
  <2>10. JobOK(j)'
    <3>1. pc'[j] = "usage" /\ source'[j] = s
      BY <2>5 DEF JobsOK
    <3>2. found'[j] = {} /\ Cardinality(found'[j]) <= remaining'[j]
      BY <2>7, <2>9 DEF JobsOK, JobOK
    <3>3. QED
      BY <3>1, <3>2, <2>6 DEF JobOK, UnderWay
  <2>11. JobsOK'
    BY <2>5, <2>8, <2>9, <2>10, OneJobType DEF JobsOK
  <2>12. QED
    BY <2>2, <2>3, <2>4, <2>11
<1>2. ASSUME ReadUsage(j)
      PROVE  TypeOK'
  <2>1. UNCHANGED <<table, vectors, status, deletes, overlapped, unsettled, mishaps>>
    BY <1>2 DEF ReadUsage
  <2>2. TableOK' /\ IndexOK' /\ DeletesOK'
    BY <2>1 DEF table, deletes, TableOK, IndexOK, DeletesOK
  <2>3. CASE UsedByOthers(j) >= Limit
    <3>1. End(j) /\ status' \in [Job -> {"none", "queued", "scraping", "indexing", "done", "failed"}]
      BY <1>2, <2>1, <2>3 DEF ReadUsage, JobsOK
    <3>2. JobsOK'
      BY <3>1, EndType
    <3>3. QED
      BY <2>1, <2>2, <3>2
  <2>4. CASE ~(UsedByOthers(j) >= Limit)
    <3>1. /\ pc[j] = "usage" /\ pc' = [pc EXCEPT ![j] = "store"]
          /\ remaining' = [remaining EXCEPT ![j] = Limit - UsedByOthers(j)]
          /\ UNCHANGED <<source, own, found>>
      BY <1>2, <2>4 DEF ReadUsage, Goto
    <3>2. /\ pc' \in [Job -> {"none", "queued"} \cup Asking \cup Running]
          /\ remaining' \in [Job -> 0..Limit]
      BY <3>1, <2>4, UsedByOthersIsBounded DEF JobsOK, Asking
    <3>3. found'[j] = {} /\ remaining'[j] \in Nat
      BY <3>1, <3>2, ConstantsAssumption DEF JobsOK, JobOK, Asking
    <3>4. pc'[j] = "store" /\ source'[j] # NoSource
      BY <3>1 DEF JobsOK, JobOK, UnderWay
    <3>5. JobOK(j)'
      BY <3>3, <3>4, FS_EmptySet DEF JobOK, UnderWay
    <3>6. JobsOK'
      BY <2>1, <3>1, <3>2, <3>5, OneJobType DEF JobsOK
    <3>7. QED
      BY <2>1, <2>2, <3>6
  <2>5. QED
    BY <2>3, <2>4
<1>3. ASSUME UpsertSource(j)
      PROVE  TypeOK'
  <2>1. UNCHANGED <<vectors, status, source, own, remaining, found, deletes, overlapped, unsettled, mishaps>>
    BY <1>3 DEF UpsertSource
  <2>2. IndexOK' /\ DeletesOK'
    BY <2>1 DEF deletes, IndexOK, DeletesOK
  <2>3. pc[j] = "store" /\ UnderWay(j) /\ source[j] \in Source /\ found[j] = {}
    BY <1>3 DEF UpsertSource, UnderWay, JobsOK, JobOK, Asking
  <2>4. TableOK'
    BY <1>3, <2>3 DEF UpsertSource, TableOK, JobsOK
  <2>5. JobsOK'
    BY <1>3, <2>1, <2>3, StepType DEF UpsertSource, JobsOK, Asking
  <2>6. QED
    BY <2>1, <2>2, <2>4, <2>5
<1>4. ASSUME InsertJob(j)
      PROVE  TypeOK'
  <2>1. UNCHANGED <<table, vectors, source, own, remaining, found, deletes, overlapped, unsettled, mishaps>>
    BY <1>4 DEF InsertJob
  <2>2. TableOK' /\ IndexOK' /\ DeletesOK'
    BY <2>1 DEF table, deletes, TableOK, IndexOK, DeletesOK
  <2>3. UnderWay(j) /\ Goto(j, "queued") /\ found[j] = {}
    BY <1>4 DEF InsertJob, UnderWay, JobsOK, JobOK, Asking
  <2>4. status' \in [Job -> {"none", "queued", "scraping", "indexing", "done", "failed"}]
    BY <1>4 DEF InsertJob, JobsOK
  <2>5. JobsOK'
    BY <2>1, <2>3, <2>4, StepType
  <2>6. QED
    BY <2>1, <2>2, <2>5
<1>5. ASSUME ScrapeFails(j)
      PROVE  TypeOK'
  <2>1. UNCHANGED <<table, vectors, status, deletes, overlapped, unsettled, mishaps>> /\ End(j)
    BY <1>5 DEF ScrapeFails
  <2>2. TableOK' /\ IndexOK' /\ DeletesOK'
    BY <2>1 DEF table, deletes, TableOK, IndexOK, DeletesOK
  <2>3. JobsOK'
    BY <2>1, EndType DEF JobsOK
  <2>4. QED
    BY <2>1, <2>2, <2>3
<1>6. QED
  BY <1>1, <1>2, <1>3, <1>4, <1>5 DEF Scrape

\* What a step of a job leaves alone when it reads and writes nothing else.
LEMMA RunScrapeJobType ==
  ASSUME TypeOK, NEW j \in Job, RunScrapeJob(j)
  PROVE  TypeOK'
<1> DEFINE Statuses == {"none", "queued", "scraping", "indexing", "done", "failed"}
<1> USE DEF TypeOK
<1>a. source[j] \in Source /\ UnderWay(j)
  BY DEF RunScrapeJob, Acquire, CrawlWebsite, CrawlFails, CleanSource, CleanSourceFails, CleanURL,
         Upsert, UpsertFails, CountPages, Finish, JobsOK, JobOK, UnderWay
<1>b. status \in [Job -> Statuses]
  BY DEF JobsOK
<1>1. ASSUME Acquire(j)
      PROVE  TypeOK'
  <2>1. /\ UNCHANGED <<table, vectors, source, own, remaining, found, deletes, overlapped, unsettled>>
        /\ pc[j] = "queued" /\ Goto(j, "crawl") /\ UpdateScrapeJob(j, "scraping")
    BY <1>1 DEF Acquire
  <2>2. TableOK' /\ IndexOK' /\ DeletesOK'
    BY <2>1 DEF table, deletes, TableOK, IndexOK, DeletesOK
  <2>3. status' \in [Job -> Statuses] /\ mishaps' \in 0..MaxMishaps
    BY <2>1, UpdateType
  <2>4. found[j] = {}
    BY <2>1 DEF JobsOK, JobOK
  <2>5. JobsOK'
    BY <1>a, <2>1, <2>3, <2>4, StepType DEF Running
  <2>6. QED
    BY <2>1, <2>2, <2>3, <2>5
<1>2. ASSUME CrawlWebsite(j)
      PROVE  TypeOK'
  <2>1. /\ UNCHANGED <<table, vectors, source, own, remaining, deletes, overlapped, unsettled>>
        /\ pc' = [pc EXCEPT ![j] = "clean"] /\ UpdateScrapeJob(j, "indexing")
    BY <1>2 DEF CrawlWebsite, Goto
  <2>2. TableOK' /\ IndexOK' /\ DeletesOK'
    BY <2>1 DEF table, deletes, TableOK, IndexOK, DeletesOK
  <2>3. status' \in [Job -> Statuses] /\ mishaps' \in 0..MaxMishaps
    BY <2>1, UpdateType
  <2>4. PICK P \in SUBSET Site[source[j]] :
          Cardinality(P) <= remaining[j] /\ found' = [found EXCEPT ![j] = P]
    BY <1>2 DEF CrawlWebsite
  <2>5. P \in SUBSET Page
    BY <1>a, <2>4, ConstantsAssumption
  <2>6. pc'[j] = "clean" /\ found'[j] = P /\ remaining'[j] = remaining[j] /\ source'[j] = source[j]
    BY <2>1, <2>4 DEF JobsOK
  <2>7. JobOK(j)'
    BY <1>a, <2>4, <2>6 DEF JobsOK, JobOK, UnderWay, Asking
  <2>8. /\ pc' \in [Job -> {"none", "queued"} \cup Asking \cup Running]
        /\ found' \in [Job -> SUBSET Page]
    BY <2>1, <2>4, <2>5 DEF JobsOK, Running
  <2>9. JobsOK'
    BY <2>1, <2>3, <2>4, <2>7, <2>8, OneJobType DEF JobsOK
  <2>10. QED
    BY <2>1, <2>2, <2>3, <2>9
<1>3. ASSUME CrawlFails(j)
      PROVE  TypeOK'
  <2>1. UNCHANGED <<table, vectors, status, source, own, remaining, found, deletes, overlapped,
                    unsettled, mishaps>> /\ Goto(j, "fail")
    BY <1>3 DEF CrawlFails
  <2>2. TableOK' /\ IndexOK' /\ DeletesOK'
    BY <2>1 DEF table, deletes, TableOK, IndexOK, DeletesOK
  <2>3. JobsOK'
    BY <1>a, <1>b, <2>1, StepType DEF Running
  <2>4. QED
    BY <2>1, <2>2, <2>3
<1>4. ASSUME CleanSource(j) \/ CleanSourceFails(j) \/ CleanURL(j) \/ Upsert(j) \/ UpsertFails(j)
      PROVE  TypeOK'
  <2>1. /\ UNCHANGED <<table, status, source, own, remaining, found, deletes, overlapped>>
        /\ \E what \in Running \ {"crawl"} : Goto(j, what)
    BY <1>4 DEF CleanSource, CleanSourceFails, CleanURL, Upsert, UpsertFails, Running
  <2>2. TableOK' /\ DeletesOK'
    BY <2>1 DEF table, deletes, TableOK, DeletesOK
  <2>3. JobsOK'
    BY <1>a, <1>b, <2>1, StepType
  <2>4. unsettled' \in SUBSET Source
    BY <1>4, <1>a DEF CleanSource, CleanSourceFails, CleanURL, Upsert, UpsertFails, Disturb
  <2>5. mishaps' \in 0..MaxMishaps
    BY <1>4, MishapType DEF CleanSource, CleanSourceFails, CleanURL, Upsert, UpsertFails
  <2>6. /\ vectors' \in [Source -> SUBSET Page]
        /\ \A s \in Source : vectors'[s] \subseteq vectors[s] \cup (IF s = source[j] THEN found[j] ELSE {})
    <3>1. found[j] \in SUBSET Page
      BY DEF JobsOK
    <3>2. CASE CleanSource(j) \/ CleanSourceFails(j)
      BY <1>a, <3>2 DEF CleanSource, CleanSourceFails, IndexOK
    <3>3. CASE CleanURL(j)
      BY <1>a, <3>3 DEF CleanURL, WithoutURL, IndexOK
    <3>4. CASE Upsert(j)
      <4>1. PICK P \in SUBSET found[j] : vectors' = [vectors EXCEPT ![source[j]] = @ \cup P]
        BY <3>4 DEF Upsert
      <4>2. QED
        BY <1>a, <3>1, <4>1 DEF IndexOK
    <3>5. CASE UpsertFails(j)
      BY <1>a, <3>1, <3>5 DEF UpsertFails, IndexOK
    <3>6. QED
      BY <1>4, <3>2, <3>3, <3>4, <3>5
  <2>7. IndexOK'
    BY <1>a, <2>6 DEF IndexOK, JobsOK, JobOK
  <2>8. QED
    BY <2>1, <2>2, <2>3, <2>4, <2>5, <2>7
<1>5. ASSUME CountPages(j)
      PROVE  TypeOK'
  <2>1. UNCHANGED <<rows, vectors, status, source, own, remaining, found, deletes, overlapped>>
        /\ Goto(j, "succeed")
    BY <1>5 DEF CountPages
  <2>2. IndexOK' /\ DeletesOK'
    BY <2>1 DEF deletes, IndexOK, DeletesOK
  <2>3. Cardinality(found[j]) \in 0..Limit
    <3>1. Cardinality(found[j]) \in Nat
      BY <1>a, PagesAreFinite DEF JobsOK, JobOK
    <3>2. Cardinality(found[j]) <= remaining[j] /\ remaining[j] \in 0..Limit
      BY DEF JobsOK, JobOK
    <3>3. QED
      BY <3>1, <3>2, ConstantsAssumption
  <2>4. TableOK'
    BY <1>5, <1>a, <2>1, <2>3 DEF CountPages, TableOK
  <2>5. JobsOK'
    BY <1>a, <1>b, <2>1, StepType DEF Running
  <2>6. unsettled' \in SUBSET Source
    BY <1>5, <1>a DEF CountPages, Disturb
  <2>7. mishaps' \in 0..MaxMishaps
    BY <1>5, MishapType DEF CountPages
  <2>8. QED
    BY <2>1, <2>2, <2>4, <2>5, <2>6, <2>7
<1>6. ASSUME Finish(j)
      PROVE  TypeOK'
  <2>1. UNCHANGED <<table, vectors, deletes, overlapped, unsettled>> /\ End(j)
    BY <1>6 DEF Finish
  <2>2. TableOK' /\ IndexOK' /\ DeletesOK'
    BY <2>1 DEF table, deletes, TableOK, IndexOK, DeletesOK
  <2>3. UpdateScrapeJob(j, "done") \/ UpdateScrapeJob(j, "failed")
    BY <1>6 DEF Finish
  <2>4. status' \in [Job -> Statuses] /\ mishaps' \in 0..MaxMishaps
    BY <2>3, UpdateType
  <2>5. JobsOK'
    BY <2>1, <2>4, EndType
  <2>6. QED
    BY <2>1, <2>2, <2>4, <2>5
<1>7. QED
  BY <1>1, <1>2, <1>3, <1>4, <1>5, <1>6 DEF RunScrapeJob

LEMMA DeleteType ==
  ASSUME TypeOK, NEW d \in Deleter, Delete(d)
  PROVE  TypeOK'
<1> USE DEF TypeOK
<1>1. JobsOK'
  BY DEF Delete, DeleteSource, DeleteSourceURL, DeleteAllSources, DeleteRows, jobs, JobsOK, JobOK, UnderWay
<1>2. ASSUME NEW S \in SUBSET Source, NEW next \in {"url", "row"}, BeginDelete(d, S, next)
      PROVE  DeletesOK'
  BY <1>2 DEF BeginDelete, DeletesOK
<1>3. ASSUME EndDelete(d)
      PROVE  DeletesOK'
  BY <1>3 DEF EndDelete, DeletesOK
<1>4. ASSUME \/ UNCHANGED vectors
             \/ \E s \in Source : vectors' = [vectors EXCEPT ![s] = {}]
             \/ vectors' = [s \in Source |-> {}]
             \/ \E s \in Source : vectors' = WithoutURL(s)
      PROVE  IndexOK'
  BY <1>4 DEF IndexOK, WithoutURL
<1>5. ASSUME NEW s \in Source, DeleteSource(d, s)
      PROVE  TypeOK'
  <2>1. UNCHANGED <<table, jobs, overlapped>> /\ TableOK'
    BY <1>5 DEF DeleteSource, TableOK, table
  <2>2. IndexOK'
    BY <1>4, <1>5 DEF DeleteSource
  <2>3. unsettled' \in SUBSET Source /\ mishaps' \in 0..MaxMishaps
    BY <1>5, MishapType DEF DeleteSource, Disturb
  <2>4. DeletesOK'
    BY <1>2, <1>5 DEF DeleteSource, deletes, DeletesOK
  <2>5. QED
    BY <1>1, <2>1, <2>2, <2>3, <2>4
<1>6. ASSUME DeleteSourceURL(d)
      PROVE  TypeOK'
  <2>1. UNCHANGED <<table, jobs, deleting, overlapped, unsettled>> /\ TableOK'
    BY <1>6 DEF DeleteSourceURL, TableOK, table
  <2>2. IndexOK'
    BY <1>4, <1>6 DEF DeleteSourceURL, DeletesOK
  <2>3. mishaps' \in 0..MaxMishaps
    BY <1>6, MishapType DEF DeleteSourceURL
  <2>4. DeletesOK'
    BY <1>6 DEF DeleteSourceURL, DeletesOK
  <2>5. QED
    BY <1>1, <2>1, <2>2, <2>3, <2>4
<1>7. ASSUME DeleteAllSources(d)
      PROVE  TypeOK'
  <2>1. UNCHANGED <<table, jobs, overlapped>> /\ TableOK'
    BY <1>7 DEF DeleteAllSources, TableOK, table
  <2>2. IndexOK'
    BY <1>4, <1>7 DEF DeleteAllSources
  <2>3. unsettled' \in SUBSET Source /\ mishaps' \in 0..MaxMishaps
    BY <1>7, MishapType DEF DeleteAllSources, Disturb
  <2>4. DeletesOK'
    BY <1>2, <1>7 DEF DeleteAllSources, deletes, DeletesOK
  <2>5. QED
    BY <1>1, <2>1, <2>2, <2>3, <2>4
<1>8. ASSUME DeleteRows(d)
      PROVE  TypeOK'
  <2>1. UNCHANGED <<vectors, jobs>> /\ IndexOK' /\ DeletesOK'
    BY <1>3, <1>4, <1>8 DEF DeleteRows
  <2>2. TableOK'
    BY <1>8, ConstantsAssumption DEF DeleteRows, TableOK, table
  <2>3. overlapped' \in BOOLEAN
    BY <1>8 DEF DeleteRows
  <2>4. unsettled' \in SUBSET Source /\ mishaps' \in 0..MaxMishaps
    BY <1>8, MishapType DEF DeleteRows, Disturb, DeletesOK
  <2>5. QED
    BY <1>1, <2>1, <2>2, <2>3, <2>4
<1>9. QED
  BY <1>5, <1>6, <1>7, <1>8 DEF Delete

LEMMA EmptyIsSmall == Cardinality({}) <= 0
<1>1. Cardinality({}) = 0
  BY FS_EmptySet
<1>2. QED
  BY <1>1

\* Every reachable state of the sources, the jobs, the deletions and the index
\* is well typed; a job never finds more pages than it was allowed.
THEOREM TypeCorrect == Spec => []TypeOK
<1>1. Init => TypeOK
  <2> SUFFICES ASSUME Init
               PROVE  TypeOK
    OBVIOUS
  <2>1. TableOK /\ IndexOK
    BY ConstantsAssumption DEF Init, TableOK, IndexOK
  <2>2. ASSUME NEW j \in Job
        PROVE  JobOK(j)
    <3>1. pc[j] = "none" /\ source[j] = NoSource /\ found[j] = {} /\ remaining[j] = 0
      BY DEF Init
    <3>2. QED
      BY <3>1, EmptyIsSmall DEF JobOK, UnderWay
  <2>3. JobsOK
    <3>1. /\ status \in [Job -> {"none", "queued", "scraping", "indexing", "done", "failed"}]
          /\ pc \in [Job -> {"none", "queued"} \cup Asking \cup Running]
          /\ source \in [Job -> Source \cup {NoSource}]
          /\ found \in [Job -> SUBSET Page]
      BY DEF Init
    <3>2. own \in [Job -> 0..Limit] /\ remaining \in [Job -> 0..Limit]
      BY ConstantsAssumption DEF Init
    <3>3. QED
      BY <2>2, <3>1, <3>2 DEF JobsOK
  <2>4. DeletesOK
    BY DEF Init, DeletesOK
  <2>5. overlapped \in BOOLEAN /\ unsettled \in SUBSET Source /\ mishaps \in 0..MaxMishaps
    <3>1. overlapped \in BOOLEAN
      BY DEF Init
    <3>2. unsettled = {} /\ mishaps = 0 /\ MaxMishaps \in Nat
      BY ConstantsAssumption DEF Init
    <3>3. unsettled \in SUBSET Source /\ mishaps \in 0..MaxMishaps
      BY <3>2
    <3>4. QED
      BY <3>1, <3>3
  <2>6. QED
    BY <2>1, <2>3, <2>4, <2>5 DEF TypeOK
<1>2. TypeOK /\ [Next]_vars => TypeOK'
  <2> SUFFICES ASSUME TypeOK, [Next]_vars
               PROVE  TypeOK'
    OBVIOUS
  <2>1. ASSUME Crash
        PROVE  TypeOK'
    <3>1. UNCHANGED <<table, vectors, status, overlapped>>
      BY <2>1 DEF Crash
    <3>2. TableOK' /\ IndexOK'
      BY <3>1 DEF TypeOK, TableOK, IndexOK, table
    <3>3. DeletesOK'
      BY <2>1 DEF Crash, DeletesOK
    <3>4. unsettled' \in SUBSET Source /\ mishaps' \in 0..MaxMishaps
      BY <2>1, MishapType DEF Crash, Disturb, TypeOK
    <3>5. \A j \in Job : /\ pc'[j] = "none" /\ source'[j] = NoSource
                         /\ found'[j] = {} /\ remaining'[j] = 0
      BY <2>1 DEF Crash
    <3>6. ASSUME NEW j \in Job
          PROVE  JobOK(j)'
      BY <3>5, EmptyIsSmall DEF JobOK, UnderWay
    <3>7. JobsOK'
      <4>1. /\ pc' = [j \in Job |-> "none"] /\ source' = [j \in Job |-> NoSource]
            /\ own' = [j \in Job |-> 0] /\ remaining' = [j \in Job |-> 0]
            /\ found' = [j \in Job |-> {}]
        BY <2>1 DEF Crash
      <4>2. status' = status
        BY <3>1
      <4>3. QED
        BY <4>1, <4>2, <3>6, ConstantsAssumption DEF TypeOK, JobsOK
    <3>8. QED
      BY <3>1, <3>2, <3>3, <3>4, <3>7 DEF TypeOK
  <2>2. CASE UNCHANGED vars
    BY <2>2 DEF vars, table, jobs, deletes, TypeOK, TableOK, IndexOK, JobsOK, JobOK, DeletesOK, UnderWay
  <2>3. QED
    BY <2>1, <2>2, ScrapeType, RunScrapeJobType, DeleteType DEF Next
<1>3. QED
  BY <1>1, <1>2, PTL DEF Spec

-------------------------------------------------------------------------------
(***************************************************************************)
(* The page quota.                                                         *)
(***************************************************************************)

\* Nobody counts more, and no job moves to where it may count more.
LEMMA QuotaUndisturbed ==
  ASSUME TypeOK, TypeOK', QuotaKept, ~overlapped' => ~overlapped,
         \A s \in Source : pages'[s] <= pages[s],
         \A j \in Job : pc'[j] # "none" =>
           /\ pc[j] # "none"
           /\ source'[j] = source[j] /\ own'[j] = own[j] /\ remaining'[j] = remaining[j]
           /\ pc'[j] = "usage" <=> pc[j] = "usage"
           /\ pc'[j] = "store" => pc[j] = "store",
         ~overlapped' => \A j \in Job : pc'[j] = "usage" => pages'[source[j]] = pages[source[j]]
  PROVE  QuotaKept'
<1> SUFFICES ASSUME ~overlapped'
             PROVE  TotalPages' <= Limit /\ \A j \in Job : UnderWay(j)' => KeepsQuota(j)'
  BY DEF QuotaKept
<1>1. /\ pages \in [Source -> Nat] /\ pages' \in [Source -> Nat]
      /\ Limit \in Nat
  BY ConstantsAssumption DEF TypeOK, TableOK
<1>2. \A S \in SUBSET Source : Cardinality(Counted(S, pages')) <= Cardinality(Counted(S, pages))
  BY <1>1, CountedGrows
<1>3. \A S \in SUBSET Source :
        Cardinality(Counted(S, pages)) \in Nat /\ Cardinality(Counted(S, pages')) \in Nat
  BY CountedIsFinite
<1>4. TotalPages' <= Limit
  BY <1>1, <1>2, <1>3 DEF QuotaKept, TotalPages
<1>5. ASSUME NEW j \in Job, UnderWay(j)'
      PROVE  KeepsQuota(j)'
  <2>1. UnderWay(j) /\ KeepsQuota(j)
    BY <1>5 DEF UnderWay, QuotaKept
  <2>2. source'[j] = source[j] /\ own'[j] = own[j] /\ remaining'[j] = remaining[j]
    BY <1>5 DEF UnderWay
  <2>3. \A k \in Job : UnderWay(k)' => k = j
    BY <2>1 DEF KeepsQuota, UnderWay
  <2>4. pc'[j] = "usage" => own'[j] = pages'[source'[j]]
    BY <1>5, <2>1, <2>2 DEF KeepsQuota, UnderWay
  <2>5. pc'[j] = "store" => own'[j] <= remaining'[j]
    BY <1>5, <2>1, <2>2 DEF KeepsQuota, UnderWay
  <2>6. pc'[j] # "usage" => OthersOf(j)' + remaining'[j] <= Limit
    <3>1. SUFFICES ASSUME pc'[j] # "usage"
                   PROVE  OthersOf(j)' + remaining'[j] <= Limit
      OBVIOUS
    <3>2. OthersOf(j) + remaining[j] <= Limit
      BY <1>5, <2>1, <3>1 DEF KeepsQuota, UnderWay
    <3>3. OthersOf(j)' <= OthersOf(j) /\ OthersOf(j) \in Nat /\ OthersOf(j)' \in Nat
      BY <1>2, <1>3, <2>2 DEF OthersOf
    <3>4. remaining[j] \in Nat
      BY ConstantsAssumption DEF TypeOK, JobsOK
    <3>5. QED
      BY <1>1, <2>2, <3>2, <3>3, <3>4
  <2>7. QED
    BY <2>3, <2>4, <2>5, <2>6 DEF KeepsQuota
<1>6. QED
  BY <1>4, <1>5

\* The only job under way counts n pages of its source.
LEMMA QuotaRecounted ==
  ASSUME TypeOK, NEW j \in Job, UnderWay(j), NEW n \in 0..Limit, OthersOf(j) + n <= Limit,
         pages' = [pages EXCEPT ![source[j]] = n], source' = source
  PROVE  TotalPages' <= Limit /\ OthersOf(j)' = OthersOf(j)
<1>1. source[j] \in Source /\ pages \in [Source -> 0..Limit] /\ pages' \in [Source -> 0..Limit]
  BY DEF TypeOK, TableOK, JobsOK, JobOK
<1>2. \A s \in Source \ {source[j]} : pages'[s] = pages[s]
  BY <1>1
<1>3. Counted(Source \ {source[j]}, pages') = Counted(Source \ {source[j]}, pages)
  BY <1>2 DEF Counted
<1>4. OthersOf(j)' = OthersOf(j)
  BY <1>3 DEF OthersOf
<1>5. TotalPages' = OthersOf(j) + n
  BY <1>1, <1>3, CountedSplits DEF TotalPages, OthersOf
<1>6. QED
  BY <1>4, <1>5

LEMMA QuotaInduction == Spec => []QuotaKept
<1>1. Init => QuotaKept
  <2> SUFFICES ASSUME Init
               PROVE  TotalPages <= Limit /\ \A j \in Job : ~UnderWay(j)
    BY DEF QuotaKept
  <2>1. \A j \in Job : ~UnderWay(j)
    BY DEF Init, UnderWay
  <2>2. \A s \in Source : pages[s] = 0
    BY DEF Init
  <2>3. Counted(Source, pages) = {}
    BY <2>2, ConstantsAssumption DEF Counted
  <2>4. TotalPages = 0
    BY <2>3, FS_EmptySet DEF TotalPages
  <2>5. QED
    BY <2>1, <2>4, ConstantsAssumption
<1>2. TypeOK /\ TypeOK' /\ QuotaKept /\ [Next]_vars => QuotaKept'
  <2> SUFFICES ASSUME TypeOK, TypeOK', QuotaKept, [Next]_vars
               PROVE  QuotaKept'
    OBVIOUS
  <2>a. /\ pages \in [Source -> Nat] /\ pages' \in [Source -> Nat] /\ Limit \in Nat
        /\ own \in [Job -> Nat] /\ remaining \in [Job -> Nat]
    BY ConstantsAssumption DEF TypeOK, TableOK, JobsOK
  <2>b. UNCHANGED pages => \A s \in Source : pages'[s] <= pages[s]
    BY <2>a
  <2>c. pc \in [Job -> {"none", "queued"} \cup Asking \cup Running]
    BY DEF TypeOK, JobsOK
  <2>1. ASSUME NEW j \in Job, NEW s \in Source, ReadOwnPages(j, s)
        PROVE  QuotaKept'
    <3> SUFFICES ASSUME ~overlapped'
                 PROVE  TotalPages' <= Limit /\ \A k \in Job : UnderWay(k)' => KeepsQuota(k)'
      BY DEF QuotaKept
    <3>1. ~overlapped /\ \A k \in Job : ~UnderWay(k)
      BY <2>1 DEF ReadOwnPages
    <3>2. TotalPages' <= Limit
      BY <2>1, <3>1 DEF ReadOwnPages, QuotaKept, TotalPages, table
    <3>3. \A k \in Job : UnderWay(k)' => k = j
      BY <2>1, <3>1 DEF ReadOwnPages, Goto, UnderWay
    <3>4. pc'[j] = "usage" /\ own'[j] = pages'[source'[j]]
      BY <2>1 DEF ReadOwnPages, Goto, TypeOK, JobsOK, table
    <3>5. QED
      BY <3>2, <3>3, <3>4 DEF KeepsQuota
  <2>2. ASSUME NEW j \in Job, ReadUsage(j), ~(UsedByOthers(j) >= Limit)
        PROVE  QuotaKept'
    <3> SUFFICES ASSUME ~overlapped'
                 PROVE  TotalPages' <= Limit /\ \A k \in Job : UnderWay(k)' => KeepsQuota(k)'
      BY DEF QuotaKept
    <3>1. /\ pc[j] = "usage" /\ pc' = [pc EXCEPT ![j] = "store"]
          /\ remaining' = [remaining EXCEPT ![j] = Limit - UsedByOthers(j)]
          /\ UNCHANGED <<source, own, found, pages, overlapped>>
      BY <2>2 DEF ReadUsage, Goto, table
    <3>2. /\ UnderWay(j) /\ TotalPages <= Limit /\ \A k \in Job : UnderWay(k) => k = j
          /\ own[j] = pages[source[j]] /\ source[j] \in Source
      BY <3>1 DEF QuotaKept, KeepsQuota, UnderWay, TypeOK, JobsOK, JobOK
    <3>3. TotalPages = OthersOf(j) + own[j] /\ OthersOf(j) \in Nat
      BY <3>2, CountedSplits, CountedIsFinite DEF TotalPages, OthersOf, TypeOK, TableOK
    <3>4. UsedByOthers(j) = OthersOf(j)
      BY <3>3, <2>a DEF UsedByOthers
    <3>5. remaining'[j] = Limit - OthersOf(j) /\ own'[j] = own[j] /\ own[j] \in Nat
      BY <3>1, <3>4, <2>a
    <3>6. OthersOf(j)' = OthersOf(j) /\ TotalPages' = TotalPages
      BY <3>1 DEF OthersOf, TotalPages
    <3>7. own'[j] <= remaining'[j] /\ OthersOf(j)' + remaining'[j] <= Limit
      BY <3>2, <3>3, <3>5, <3>6, <2>a
    <3>8. pc'[j] = "store" /\ \A k \in Job : UnderWay(k)' => k = j
      BY <3>1, <3>2, <2>c DEF UnderWay
    <3>9. QED
      BY <3>2, <3>6, <3>7, <3>8 DEF KeepsQuota
  <2>3. ASSUME NEW j \in Job, UpsertSource(j)
        PROVE  QuotaKept'
    <3>1. /\ pc[j] = "store" /\ pc' = [pc EXCEPT ![j] = "insert"]
          /\ UNCHANGED <<source, own, remaining, overlapped>>
          /\ pages' = IF source[j] \in rows THEN pages ELSE [pages EXCEPT ![source[j]] = own[j]]
      BY <2>3 DEF UpsertSource, Goto
    <3>2. CASE source[j] \in rows
      <4>1. UNCHANGED pages
        BY <3>1, <3>2
      <4>2. QED
        BY <3>1, <4>1, <2>b, <2>c, QuotaUndisturbed
    <3>3. CASE source[j] \notin rows /\ ~overlapped'
      <4>1. /\ UnderWay(j) /\ \A k \in Job : UnderWay(k) => k = j
            /\ own[j] <= remaining[j] /\ OthersOf(j) + remaining[j] <= Limit
        BY <3>1, <3>3 DEF QuotaKept, KeepsQuota, UnderWay
      <4>2. OthersOf(j) \in Nat /\ own[j] \in 0..Limit /\ own[j] \in Nat /\ remaining[j] \in Nat
        BY CountedIsFinite, <2>a DEF OthersOf, TypeOK, JobsOK
      <4>3. OthersOf(j) + own[j] <= Limit
        BY <4>1, <4>2, <2>a
      <4>4. TotalPages' <= Limit /\ OthersOf(j)' = OthersOf(j)
        BY <3>1, <3>3, <4>1, <4>2, <4>3, QuotaRecounted
      <4>5. pc'[j] = "insert" /\ \A k \in Job : UnderWay(k)' => k = j
        BY <3>1, <4>1, <2>c DEF UnderWay
      <4>6. remaining'[j] = remaining[j]
        BY <3>1
      <4>7. QED
        BY <4>1, <4>4, <4>5, <4>6 DEF QuotaKept, KeepsQuota
    <3>4. QED
      BY <3>2, <3>3 DEF QuotaKept
  <2>4. ASSUME NEW j \in Job, CountPages(j)
        PROVE  QuotaKept'
    <3>1. /\ pc[j] = "count" /\ pc' = [pc EXCEPT ![j] = "succeed"]
          /\ UNCHANGED <<source, own, remaining, overlapped>>
          /\ \/ pages' = [pages EXCEPT ![source[j]] = Cardinality(found[j])]
             \/ UNCHANGED pages
      BY <2>4 DEF CountPages, Goto
    <3>2. CASE UNCHANGED pages
      BY <3>1, <3>2, <2>b, <2>c, QuotaUndisturbed
    <3>3. CASE pages' = [pages EXCEPT ![source[j]] = Cardinality(found[j])] /\ ~overlapped'
      <4>1. /\ UnderWay(j) /\ \A k \in Job : UnderWay(k) => k = j
            /\ OthersOf(j) + remaining[j] <= Limit
        BY <3>1, <3>3 DEF QuotaKept, KeepsQuota, UnderWay
      <4>2. /\ OthersOf(j) \in Nat /\ remaining[j] \in Nat /\ remaining[j] <= Limit
            /\ Cardinality(found[j]) \in Nat /\ Cardinality(found[j]) <= remaining[j]
        BY CountedIsFinite, PagesAreFinite, ConstantsAssumption, <3>1 DEF OthersOf, TypeOK, JobsOK, JobOK, UnderWay
      <4>3. OthersOf(j) + Cardinality(found[j]) <= Limit /\ Cardinality(found[j]) \in 0..Limit
        BY <4>1, <4>2, <2>a
      <4>4. TotalPages' <= Limit /\ OthersOf(j)' = OthersOf(j)
        BY <3>1, <3>3, <4>1, <4>3, QuotaRecounted
      <4>5. pc'[j] = "succeed" /\ \A k \in Job : UnderWay(k)' => k = j
        BY <3>1, <4>1, <2>c DEF UnderWay
      <4>6. remaining'[j] = remaining[j]
        BY <3>1
      <4>7. QED
        BY <4>1, <4>4, <4>5, <4>6 DEF QuotaKept, KeepsQuota
    <3>4. QED
      BY <3>1, <3>2, <3>3 DEF QuotaKept
  <2>5. ASSUME NEW j \in Job, End(j), UNCHANGED <<pages, overlapped>>
        PROVE  QuotaKept'
    <3>1. pc'[j] = "none" /\ \A k \in Job \ {j} : /\ pc'[k] = pc[k] /\ source'[k] = source[k]
                                               /\ own'[k] = own[k] /\ remaining'[k] = remaining[k]
      BY <2>5 DEF End, Goto, TypeOK, JobsOK
    <3>2. QED
      BY <2>5, <3>1, <2>b, QuotaUndisturbed
  <2>6. ASSUME NEW j \in Job, NEW what \in {"queued", "crawl", "clean", "url", "upsert", "count", "fail"},
               UnderWay(j), pc[j] # "usage", Goto(j, what), UNCHANGED <<pages, overlapped, source, own, remaining>>
        PROVE  QuotaKept'
    <3>1. pc'[j] = what /\ \A k \in Job \ {j} : pc'[k] = pc[k]
      BY <2>6, <2>c DEF Goto
    <3>2. what # "none" /\ what # "usage" /\ what # "store"
      BY <2>6
    <3>3. QED
      BY <2>6, <3>1, <3>2, <2>b, QuotaUndisturbed DEF UnderWay
  <2>7. ASSUME NEW j \in Job, Scrape(j)
        PROVE  QuotaKept'
    <3>1. CASE ReadUsage(j) /\ UsedByOthers(j) >= Limit
      BY <3>1, <2>5 DEF ReadUsage, table
    <3>2. CASE InsertJob(j)
      BY <3>2, <2>6 DEF InsertJob, table, UnderWay
    <3>3. CASE ScrapeFails(j)
      BY <3>3, <2>5 DEF ScrapeFails, table
    <3>4. QED
      BY <2>1, <2>2, <2>3, <2>7, <3>1, <3>2, <3>3 DEF Scrape
  <2>8. ASSUME NEW j \in Job, RunScrapeJob(j)
        PROVE  QuotaKept'
    <3>1. CASE Finish(j)
      BY <3>1, <2>5 DEF Finish, table
    <3>2. CASE Acquire(j) \/ CrawlWebsite(j) \/ CrawlFails(j)
      BY <3>2, <2>6 DEF Acquire, CrawlWebsite, CrawlFails, table, UnderWay
    <3>3. CASE CleanSource(j) \/ CleanSourceFails(j) \/ CleanURL(j)
      BY <3>3, <2>6 DEF CleanSource, CleanSourceFails, CleanURL, table, UnderWay
    <3>4. CASE Upsert(j) \/ UpsertFails(j)
      BY <3>4, <2>6 DEF Upsert, UpsertFails, table, UnderWay
    <3>5. QED
      BY <2>4, <2>8, <3>1, <3>2, <3>3, <3>4 DEF RunScrapeJob
  <2>9. ASSUME NEW d \in Deleter, Delete(d)
        PROVE  QuotaKept'
    <3>1. UNCHANGED jobs
      BY <2>9 DEF Delete, DeleteSource, DeleteSourceURL, DeleteAllSources, DeleteRows
    <3>2. CASE UNCHANGED <<pages, overlapped>>
      BY <3>1, <3>2, <2>b, QuotaUndisturbed DEF jobs
    <3>3. CASE /\ pages' = [s \in Source |-> IF s \in deleting[d] THEN 0 ELSE pages[s]]
               /\ overlapped' = (overlapped \/ \E j \in Job : pc[j] = "usage" /\ source[j] \in deleting[d])
      <4>1. \A s \in Source : pages'[s] <= pages[s]
        BY <3>3, <2>a
      <4>2. ~overlapped' => ~overlapped
        BY <3>3
      <4>3. ~overlapped' => \A j \in Job : pc'[j] = "usage" => pages'[source[j]] = pages[source[j]]
        <5>1. \A j \in Job : pc[j] = "usage" => source[j] \in Source
          BY DEF TypeOK, JobsOK, JobOK, UnderWay
        <5>2. QED
          BY <3>1, <3>3, <5>1 DEF jobs
      <4>4. QED
        BY <3>1, <4>1, <4>2, <4>3, QuotaUndisturbed DEF jobs
    <3>4. QED
      BY <2>9, <3>2, <3>3 DEF Delete, DeleteSource, DeleteSourceURL, DeleteAllSources, DeleteRows, table
  <2>10. CASE Crash
    <3>1. UNCHANGED <<pages, overlapped>> /\ \A j \in Job : pc'[j] = "none"
      BY <2>10 DEF Crash, table
    <3>2. QED
      BY <3>1, <2>b, QuotaUndisturbed
  <2>11. CASE UNCHANGED vars
    BY <2>11, <2>b, QuotaUndisturbed DEF vars, table, jobs
  <2>12. QED
    BY <2>7, <2>8, <2>9, <2>10, <2>11 DEF Next
<1>3. QED
  BY <1>1, <1>2, TypeCorrect, PTL DEF Spec

\* The pages that the sources of an account count stay within the limit of its
\* plan as long as no two jobs were under way at once and no source was deleted
\* between the two reads of a request, whatever fails and whoever deletes.
THEOREM QuotaIsKept == Spec => []QuotaNeedsOverlap
<1>1. QuotaKept => QuotaNeedsOverlap
  BY DEF QuotaKept, QuotaNeedsOverlap
<1>2. QED
  BY <1>1, QuotaInduction, PTL

-------------------------------------------------------------------------------
(***************************************************************************)
(* The index and the counted pages.                                        *)
(***************************************************************************)
LEMMA SizesOfPages ==
  ASSUME NEW s \in Source, NEW P \in SUBSET Site[s], NEW Q \in SUBSET P
  PROVE  /\ Cardinality(P) \in Nat /\ Cardinality(Q) \in Nat
         /\ Cardinality(Q) <= Cardinality(P)
BY PagesAreFinite, FS_Subset

\* Nothing moves that concerns a source, but that pages of other sources may
\* be gone from its index.
LEMMA SourceUndisturbed ==
  ASSUME TypeOK, NEW s \in Source, SettledAgrees(s),
         s \in rows => s \in rows', pages'[s] = pages[s],
         vectors'[s] \subseteq vectors[s],
         vectors[s] \subseteq vectors'[s] \cup Shared(s),
         \A j \in Job : source[j] = s \/ source'[j] = s =>
           /\ source[j] = s /\ source'[j] = s
           /\ pc'[j] = pc[j] /\ own'[j] = own[j] /\ found'[j] = found[j],
         \A d \in Deleter : s \in deleting'[d] <=> s \in deleting[d]
  PROVE  SettledAgrees(s)'
<1>1. JobsOf(s)' = JobsOf(s) /\ DeletersOf(s)' = DeletersOf(s)
  BY DEF JobsOf, DeletersOf
<1>2. Busy(s)' <=> Busy(s)
  BY <1>1 DEF Busy
<1>3. Agrees(s) => Agrees(s)'
  <2>1. /\ vectors[s] \in SUBSET Site[s] /\ vectors'[s] \in SUBSET vectors[s]
        /\ pages[s] \in Nat
    BY ConstantsAssumption DEF TypeOK, IndexOK, TableOK
  <2>2. /\ Cardinality(vectors'[s]) <= Cardinality(vectors[s])
        /\ Cardinality(vectors'[s]) \in Nat /\ Cardinality(vectors[s]) \in Nat
    BY <2>1, SizesOfPages
  <2>3. Shared(s)' = Shared(s)
    BY DEF Shared
  <2>4. vectors'[s] \cup Shared(s) = vectors[s] \cup Shared(s)
    OBVIOUS
  <2>5. (vectors[s] \cup Shared(s))' = vectors[s] \cup Shared(s)
    BY <2>3, <2>4
  <2>6. Cardinality(vectors[s] \cup Shared(s))' = Cardinality(vectors[s] \cup Shared(s))
    BY <2>5
  <2>7. QED
    BY <2>1, <2>2, <2>6 DEF Agrees
<1>4. ASSUME NEW j \in JobsOf(s), AgreesDuring(j, s)
      PROVE  AgreesDuring(j, s)'
  <2>1. pc'[j] = pc[j] /\ own'[j] = own[j] /\ found'[j] = found[j]
    BY DEF JobsOf
  <2>2. QED
    BY <1>3, <1>4, <2>1 DEF AgreesDuring, Shared
<1>5. QED
  BY <1>1, <1>2, <1>3, <1>4 DEF SettledAgrees

\* A step of one job leaves the other sources alone.
LEMMA OthersUndisturbed ==
  ASSUME TypeOK, NEW j \in Job, NEW t \in Source, NEW s \in Source \ {t}, SettledAgrees(s),
         source[j] \in {t, NoSource}, source'[j] \in {t, NoSource},
         \A k \in Job \ {j} : /\ source'[k] = source[k] /\ pc'[k] = pc[k]
                              /\ own'[k] = own[k] /\ found'[k] = found[k],
         rows \subseteq rows', pages'[s] = pages[s], vectors'[s] \in {vectors[s], vectors[s] \ {t}},
         UNCHANGED deleting
  PROVE  SettledAgrees(s)'
<1>1. s # NoSource /\ s # t
  BY ConstantsAssumption
<1>2. vectors[s] \subseteq Site[s]
  BY DEF TypeOK, IndexOK
<1>3. vectors'[s] \subseteq vectors[s] /\ vectors[s] \subseteq vectors'[s] \cup Shared(s)
  BY <1>1, <1>2 DEF Shared
<1>4. QED
  BY <1>1, <1>3, SourceUndisturbed

\* The job that works on a settled source is alone with it.
LEMMA AloneWithSource ==
  ASSUME NEW j \in Job, NEW s \in Source, source[j] = s, SettledAgrees(s)
  PROVE  JobsOf(s) = {j} /\ DeletersOf(s) = {} /\ AgreesDuring(j, s)
BY DEF SettledAgrees, JobsOf

\* The job that is alone with a source goes on, or ends.
LEMMA StillAlone ==
  ASSUME NEW j \in Job, NEW s \in Source, JobsOf(s) = {j}, DeletersOf(s) = {},
         \A k \in Job : source'[k] = source[k], UNCHANGED deleting, AgreesDuring(j, s)'
  PROVE  SettledAgrees(s)'
<1>1. JobsOf(s)' = {j} /\ DeletersOf(s)' = {}
  BY DEF JobsOf, DeletersOf
<1>2. QED
  BY <1>1 DEF SettledAgrees, Busy

LEMMA AgreesInTheEnd ==
  ASSUME TypeOK, NEW j \in Job, NEW s \in Source, JobsOf(s) = {j}, DeletersOf(s) = {},
         End(j), UNCHANGED deleting, Agrees(s)'
  PROVE  SettledAgrees(s)'
<1>1. \A k \in Job : source'[k] # s
  BY ConstantsAssumption DEF JobsOf, End, TypeOK, JobsOK
<1>2. JobsOf(s)' = {} /\ DeletersOf(s)' = {}
  BY <1>1 DEF JobsOf, DeletersOf
<1>3. QED
  BY <1>2 DEF SettledAgrees, Busy

\* What a step leaves as it is.
LEMMA SameAgrees ==
  ASSUME NEW s \in Source, UNCHANGED <<pages, vectors>>
  PROVE  Agrees(s)' <=> Agrees(s)
BY DEF Agrees, Shared

LEMMA ScrapeAgrees ==
  ASSUME TypeOK, AllSettledAgree, NEW j \in Job, Scrape(j)
  PROVE  AllSettledAgree'
<1>a. pc \in [Job -> {"none", "queued"} \cup Asking \cup Running] /\ own \in [Job -> 0..Limit]
      /\ source \in [Job -> Source \cup {NoSource}] /\ found \in [Job -> SUBSET Page]
      /\ remaining \in [Job -> 0..Limit]
  BY DEF TypeOK, JobsOK
<1>b. pc[j] # "none" => source[j] \in Source
  BY <1>a DEF TypeOK, JobsOK, JobOK, UnderWay
<1>1. ASSUME NEW t \in Source, ReadOwnPages(j, t), NEW s \in Source \ unsettled'
      PROVE  SettledAgrees(s)'
  <2>1. /\ UNCHANGED <<rows, pages, vectors, deleting, found>>
        /\ pc' = [pc EXCEPT ![j] = "usage"] /\ source' = [source EXCEPT ![j] = t]
        /\ own' = [own EXCEPT ![j] = pages[t]] /\ source[j] = NoSource
    BY <1>1 DEF ReadOwnPages, Goto, table, deletes, TypeOK, JobsOK, JobOK, UnderWay
  <2>2. s \in Source \ unsettled /\ SettledAgrees(s) /\ (s = t => ~Busy(s))
    BY <1>1 DEF ReadOwnPages, Disturb, AllSettledAgree
  <2>3. CASE s # t
    BY <1>a, <2>1, <2>2, <2>3, OthersUndisturbed
  <2>4. CASE s = t
    <3>1. JobsOf(s)' = {j} /\ DeletersOf(s)' = {}
      BY <1>a, <2>1, <2>2, <2>4 DEF Busy, JobsOf, DeletersOf
    <3>2. Agrees(s)'
      BY <2>1, <2>2, <2>4, SameAgrees DEF SettledAgrees
    <3>3. pc'[j] = "usage" /\ own'[j] = pages'[s]
      BY <1>a, <2>1, <2>4
    <3>4. AgreesDuring(j, s)'
      BY <3>2, <3>3 DEF AgreesDuring, Running
    <3>5. QED
      BY <3>1, <3>4 DEF SettledAgrees, Busy
  <2>5. QED
    BY <2>3, <2>4
<1>2. ASSUME UNCHANGED <<rows, pages, vectors, deleting, unsettled>>, End(j), pc[j] \in Asking,
             NEW s \in Source \ unsettled'
      PROVE  SettledAgrees(s)'
  <2>1. SettledAgrees(s) /\ source[j] \in Source
    BY <1>2, <1>b DEF AllSettledAgree, Asking
  <2>2. CASE s # source[j]
    <3>1. source'[j] = NoSource
          /\ \A k \in Job \ {j} : /\ source'[k] = source[k] /\ pc'[k] = pc[k]
                                  /\ own'[k] = own[k] /\ found'[k] = found[k]
      BY <1>a, <1>2 DEF End, Goto
    <3>2. QED
      BY <1>2, <2>1, <2>2, <3>1, OthersUndisturbed
  <2>3. CASE s = source[j]
    <3>1. Agrees(s)'
      BY <1>2, <2>1, <2>3, AloneWithSource, SameAgrees DEF AgreesDuring
    <3>2. QED
      BY <1>2, <2>1, <2>3, <3>1, AloneWithSource, AgreesInTheEnd
  <2>4. QED
    BY <2>2, <2>3
<1>3. ASSUME ReadUsage(j), ~(UsedByOthers(j) >= Limit), NEW s \in Source \ unsettled'
      PROVE  SettledAgrees(s)'
  <2>1. /\ UNCHANGED <<rows, pages, vectors, deleting, found, source, own, unsettled>>
        /\ pc[j] = "usage" /\ pc' = [pc EXCEPT ![j] = "store"]
    BY <1>3 DEF ReadUsage, Goto, table, deletes
  <2>2. SettledAgrees(s) /\ source[j] \in Source
    BY <1>b, <2>1 DEF AllSettledAgree
  <2>3. CASE s # source[j]
    BY <1>a, <2>1, <2>2, <2>3, OthersUndisturbed
  <2>4. CASE s = source[j]
    <3>1. JobsOf(s) = {j} /\ DeletersOf(s) = {} /\ AgreesDuring(j, s)
      BY <2>2, <2>4, AloneWithSource
    <3>2. Agrees(s)' /\ own[j] = pages[s]
      BY <2>1, <3>1, SameAgrees DEF AgreesDuring, Asking
    <3>3. pc'[j] = "store" /\ own'[j] = pages'[s]
      BY <1>a, <2>1, <3>2
    <3>4. AgreesDuring(j, s)'
      BY <3>2, <3>3 DEF AgreesDuring, Running
    <3>5. QED
      BY <2>1, <3>1, <3>4, StillAlone
  <2>5. QED
    BY <2>3, <2>4
<1>4. ASSUME UpsertSource(j), NEW s \in Source \ unsettled'
      PROVE  SettledAgrees(s)'
  <2>1. /\ UNCHANGED <<vectors, deleting, found, source, own, unsettled>>
        /\ pc[j] = "store" /\ pc' = [pc EXCEPT ![j] = "insert"]
        /\ rows' = rows \cup {source[j]}
        /\ pages' = IF source[j] \in rows THEN pages ELSE [pages EXCEPT ![source[j]] = own[j]]
    BY <1>4 DEF UpsertSource, Goto, deletes
  <2>2. SettledAgrees(s) /\ source[j] \in Source /\ pages \in [Source -> 0..Limit]
    BY <1>b, <2>1 DEF AllSettledAgree, TypeOK, TableOK
  <2>3. CASE s # source[j]
    <3>1. pages'[s] = pages[s]
      BY <2>1, <2>2, <2>3
    <3>2. QED
      BY <1>a, <2>1, <2>2, <2>3, <3>1, OthersUndisturbed
  <2>4. CASE s = source[j]
    <3>1. JobsOf(s) = {j} /\ DeletersOf(s) = {} /\ AgreesDuring(j, s)
      BY <2>2, <2>4, AloneWithSource
    <3>2. Agrees(s) /\ own[j] = pages[s]
      BY <2>1, <3>1 DEF AgreesDuring, Asking
    <3>3. pages'[s] = pages[s] /\ s \in rows' /\ pc'[j] = "insert"
      BY <1>a, <2>1, <2>2, <2>4, <3>2
    <3>4. Agrees(s)'
      BY <2>1, <3>2, <3>3 DEF Agrees, Shared
    <3>5. AgreesDuring(j, s)'
      BY <3>3, <3>4 DEF AgreesDuring
    <3>6. QED
      BY <2>1, <3>1, <3>5, StillAlone
  <2>5. QED
    BY <2>3, <2>4
<1>5. ASSUME InsertJob(j), NEW s \in Source \ unsettled'
      PROVE  SettledAgrees(s)'
  <2>1. /\ UNCHANGED <<rows, pages, vectors, deleting, found, source, own, unsettled>>
        /\ pc[j] = "insert" /\ pc' = [pc EXCEPT ![j] = "queued"]
    BY <1>5 DEF InsertJob, Goto, table, deletes
  <2>2. SettledAgrees(s) /\ source[j] \in Source
    BY <1>b, <2>1 DEF AllSettledAgree
  <2>3. CASE s # source[j]
    BY <1>a, <2>1, <2>2, <2>3, OthersUndisturbed
  <2>4. CASE s = source[j]
    <3>1. JobsOf(s) = {j} /\ DeletersOf(s) = {} /\ AgreesDuring(j, s)
      BY <2>2, <2>4, AloneWithSource
    <3>2. Agrees(s)' /\ s \in rows'
      BY <2>1, <3>1, SameAgrees DEF AgreesDuring, Asking
    <3>3. pc'[j] = "queued"
      BY <1>a, <2>1
    <3>4. AgreesDuring(j, s)'
      BY <3>2, <3>3 DEF AgreesDuring
    <3>5. QED
      BY <2>1, <3>1, <3>4, StillAlone
  <2>5. QED
    BY <2>3, <2>4
<1>6. QED
  <2> SUFFICES ASSUME NEW s \in Source \ unsettled'
               PROVE  SettledAgrees(s)'
    BY DEF AllSettledAgree
  <2>1. CASE ReadUsage(j) /\ UsedByOthers(j) >= Limit
    BY <1>2, <2>1 DEF ReadUsage, Asking, table, deletes
  <2>2. CASE ScrapeFails(j)
    BY <1>2, <2>2 DEF ScrapeFails, table, deletes
  <2>3. QED
    BY <1>1, <1>3, <1>4, <1>5, <2>1, <2>2 DEF Scrape

LEMMA RunScrapeJobAgrees ==
  ASSUME TypeOK, AllSettledAgree, NEW j \in Job, RunScrapeJob(j)
  PROVE  AllSettledAgree'
<1> DEFINE t == source[j]
<1>a. pc \in [Job -> {"none", "queued"} \cup Asking \cup Running] /\ own \in [Job -> 0..Limit]
      /\ source \in [Job -> Source \cup {NoSource}] /\ found \in [Job -> SUBSET Page]
      /\ pages \in [Source -> 0..Limit] /\ vectors \in [Source -> SUBSET Page]
  BY DEF TypeOK, JobsOK, TableOK, IndexOK
<1>b. t \in Source
  BY DEF RunScrapeJob, Acquire, CrawlWebsite, CrawlFails, CleanSource, CleanSourceFails, CleanURL,
         Upsert, UpsertFails, CountPages, Finish, TypeOK, JobsOK, JobOK, UnderWay
\* The job steps to another place, and writes what concerns its own source.
<1>c. ASSUME NEW s \in Source \ {t}, NEW what, Goto(j, what), UNCHANGED <<rows, source, own, deleting>>,
             \A k \in Job \ {j} : found'[k] = found[k],
             pages'[s] = pages[s], vectors'[s] \in {vectors[s], vectors[s] \ {t}}, s \notin unsettled
      PROVE  SettledAgrees(s)'
  <2>1. \A k \in Job \ {j} : pc'[k] = pc[k]
    BY <1>a, <1>c DEF Goto
  <2>2. SettledAgrees(s)
    BY <1>c DEF AllSettledAgree
  <2>3. QED
    BY <1>b, <1>c, <2>1, <2>2, OthersUndisturbed
<1>d. t \notin unsettled => JobsOf(t) = {j} /\ DeletersOf(t) = {} /\ AgreesDuring(j, t)
  BY <1>b, AloneWithSource DEF AllSettledAgree
<1>1. ASSUME Acquire(j) \/ CrawlWebsite(j) \/ CrawlFails(j), NEW s \in Source \ unsettled'
      PROVE  SettledAgrees(s)'
  <2>1. /\ UNCHANGED <<rows, pages, vectors, source, own, deleting, unsettled>>
        /\ pc[j] \in {"queued", "crawl"}
        /\ \A k \in Job \ {j} : found'[k] = found[k]
        /\ \E what \in {"crawl", "clean", "fail"} : Goto(j, what)
    BY <1>1, <1>a DEF Acquire, CrawlWebsite, CrawlFails, table, deletes
  <2>2. CASE s # t
    BY <1>c, <2>1, <2>2
  <2>3. CASE s = t
    <3>1. JobsOf(s) = {j} /\ DeletersOf(s) = {} /\ AgreesDuring(j, s)
      BY <1>d, <2>1, <2>3
    <3>2. Agrees(s)' /\ s \in rows'
      BY <2>1, <3>1, SameAgrees DEF AgreesDuring, Running
    <3>3. pc'[j] \in {"crawl", "clean", "fail"}
      BY <1>a, <2>1 DEF Goto
    <3>4. AgreesDuring(j, s)'
      BY <3>2, <3>3 DEF AgreesDuring
    <3>5. QED
      BY <2>1, <3>1, <3>4, StillAlone
  <2>4. QED
    BY <2>2, <2>3
<1>2. ASSUME CleanSource(j), NEW s \in Source \ unsettled'
      PROVE  SettledAgrees(s)'
  <2>1. /\ UNCHANGED <<rows, pages, source, own, deleting, found>>
        /\ pc[j] = "clean" /\ Goto(j, "url")
        /\ vectors' = [vectors EXCEPT ![t] = {}]
        /\ unsettled' = IF t \in rows /\ JobsOf(t) = {j} /\ DeletersOf(t) = {}
                        THEN unsettled \ {t} ELSE unsettled
    BY <1>2 DEF CleanSource, table, deletes
  <2>2. CASE s # t
    <3>1. s \notin unsettled /\ vectors'[s] = vectors[s]
      BY <1>a, <2>1, <2>2
    <3>2. QED
      BY <1>c, <2>1, <2>2, <3>1
  <2>3. CASE s = t
    <3>1. JobsOf(s) = {j} /\ DeletersOf(s) = {} /\ s \in rows
      BY <1>d, <2>1, <2>3 DEF AgreesDuring, Running
    <3>2. vectors'[s] = {} /\ pc'[j] = "url"
      BY <1>a, <1>b, <2>1, <2>3 DEF Goto
    <3>3. AgreesDuring(j, s)'
      BY <2>1, <3>1, <3>2 DEF AgreesDuring, Asking
    <3>4. QED
      BY <2>1, <3>1, <3>3, StillAlone
  <2>4. QED
    BY <2>2, <2>3
<1>3. ASSUME CleanSourceFails(j) \/ UpsertFails(j), NEW s \in Source \ unsettled'
      PROVE  SettledAgrees(s)'
  <2>1. /\ UNCHANGED <<rows, pages, source, own, deleting, found>> /\ Goto(j, "fail")
        /\ s # t /\ s \notin unsettled
    BY <1>3 DEF CleanSourceFails, UpsertFails, Disturb, table, deletes
  <2>2. vectors'[s] = vectors[s]
    BY <1>3, <1>a, <2>1 DEF CleanSourceFails, UpsertFails
  <2>3. QED
    BY <1>c, <2>1, <2>2
<1>4. ASSUME CleanURL(j), NEW s \in Source \ unsettled'
      PROVE  SettledAgrees(s)'
  <2>1. /\ UNCHANGED <<rows, pages, source, own, deleting, found, unsettled>>
        /\ pc[j] = "url" /\ Goto(j, "upsert")
        /\ vectors'[s] \in {vectors[s], vectors[s] \ {t}}
    BY <1>4 DEF CleanURL, WithoutURL, table, deletes
  <2>2. CASE s # t
    BY <1>c, <2>1, <2>2
  <2>3. CASE s = t
    <3>1. JobsOf(s) = {j} /\ DeletersOf(s) = {} /\ AgreesDuring(j, s)
      BY <1>d, <2>1, <2>3
    <3>2. vectors'[s] = {} /\ s \in rows' /\ pc'[j] = "upsert"
      BY <1>a, <2>1, <3>1 DEF AgreesDuring, Running, Goto
    <3>3. AgreesDuring(j, s)'
      BY <3>2 DEF AgreesDuring, Asking
    <3>4. QED
      BY <2>1, <3>1, <3>3, StillAlone
  <2>4. QED
    BY <2>2, <2>3
<1>5. ASSUME Upsert(j), NEW s \in Source \ unsettled'
      PROVE  SettledAgrees(s)'
  <2>1. /\ UNCHANGED <<rows, pages, source, own, deleting, found>>
        /\ pc[j] = "upsert" /\ Goto(j, "count")
    BY <1>5 DEF Upsert, table, deletes
  <2>2. PICK P \in SUBSET found[j] :
          /\ vectors' = [vectors EXCEPT ![t] = @ \cup P]
          /\ IF P = found[j] THEN UNCHANGED unsettled ELSE Disturb({t})
    BY <1>5 DEF Upsert
  <2>3. s \notin unsettled /\ (s = t => P = found[j])
    BY <2>2 DEF Disturb
  <2>4. CASE s # t
    <3>1. vectors'[s] = vectors[s]
      BY <1>a, <2>2, <2>4
    <3>2. QED
      BY <1>c, <2>1, <2>3, <2>4, <3>1
  <2>5. CASE s = t
    <3>1. JobsOf(s) = {j} /\ DeletersOf(s) = {} /\ AgreesDuring(j, s)
      BY <1>d, <2>3, <2>5
    <3>2. vectors[s] = {} /\ s \in rows'
      BY <2>1, <3>1 DEF AgreesDuring, Running
    <3>3. vectors'[s] = found'[j] /\ pc'[j] = "count"
      BY <1>a, <2>1, <2>2, <2>3, <2>5, <3>2 DEF Goto
    <3>4. AgreesDuring(j, s)'
      BY <3>2, <3>3 DEF AgreesDuring, Asking
    <3>5. QED
      BY <2>1, <3>1, <3>4, StillAlone
  <2>6. QED
    BY <2>4, <2>5
<1>6. ASSUME CountPages(j), NEW s \in Source \ unsettled'
      PROVE  SettledAgrees(s)'
  <2>1. /\ UNCHANGED <<rows, vectors, source, own, deleting, found>>
        /\ pc[j] = "count" /\ Goto(j, "succeed") /\ s \notin unsettled
        /\ s # t => pages'[s] = pages[s]
        /\ s = t => pages' = IF t \in rows THEN [pages EXCEPT ![t] = Cardinality(found[j])] ELSE pages
    BY <1>6, <1>a DEF CountPages, Disturb, deletes
  <2>2. CASE s # t
    BY <1>c, <2>1, <2>2
  <2>3. CASE s = t
    <3>1. JobsOf(s) = {j} /\ DeletersOf(s) = {} /\ AgreesDuring(j, s)
      BY <1>d, <2>1, <2>3
    <3>2. /\ s \in rows /\ vectors[s] \subseteq found[j]
          /\ found[j] \subseteq vectors[s] \cup Shared(s)
      BY <2>1, <3>1 DEF AgreesDuring, Running
    <3>3. pages'[s] = Cardinality(found[j])
      BY <1>a, <2>1, <2>3, <3>2
    <3>4. vectors[s] \cup Shared(s) \in SUBSET Site[s]
      BY DEF Shared, TypeOK, IndexOK
    <3>5. found[j] \in SUBSET Site[s]
      BY <2>1, <2>3 DEF TypeOK, JobsOK, JobOK, UnderWay
    <3>6. /\ Cardinality(vectors[s]) <= Cardinality(found[j])
          /\ Cardinality(found[j]) <= Cardinality(vectors[s] \cup Shared(s))
      BY <3>2, <3>4, <3>5, SizesOfPages
    <3>7. Agrees(s)'
      BY <2>1, <3>3, <3>6 DEF Agrees, Shared
    <3>8. pc'[j] = "succeed"
      BY <1>a, <2>1 DEF Goto
    <3>9. AgreesDuring(j, s)'
      BY <2>1, <3>2, <3>7, <3>8 DEF AgreesDuring
    <3>10. QED
      BY <2>1, <3>1, <3>9, StillAlone
  <2>4. QED
    BY <2>2, <2>3
<1>7. ASSUME Finish(j), NEW s \in Source \ unsettled'
      PROVE  SettledAgrees(s)'
  <2>1. /\ UNCHANGED <<rows, pages, vectors, deleting, unsettled>>
        /\ pc[j] \in {"succeed", "fail"} /\ End(j)
    BY <1>7 DEF Finish, table, deletes
  <2>2. SettledAgrees(s)
    BY <2>1 DEF AllSettledAgree
  <2>3. CASE s # t
    <3>1. source'[j] = NoSource
          /\ \A k \in Job \ {j} : /\ source'[k] = source[k] /\ pc'[k] = pc[k]
                                  /\ own'[k] = own[k] /\ found'[k] = found[k]
      BY <1>a, <2>1 DEF End, Goto
    <3>2. QED
      BY <1>b, <2>1, <2>2, <2>3, <3>1, OthersUndisturbed
  <2>4. CASE s = t
    <3>1. JobsOf(s) = {j} /\ DeletersOf(s) = {} /\ AgreesDuring(j, s)
      BY <1>d, <2>1, <2>4
    <3>2. Agrees(s)'
      BY <2>1, <3>1, SameAgrees DEF AgreesDuring
    <3>3. QED
      BY <2>1, <3>1, <3>2, AgreesInTheEnd
  <2>5. QED
    BY <2>3, <2>4
<1>8. QED
  BY <1>1, <1>2, <1>3, <1>4, <1>5, <1>6, <1>7 DEF RunScrapeJob, AllSettledAgree

LEMMA DeleteAgrees ==
  ASSUME TypeOK, AllSettledAgree, NEW d \in Deleter, Delete(d)
  PROVE  AllSettledAgree'
<1>a. UNCHANGED <<source, pc, own, found>>
  BY DEF Delete, DeleteSource, DeleteSourceURL, DeleteAllSources, DeleteRows, jobs
<1>b. /\ deleting \in [Deleter -> SUBSET Source]
      /\ vectors \in [Source -> SUBSET Page] /\ pages \in [Source -> 0..Limit]
      /\ \A e \in Deleter : step[e] = "idle" => deleting[e] = {}
  BY DEF TypeOK, DeletesOK, TableOK, IndexOK
\* A source that this request does not delete.
<1>c. ASSUME NEW s \in Source \ unsettled, NEW t \in Source,
             s \in rows => s \in rows', pages'[s] = pages[s],
             vectors'[s] \in {vectors[s], vectors[s] \ {t}}, s # t \/ vectors[s] = {},
             \A e \in Deleter : s \in deleting'[e] <=> s \in deleting[e]
      PROVE  SettledAgrees(s)'
  <2>1. vectors'[s] \subseteq vectors[s] /\ vectors[s] \subseteq vectors'[s] \cup Shared(s)
    BY <1>c DEF Shared, TypeOK, IndexOK
  <2>2. QED
    BY <1>a, <1>c, <2>1, SourceUndisturbed DEF AllSettledAgree
\* A source whose vectors this request has just removed.
<1>d. ASSUME NEW s \in Source, JobsOf(s) = {}, vectors'[s] = {}, NEW e \in Deleter, s \in deleting'[e]
      PROVE  SettledAgrees(s)'
  <2>1. JobsOf(s)' = {} /\ DeletersOf(s)' # {}
    BY <1>a, <1>d DEF JobsOf, DeletersOf
  <2>2. QED
    BY <1>d, <2>1 DEF SettledAgrees, Busy
<1>1. ASSUME NEW t \in Source, DeleteSource(d, t), NEW s \in Source \ unsettled'
      PROVE  SettledAgrees(s)'
  <2>1. /\ UNCHANGED <<rows, pages>> /\ s \notin unsettled
        /\ s # t => vectors'[s] = vectors[s]
    BY <1>1, <1>b DEF DeleteSource, Disturb, table
  <2>2. /\ s = t => JobsOf(s) = {} /\ vectors'[s] = {} /\ s \in deleting'[d]
        /\ s # t => \A e \in Deleter : s \in deleting'[e] <=> s \in deleting[e]
    BY <1>1, <1>b DEF DeleteSource, BeginDelete, Disturb, deletes
  <2>3. QED
    BY <1>c, <1>d, <2>1, <2>2
<1>2. ASSUME DeleteSourceURL(d), NEW s \in Source \ unsettled'
      PROVE  SettledAgrees(s)'
  <2>1. UNCHANGED <<rows, pages, deleting>> /\ s \notin unsettled
    BY <1>2 DEF DeleteSourceURL, table
  <2>2. PICK t \in deleting[d] : vectors'[s] \in {vectors[s], vectors[s] \ {t}}
    BY <1>2 DEF DeleteSourceURL, WithoutURL
  <2>3. t \in Source /\ (s = t => vectors[s] = {})
    BY <1>b, <2>1, <2>2 DEF AllSettledAgree, SettledAgrees, DeletersOf
  <2>4. QED
    BY <1>c, <2>1, <2>2, <2>3
<1>3. ASSUME DeleteAllSources(d), NEW s \in Source \ unsettled'
      PROVE  SettledAgrees(s)'
  <2>1. JobsOf(s) = {} /\ vectors'[s] = {} /\ s \in deleting'[d]
    BY <1>3, <1>b DEF DeleteAllSources, BeginDelete, Disturb
  <2>2. QED
    BY <1>d, <2>1
<1>4. ASSUME DeleteRows(d), NEW s \in Source \ unsettled'
      PROVE  SettledAgrees(s)'
  <2>1. UNCHANGED vectors /\ s \notin unsettled /\ deleting' = [deleting EXCEPT ![d] = {}]
    BY <1>4 DEF DeleteRows, EndDelete, Disturb
  <2>2. CASE s \notin deleting[d]
    <3>1. (s \in rows => s \in rows') /\ pages'[s] = pages[s]
      BY <1>4, <2>2 DEF DeleteRows, table
    <3>2. \A e \in Deleter : s \in deleting'[e] <=> s \in deleting[e]
      BY <1>b, <2>1, <2>2
    <3>3. QED
      BY <1>a, <2>1, <3>1, <3>2, SourceUndisturbed DEF AllSettledAgree
  <2>3. CASE s \in deleting[d]
    <3>1. JobsOf(s) = {} /\ vectors'[s] = {}
      BY <1>b, <2>1, <2>3 DEF AllSettledAgree, SettledAgrees, DeletersOf
    <3>2. pages'[s] = 0
      BY <1>4, <2>3 DEF DeleteRows, Disturb
    <3>3. Cardinality(vectors'[s] \cup Shared(s)) \in Nat /\ Cardinality(vectors'[s]) = 0
      <4>1. vectors'[s] \cup Shared(s) \in SUBSET Site[s]
        BY <3>1 DEF Shared
      <4>2. QED
        BY <3>1, <4>1, PagesAreFinite, FS_EmptySet
    <3>4. Agrees(s)'
      BY <3>2, <3>3 DEF Agrees, Shared
    <3>5. JobsOf(s)' = {}
      BY <1>a, <3>1 DEF JobsOf
    <3>6. QED
      BY <3>1, <3>4, <3>5 DEF SettledAgrees
  <2>4. QED
    BY <2>2, <2>3
<1>5. QED
  BY <1>1, <1>2, <1>3, <1>4 DEF Delete, AllSettledAgree

LEMMA AgreementInduction == Spec => []AllSettledAgree
<1>1. Init => AllSettledAgree
  <2> SUFFICES ASSUME Init, NEW s \in Source
               PROVE  SettledAgrees(s)
    BY DEF AllSettledAgree
  <2>1. JobsOf(s) = {} /\ DeletersOf(s) = {}
    BY ConstantsAssumption DEF Init, JobsOf, DeletersOf
  <2>2. vectors[s] = {} /\ pages[s] = 0
    BY DEF Init
  <2>3. Cardinality(vectors[s] \cup Shared(s)) \in Nat /\ Cardinality(vectors[s]) = 0
    <3>1. vectors[s] \cup Shared(s) \in SUBSET Site[s]
      BY <2>2 DEF Shared
    <3>2. QED
      BY <2>2, <3>1, PagesAreFinite, FS_EmptySet
  <2>4. QED
    BY <2>1, <2>2, <2>3 DEF SettledAgrees, Busy, Agrees
<1>2. TypeOK /\ AllSettledAgree /\ [Next]_vars => AllSettledAgree'
  <2> SUFFICES ASSUME TypeOK, AllSettledAgree, [Next]_vars
               PROVE  AllSettledAgree'
    OBVIOUS
  <2>1. CASE Crash
    <3> SUFFICES ASSUME NEW s \in Source \ unsettled'
                 PROVE  SettledAgrees(s)'
      BY DEF AllSettledAgree
    <3>1. s \notin unsettled /\ ~Busy(s) /\ UNCHANGED <<pages, vectors>>
      BY <2>1 DEF Crash, Disturb, table
    <3>2. Agrees(s)'
      BY <3>1, SameAgrees DEF AllSettledAgree, SettledAgrees
    <3>3. JobsOf(s)' = {} /\ DeletersOf(s)' = {}
      BY <2>1, ConstantsAssumption DEF Crash, JobsOf, DeletersOf
    <3>4. QED
      BY <3>2, <3>3 DEF SettledAgrees
  <2>2. CASE UNCHANGED vars
    <3>1. \A s \in Source : SettledAgrees(s)' <=> SettledAgrees(s)
      BY <2>2 DEF vars, table, jobs, deletes, SettledAgrees, Busy, JobsOf, DeletersOf,
                  Agrees, AgreesDuring, Shared
    <3>2. QED
      BY <2>2, <3>1 DEF AllSettledAgree, vars
  <2>3. QED
    BY <2>1, <2>2, ScrapeAgrees, RunScrapeJobAgrees, DeleteAgrees DEF Next
<1>3. QED
  BY <1>1, <1>2, TypeCorrect, PTL DEF Spec

\* A source that was not disturbed since its last clean refresh never has more
\* pages in the index than its row counts, for any number of jobs, deletions,
\* crashes and failures elsewhere.
THEOREM IndexedIsCounted == Spec => []IndexIsCounted
<1>1. AllSettledAgree => IndexIsCounted
  BY DEF AllSettledAgree, SettledAgrees, Agrees, IndexIsCounted
<1>2. QED
  BY <1>1, AgreementInduction, PTL

\* Nor does it count more than are there, but for pages that are sources
\* themselves.
THEOREM CountedIsIndexed == Spec => []CountIsIndexed
<1>1. AllSettledAgree => CountIsIndexed
  BY DEF AllSettledAgree, SettledAgrees, Agrees, CountIsIndexed
<1>2. QED
  BY <1>1, AgreementInduction, PTL

-------------------------------------------------------------------------------
(***************************************************************************)
(* Progress: the slots, and the stages of a job that has one.              *)
(***************************************************************************)
\* What a step does to the jobs: at most one of them moves, or all end.
LEMMA OneJobMoves ==
  ASSUME [Next]_vars
  PROVE  \/ \E j \in Job : (Scrape(j) \/ RunScrapeJob(j)) /\ \E what : Goto(j, what)
         \/ Crash
         \/ UNCHANGED jobs
<1>1. ASSUME NEW j \in Job, Scrape(j) \/ RunScrapeJob(j)
      PROVE  \E what : Goto(j, what)
  BY <1>1 DEF Scrape, ReadOwnPages, ReadUsage, UpsertSource, InsertJob, ScrapeFails,
              RunScrapeJob, Acquire, CrawlWebsite, CrawlFails, CleanSource, CleanSourceFails,
              CleanURL, Upsert, UpsertFails, CountPages, Finish, End
<1>2. ASSUME NEW d \in Deleter, Delete(d)
      PROVE  UNCHANGED jobs
  BY <1>2 DEF Delete, DeleteSource, DeleteSourceURL, DeleteAllSources, DeleteRows
<1>3. QED
  BY <1>1, <1>2 DEF Next, vars

LEMMA AskingHoldsNone ==
  ASSUME NEW j \in Job, TypeOK, Scrape(j)
  PROVE  Holders' = Holders
<1> USE DEF TypeOK, JobsOK, Holders, HoldsSlot, Running, Asking
<1>1. pc[j] \notin Running
  BY DEF Scrape, ReadOwnPages, ReadUsage, UpsertSource, InsertJob, ScrapeFails
<1>2. PICK what \in {"none", "queued"} \cup Asking : pc' = [pc EXCEPT ![j] = what]
  BY DEF Scrape, ReadOwnPages, ReadUsage, UpsertSource, InsertJob, ScrapeFails, Goto, End
<1>3. QED
  BY <1>1, <1>2

\* A job that has a slot keeps it or is the only one to return its own.
LEMMA RunningHoldsOne ==
  ASSUME NEW j \in Job, TypeOK, RunScrapeJob(j)
  PROVE  \/ Acquire(j) /\ Free /\ Holders' = Holders \cup {j}
         \/ pc[j] \in {"succeed", "fail"} /\ Holders' = Holders \ {j}
         \/ pc[j] \in Running \ {"succeed", "fail"} /\ Holders' = Holders
<1> USE DEF TypeOK, JobsOK, Holders, HoldsSlot, Running
<1>1. CASE Acquire(j)
  BY <1>1 DEF Acquire, Goto, Free
<1>2. CASE Finish(j)
  BY <1>2 DEF Finish, End, Goto
<1>3. CASE ~Acquire(j) /\ ~Finish(j)
  <2>1. pc[j] \in Running \ {"succeed", "fail"}
    BY <1>3 DEF RunScrapeJob, CrawlWebsite, CrawlFails, CleanSource, CleanSourceFails,
                CleanURL, Upsert, UpsertFails, CountPages
  <2>2. PICK what \in Running : pc' = [pc EXCEPT ![j] = what]
    BY <1>3 DEF RunScrapeJob, CrawlWebsite, CrawlFails, CleanSource, CleanSourceFails,
                CleanURL, Upsert, UpsertFails, CountPages, Goto
  <2>3. QED
    BY <2>1, <2>2
<1>4. QED
  BY <1>1, <1>2, <1>3

\* No more jobs run than the channel has places, and a place is given back
\* however a job ends (RunScrapeJob).
THEOREM SlotsAreKept == Spec => []SlotsKept
<1>1. Init => SlotsKept
  <2> SUFFICES ASSUME Init PROVE SlotsKept
    OBVIOUS
  <2>1. Holders = {}
    BY DEF Init, Holders, HoldsSlot, Running
  <2>2. QED
    BY <2>1, FS_EmptySet, ConstantsAssumption DEF SlotsKept
<1>2. TypeOK /\ SlotsKept /\ [Next]_vars => SlotsKept'
  <2> SUFFICES ASSUME TypeOK, SlotsKept, [Next]_vars PROVE SlotsKept'
    OBVIOUS
  <2>1. CASE Holders' = Holders
    BY <2>1 DEF SlotsKept
  <2>2. ASSUME NEW j \in Job, RunScrapeJob(j)
        PROVE  SlotsKept'
    <3>1. CASE Free /\ Holders' = Holders \cup {j}
      <4>1. IsFiniteSet(Holders') /\ Cardinality(Holders') \in {Cardinality(Holders), Cardinality(Holders) + 1}
        BY <3>1, FS_AddElement DEF SlotsKept
      <4>2. Cardinality(Holders) \in Nat
        BY FS_CardinalityType DEF SlotsKept
      <4>3. QED
        BY <3>1, <4>1, <4>2, ConstantsAssumption DEF SlotsKept, Free
    <3>2. CASE Holders' = Holders \ {j}
      <4>1. IsFiniteSet(Holders') /\ Cardinality(Holders') <= Cardinality(Holders)
        BY <3>2, FS_Subset DEF SlotsKept
      <4>2. Cardinality(Holders) \in Nat /\ Cardinality(Holders') \in Nat
        BY <4>1, FS_CardinalityType DEF SlotsKept
      <4>3. QED
        BY <4>1, <4>2, ConstantsAssumption DEF SlotsKept
    <3>3. QED
      BY <2>1, <2>2, <3>1, <3>2, RunningHoldsOne
  <2>3. CASE Crash
    <3>1. Holders' = {}
      BY <2>3 DEF Crash, Holders, HoldsSlot, Running
    <3>2. QED
      BY <3>1, FS_EmptySet, ConstantsAssumption DEF SlotsKept
  <2>4. CASE UNCHANGED jobs
    BY <2>1, <2>4 DEF jobs, Holders, HoldsSlot
  <2>5. QED
    BY <2>1, <2>2, <2>3, <2>4, OneJobMoves, AskingHoldsNone
<1>3. QED
  BY <1>1, <1>2, TypeCorrect, PTL DEF Spec

LEMMA QueuedWaitsInduction == Spec => []QueuedWaits
<1> USE DEF QueuedWaits
<1>1. Init => QueuedWaits
  BY DEF Init
<1>2. TypeOK /\ QueuedWaits /\ [Next]_vars => QueuedWaits'
  <2> SUFFICES ASSUME TypeOK, QueuedWaits, [Next]_vars, mishaps' = 0,
                      NEW k \in Job, status'[k] = "queued"
               PROVE  pc'[k] = "queued"
    OBVIOUS
  <2> USE DEF TypeOK, JobsOK
  <2>1. mishaps = 0 /\ ~Crash
    <3>1. mishaps' = mishaps \/ mishaps' = mishaps + 1
      BY DEF Next, Scrape, ReadOwnPages, ReadUsage, UpsertSource, InsertJob, ScrapeFails,
             RunScrapeJob, Acquire, CrawlWebsite, CrawlFails, CleanSource, CleanSourceFails,
             CleanURL, Upsert, UpsertFails, CountPages, Finish, UpdateScrapeJob, Mishap, vars,
             Delete, DeleteSource, DeleteSourceURL, DeleteAllSources, DeleteRows, Crash
    <3>2. QED
      BY <3>1 DEF Crash, Mishap
  <2>2. ASSUME NEW j \in Job, Scrape(j)
        PROVE  pc'[k] = "queued"
    BY <2>1, <2>2 DEF Scrape, ReadOwnPages, ReadUsage, UpsertSource, InsertJob, ScrapeFails, Goto,
                      End, Asking
  <2>3. ASSUME NEW j \in Job, RunScrapeJob(j)
        PROVE  pc'[k] = "queued"
    <3>1. pc[j] = "queued" => status' = [status EXCEPT ![j] = "scraping"]
      BY <2>1, <2>3 DEF RunScrapeJob, Acquire, CrawlWebsite, CrawlFails, CleanSource, CleanSourceFails,
                CleanURL, Upsert, UpsertFails, CountPages, Finish, UpdateScrapeJob, Mishap
    <3>2. \E what : pc' = [pc EXCEPT ![j] = what]
      BY <2>3 DEF RunScrapeJob, Acquire, CrawlWebsite, CrawlFails, CleanSource, CleanSourceFails,
                CleanURL, Upsert, UpsertFails, CountPages, Finish, Goto, End
    <3>3. status'[k] = status[k] \/ (k = j /\ status'[k] \in {"scraping", "indexing", "done", "failed"})
      BY <2>3 DEF RunScrapeJob, Acquire, CrawlWebsite, CrawlFails, CleanSource, CleanSourceFails,
                CleanURL, Upsert, UpsertFails, CountPages, Finish, UpdateScrapeJob
    <3>4. QED
      BY <2>1, <3>1, <3>2, <3>3
  <2>4. CASE UNCHANGED jobs
    BY <2>1, <2>4 DEF jobs
  <2>5. QED
    BY <2>1, <2>2, <2>3, <2>4, OneJobMoves
<1>3. QED
  BY <1>1, <1>2, TypeCorrect, PTL DEF Spec

(***************************************************************************)
(* Progress.                                                               *)
(***************************************************************************)

At(j, what) == pc[j] = what

Over(j) == status[j] \in {"done", "failed"} \/ mishaps > 0

\* The end of a job.
Ended(j) == Free /\ Over(j)

LEMMA StaysThere ==
  ASSUME NEW j \in Job, TypeOK, [Next]_vars, pc[j] \in Running, ~RunScrapeJob(j)
  PROVE  pc'[j] = pc[j] \/ Ended(j)'
<1> USE DEF TypeOK, JobsOK
<1>1. ASSUME NEW k \in Job, k # j, \E what : Goto(k, what)
      PROVE  pc'[j] = pc[j]
  BY <1>1 DEF Goto
<1>2. ~Scrape(j)
  BY DEF Scrape, ReadOwnPages, ReadUsage, UpsertSource, InsertJob, ScrapeFails, Running, Asking
<1>3. CASE Crash
  <2>1. Holders' = {}
    BY <1>3 DEF Crash, Holders, HoldsSlot, Running
  <2>2. mishaps' > 0
    BY <1>3, ConstantsAssumption DEF Crash, Mishap
  <2>3. QED
    BY <2>1, <2>2, FS_EmptySet, ConstantsAssumption DEF Ended, Over, Free
<1>4. QED
  BY <1>1, <1>2, <1>3, OneJobMoves DEF jobs

\* The stages that a job passes, in their order.
LEMMA StageIsPassed ==
  ASSUME NEW j \in Job, TypeOK, RunScrapeJob(j)
  PROVE  /\ At(j, "crawl")  => At(j, "clean")'  \/ At(j, "fail")'
         /\ At(j, "clean")  => At(j, "url")'    \/ At(j, "fail")'
         /\ At(j, "url")    => At(j, "upsert")'
         /\ At(j, "upsert") => At(j, "count")'  \/ At(j, "fail")'
         /\ At(j, "count")  => At(j, "succeed")'
BY DEF TypeOK, JobsOK, At, RunScrapeJob, Acquire, CrawlWebsite, CrawlFails, CleanSource,
       CleanSourceFails, CleanURL, Upsert, UpsertFails, CountPages, Finish, Goto

LEMMA JobEnds ==
  ASSUME NEW j \in Job, TypeOK, SlotsKept, RunScrapeJob(j), pc[j] \in {"succeed", "fail"}
  PROVE  Ended(j)'
<1> USE DEF TypeOK, JobsOK
<1>1. Finish(j)
  BY DEF RunScrapeJob, Acquire, CrawlWebsite, CrawlFails, CleanSource, CleanSourceFails,
         CleanURL, Upsert, UpsertFails, CountPages
<1>2. Over(j)'
  BY <1>1, ConstantsAssumption DEF Finish, UpdateScrapeJob, Over, Mishap
<1>3. Holders' = Holders \ {j} /\ j \in Holders
  BY <1>1 DEF Finish, End, Goto, Holders, HoldsSlot, Running
<1>4. Cardinality(Holders') = Cardinality(Holders) - 1 /\ Cardinality(Holders) \in Nat
  BY <1>3, FS_RemoveElement, FS_CardinalityType DEF SlotsKept
<1>5. QED
  BY <1>2, <1>4, ConstantsAssumption DEF SlotsKept, Free, Ended

\* What holds from any moment on.
Going == [][Next]_vars /\ []TypeOK /\ []SlotsKept /\ []QueuedWaits /\ []JobsGoOn /\ []Fairness

LEMMA EachIsFair ==
  ASSUME NEW j \in Job
  PROVE  Fairness => Runs(j) /\ GetsSlot(j)
BY DEF Fairness

GivesBack(j) == pc[j] \in Running ~> Ended(j)

\* A job that has its slot ends and gives it back.
LEMMA RunningJobEnds ==
  ASSUME NEW j \in Job
  PROVE  Going => GivesBack(j)
<1>0. Fairness => Runs(j)
  BY EachIsFair
<1>1. pc[j] \in Running
        <=> \/ At(j, "crawl") \/ At(j, "clean") \/ At(j, "url") \/ At(j, "upsert")
            \/ At(j, "count") \/ At(j, "succeed") \/ At(j, "fail")
  BY DEF At, Running
<1>2. JobsGoOn /\ pc[j] \in Running => ENABLED <<RunScrapeJob(j)>>_vars
  BY DEF JobsGoOn
<1>3. TypeOK /\ SlotsKept /\ [Next]_vars /\ (At(j, "succeed") \/ At(j, "fail"))
        => \/ (At(j, "succeed") \/ At(j, "fail"))' /\ ~<<RunScrapeJob(j)>>_vars
           \/ Ended(j)'
  BY JobEnds, StaysThere DEF At, Running
<1>4. TypeOK /\ [Next]_vars /\ At(j, "count")
        => \/ At(j, "count")' /\ ~<<RunScrapeJob(j)>>_vars
           \/ At(j, "succeed")' \/ Ended(j)'
  BY StageIsPassed, StaysThere DEF At, Running
<1>5. TypeOK /\ [Next]_vars /\ At(j, "upsert")
        => \/ At(j, "upsert")' /\ ~<<RunScrapeJob(j)>>_vars
           \/ At(j, "count")' \/ At(j, "fail")' \/ Ended(j)'
  BY StageIsPassed, StaysThere DEF At, Running
<1>6. TypeOK /\ [Next]_vars /\ At(j, "url")
        => \/ At(j, "url")' /\ ~<<RunScrapeJob(j)>>_vars
           \/ At(j, "upsert")' \/ Ended(j)'
  BY StageIsPassed, StaysThere DEF At, Running
<1>7. TypeOK /\ [Next]_vars /\ At(j, "clean")
        => \/ At(j, "clean")' /\ ~<<RunScrapeJob(j)>>_vars
           \/ At(j, "url")' \/ At(j, "fail")' \/ Ended(j)'
  BY StageIsPassed, StaysThere DEF At, Running
<1>8. TypeOK /\ [Next]_vars /\ At(j, "crawl")
        => \/ At(j, "crawl")' /\ ~<<RunScrapeJob(j)>>_vars
           \/ At(j, "clean")' \/ At(j, "fail")' \/ Ended(j)'
  BY StageIsPassed, StaysThere DEF At, Running
<1>9. QED
  BY <1>1, <1>2, <1>3, <1>4, <1>5, <1>6, <1>7, <1>8, <1>0, PTL DEF Going, Runs, GivesBack

\* Without a free slot some job has one.
LEMMA FullHasRunning ==
  SlotsKept /\ ~Free => \E k \in Job : pc[k] \in Running
<1>1. Holders = {} => Free
  BY FS_EmptySet, ConstantsAssumption DEF Free
<1>2. QED
  BY <1>1 DEF Holders, HoldsSlot

EndsSoon(k) == pc[k] \in Running => <>Free

LEMMA SlotsComeFree == Going => []<>Free
<1>1. ASSUME NEW k \in Job
      PROVE  Going => EndsSoon(k)
  <2>1. Ended(k) => Free
    BY DEF Ended
  <2>2. Going => GivesBack(k)
    BY RunningJobEnds
  <2>3. QED
    BY <2>1, <2>2, PTL DEF EndsSoon, GivesBack
<1>2. Going => \A k \in Job : EndsSoon(k)
  BY <1>1
<1>3. (\A k \in Job : EndsSoon(k)) => ((\E k \in Job : pc[k] \in Running) => <>Free)
  BY DEF EndsSoon
<1>4. QED
  BY <1>2, <1>3, FullHasRunning, PTL DEF Going

\* A queued job stays so until it gets its slot.
LEMMA QueuedStays ==
  ASSUME NEW j \in Job, TypeOK, [Next]_vars, At(j, "queued"), ~Acquire(j)
  PROVE  At(j, "queued")' \/ Over(j)'
<1> USE DEF TypeOK, JobsOK, At
<1>1. ASSUME NEW k \in Job, k # j, \E what : Goto(k, what)
      PROVE  At(j, "queued")'
  BY <1>1 DEF Goto
<1>2. ~Scrape(j) /\ ~RunScrapeJob(j)
  BY DEF Scrape, ReadOwnPages, ReadUsage, UpsertSource, InsertJob, ScrapeFails, Asking,
         RunScrapeJob, CrawlWebsite, CrawlFails, CleanSource, CleanSourceFails,
         CleanURL, Upsert, UpsertFails, CountPages, Finish
<1>3. CASE Crash
  BY <1>3, ConstantsAssumption DEF Crash, Mishap, Over
<1>4. QED
  BY <1>1, <1>2, <1>3, OneJobMoves DEF jobs

TakesSlot(j) == At(j, "queued") ~> Over(j) \/ pc[j] \in Running

LEMMA QueuedGetsSlot ==
  ASSUME NEW j \in Job
  PROVE  Going => TakesSlot(j)
<1>1. JobsGoOn /\ At(j, "queued") /\ Free => ENABLED <<Acquire(j)>>_vars
  BY DEF JobsGoOn, At
<1>2. TypeOK /\ [Next]_vars /\ At(j, "queued")
        => \/ At(j, "queued")' /\ ~<<Acquire(j)>>_vars
           \/ Over(j)' \/ (pc[j] \in Running)'
  <2>1. TypeOK /\ At(j, "queued") /\ Acquire(j) => (pc[j] \in Running)'
    BY DEF TypeOK, JobsOK, Acquire, Goto, Running, At
  <2>2. QED
    BY <2>1, QueuedStays
<1>3. Fairness => GetsSlot(j)
  BY EachIsFair
<1>4. QED
  BY <1>1, <1>2, <1>3, SlotsComeFree, PTL DEF Going, GetsSlot, TakesSlot

\* A queued job is done or fails, unless something goes wrong that is not
\* reported, however many jobs take the slots before it.  Fairness is of
\* behaviours as a whole: what it says at the start it says at every moment.
THEOREM QueuedJobsEndAlways == Spec /\ []Fairness /\ []JobsGoOn => QueuedJobsEnd
<1>1. Spec /\ []Fairness /\ []JobsGoOn => Going
  BY TypeCorrect, SlotsAreKept, QueuedWaitsInduction, PTL DEF Spec, Going
<1>2. ASSUME NEW j \in Job
      PROVE  Going => (status[j] = "queued" ~> status[j] \in {"done", "failed"} \/ mishaps > 0)
  <2>1. TypeOK /\ QueuedWaits /\ status[j] = "queued" => At(j, "queued") \/ Over(j)
    BY ConstantsAssumption DEF QueuedWaits, TypeOK, At, Over
  <2>2. Ended(j) => Over(j)
    BY DEF Ended
  <2>3. Over(j) <=> status[j] \in {"done", "failed"} \/ mishaps > 0
    BY DEF Over
  <2>4. Going => TakesSlot(j) /\ GivesBack(j)
    BY QueuedGetsSlot, RunningJobEnds
  <2>5. QED
    BY <2>1, <2>2, <2>3, <2>4, PTL DEF Going, TakesSlot, GivesBack
<1>3. QED
  BY <1>1, <1>2 DEF QueuedJobsEnd
===============================================================================
