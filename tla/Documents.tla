------------------------------- MODULE Documents -------------------------------
(***************************************************************************)
(* The documents of one account: its rows of documents, the vectors of     *)
(* their texts in the index, the requests that upload and delete, and the  *)
(* goroutines that index what was uploaded.  The count that a request      *)
(* decides on, its inserts, its calls of the index and its deletions are   *)
(* steps of their own, and nothing is locked.                              *)
(*                                                                         *)
(* A file is known by the id that its row gets.                            *)
(***************************************************************************)
EXTENDS Naturals, FiniteSets

CONSTANTS Doc,         \* documents.id
          Text,        \* the ids of files with a text that can be extracted
          Request,     \* requests, served at once
          Limit,       \* limits.Documents of the plan
          MaxFiles,    \* bound: files of one form
          MaxMishaps   \* bound: failures after a row was stored, and crashes

ASSUME ConstantsAssumption ==
  /\ Text \subseteq Doc
  /\ IsFiniteSet(Request) /\ Request # {}
  /\ Limit \in Nat
  /\ MaxFiles \in Nat
  /\ MaxMishaps \in Nat

VARIABLES
  rows,      \* the documents that have a row
  stored,    \* the ids that were given to a row
  indexing,  \* the documents whose goroutine has not ended
  vectors,   \* the documents that have a vector
  pc,        \* request -> what it does next
  files,     \* request -> the files that it has yet to store
  deleting,  \* request -> the documents whose vectors it has removed
  raced,     \* history: the documents that were deleted while being indexed
  lost,      \* history: the rows that a mishap has kept from the index
  mishaps

table   == <<rows, stored>>
history == <<raced, lost, mishaps>>
vars    == <<table, indexing, vectors, pc, files, deleting, history>>

StoredOK ==
  /\ stored \in SUBSET Doc /\ IsFiniteSet(stored)
  /\ rows \in SUBSET stored
  /\ indexing \in SUBSET stored
  /\ vectors \in SUBSET (stored \cap Text)

RequestsOK ==
  /\ pc \in [Request -> {"idle", "insert", "url", "row", "sources", "all"}]
  /\ files \in [Request -> 0..MaxFiles]
  /\ deleting \in [Request -> SUBSET stored]
  /\ \A r \in Request : files[r] > 0 <=> pc[r] = "insert"
  /\ \A r \in Request : pc[r] \in {"idle", "insert"} => deleting[r] = {}

HistoryOK ==
  /\ raced \in SUBSET stored
  /\ lost \in SUBSET rows
  /\ mishaps \in 0..MaxMishaps

TypeOK == StoredOK /\ RequestsOK /\ HistoryOK

Init ==
  /\ rows = {} /\ stored = {} /\ indexing = {} /\ vectors = {}
  /\ pc = [r \in Request |-> "idle"]
  /\ files = [r \in Request |-> 0]
  /\ deleting = [r \in Request |-> {}]
  /\ raced = {} /\ lost = {} /\ mishaps = 0

Goto(r, what) == pc' = [pc EXCEPT ![r] = what]

\* A failure or a crash that keeps the documents D from the index.
Mishap(D) ==
  /\ mishaps < MaxMishaps
  /\ mishaps' = mishaps + 1
  /\ lost' = lost \cup (D \cap rows')

(***************************************************************************)
(* UploadDocument, with one file, and UploadMultipleDocuments.             *)
(***************************************************************************)

\* Mutant of Accepts: the last free place admits a whole form.
AcceptsLast(n) == n > 0 /\ Cardinality(rows) < Limit

Accepts(n) == Cardinality(rows) + n <= Limit

CountDocuments(r) ==
  /\ pc[r] = "idle"
  /\ \E n \in 1..MaxFiles : Accepts(n) /\ files' = [files EXCEPT ![r] = n]
  /\ Goto(r, "insert")
  /\ UNCHANGED <<table, indexing, vectors, deleting, history>>

NextFile(r) ==
  /\ pc[r] = "insert"
  /\ files' = [files EXCEPT ![r] = @ - 1]
  /\ Goto(r, IF files[r] = 1 THEN "idle" ELSE "insert")
  /\ UNCHANGED <<vectors, deleting, raced>>

\* The row, and the goroutine that will index it unless the file cannot be read.
StoreFile(r) ==
  /\ NextFile(r)
  /\ \E d \in Doc \ stored :
       /\ rows' = rows \cup {d}
       /\ stored' = stored \cup {d}
       /\ \/ indexing' = indexing \cup {d} /\ UNCHANGED <<lost, mishaps>>
          \/ Mishap({d}) /\ UNCHANGED indexing

\* The form holds no file, or the insert fails.
SkipFile(r) ==
  /\ NextFile(r)
  /\ UNCHANGED <<table, indexing, lost, mishaps>>

(***************************************************************************)
(* The goroutines.  The semaphore only limits how many work at once.       *)
(***************************************************************************)
EndIndexing(d) ==
  /\ d \in indexing
  /\ indexing' = indexing \ {d}
  /\ UNCHANGED <<table, pc, files, deleting, raced>>

\* extractDocumentText finds nothing in the other files.
Indexed(d) == {d} \cap Text

Index(d) ==
  /\ EndIndexing(d)
  /\ vectors' = vectors \cup Indexed(d)
  /\ UNCHANGED <<lost, mishaps>>

\* No embedding, an error that is only logged, or an answer that came too late.
IndexFails(d) ==
  /\ EndIndexing(d)
  /\ Mishap({d})
  /\ vectors' \in {vectors, vectors \cup Indexed(d)}

(***************************************************************************)
(* DeleteDocument and DeleteAllSources: vectors first, rows last.          *)
(***************************************************************************)

\* Mutants of Swept: a deletion that misses its vectors, one that takes all.
SweptNothing(D) == vectors
SweptAll(D)     == {}

Swept(D) == vectors \ D

\* When the deletion fails the request ends; the vectors may be gone.
Sweep(r, D, next) ==
  /\ pc[r] = "idle"
  /\ UNCHANGED <<table, indexing, files>>
  /\ \/ /\ Goto(r, next)
        /\ deleting' = [deleting EXCEPT ![r] = D]
        /\ vectors' = Swept(D)
        /\ raced' = (raced \ D) \cup (D \cap indexing)
        /\ UNCHANGED <<lost, mishaps>>
     \/ /\ Mishap(D)
        /\ vectors' \in {vectors, Swept(D)}
        /\ UNCHANGED <<pc, deleting, raced>>

EndDelete(r) ==
  /\ Goto(r, "idle")
  /\ deleting' = [deleting EXCEPT ![r] = {}]
  /\ UNCHANGED <<stored, indexing, vectors, files>>

DeleteFails(r) ==
  /\ pc[r] \in {"row", "sources", "all"}
  /\ UNCHANGED <<rows, raced>>
  /\ Mishap(deleting[r])
  /\ EndDelete(r)

DeleteDocument(r) == \E d \in stored : Sweep(r, {d}, "url")

\* The vectors that older versions stored under a URL; an error is only logged.
DeleteDocumentURL(r) ==
  /\ pc[r] = "url"
  /\ Goto(r, "row")
  /\ vectors' \in {vectors, Swept(deleting[r])}
  /\ UNCHANGED <<table, indexing, files, deleting, history>>

DeleteDocumentRow(r) ==
  /\ pc[r] = "row"
  /\ rows' = rows \ deleting[r]
  /\ lost' = lost \ deleting[r]
  /\ EndDelete(r)
  /\ UNCHANGED <<raced, mishaps>>

\* Every vector of the account; a row that comes later loses no vector here.
DeleteAllSources(r) == Sweep(r, stored, "sources")

DeleteSourceRows(r) ==
  /\ pc[r] = "sources"
  /\ Goto(r, "all")
  /\ UNCHANGED <<table, indexing, vectors, files, deleting, history>>

\* Every row, those that came after the vectors were removed too.
DeleteDocumentRows(r) ==
  /\ pc[r] = "all"
  /\ rows' = {}
  /\ lost' = {}
  /\ raced' = raced \cup (rows \ deleting[r])
  /\ EndDelete(r)
  /\ UNCHANGED mishaps

-------------------------------------------------------------------------------
\* The process ends, and its requests and goroutines with it; nothing takes the
\* goroutines up again.
Crash ==
  /\ indexing # {} \/ \E r \in Request : pc[r] # "idle"
  /\ UNCHANGED <<table, vectors, raced>>
  /\ Mishap(indexing \cup UNION {deleting[r] : r \in Request})
  /\ indexing' = {}
  /\ pc' = [r \in Request |-> "idle"]
  /\ files' = [r \in Request |-> 0]
  /\ deleting' = [r \in Request |-> {}]

Upload(r) == CountDocuments(r) \/ StoreFile(r) \/ SkipFile(r)

Delete(r) ==
  \/ DeleteDocument(r) \/ DeleteDocumentURL(r) \/ DeleteDocumentRow(r)
  \/ DeleteAllSources(r) \/ DeleteSourceRows(r) \/ DeleteDocumentRows(r)
  \/ DeleteFails(r)

Next ==
  \/ \E r \in Request : Upload(r) \/ Delete(r)
  \/ \E d \in Doc : Index(d) \/ IndexFails(d)
  \/ Crash

Spec == Init /\ [][Next]_vars

-------------------------------------------------------------------------------
\* Uploads that are served at once pass the plan's limit by at most a form for
\* each request but one.
OvershootIsBounded ==
  Cardinality(rows) <= Limit + (Cardinality(Request) - 1) * MaxFiles

\* A vector without a document comes only from a document whose deletion met its
\* indexing, or that was uploaded while all were being deleted.
IndexHasRow == vectors \subseteq rows \cup raced

\* A document with a text is in the index unless it is being indexed or deleted,
\* or a failure or a crash is to blame; no other document's deletion is.
RowIsIndexed ==
  \A d \in rows \cap Text :
    d \in indexing \cup vectors \cup lost \/ \E r \in Request : d \in deleting[r]

\* What plan_limits.go says of a limit of 0: documents are unlimited.
ZeroIsUnlimited == Limit = 0 => \A n \in 1..MaxFiles : Accepts(n)

-------------------------------------------------------------------------------
(***************************************************************************)
(* Strengthenings.                                                         *)
(***************************************************************************)

\* The files that requests may still store.
Pending == {p \in Request \X (1..MaxFiles) : p[2] <= files[p[1]]}

\* They count as stored.
BudgetKept ==
  Cardinality(rows) + Cardinality(Pending) <= Limit + (Cardinality(Request) - 1) * MaxFiles

\* What is indexed has a row, and what is deleted neither has a vector nor gets
\* one, unless a deletion met its indexing.
Unraced ==
  /\ indexing \subseteq rows \cup raced
  /\ \A r \in Request : deleting[r] \cap (indexing \cup vectors) \subseteq raced
===============================================================================
