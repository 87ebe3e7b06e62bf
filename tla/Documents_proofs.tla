---------------------------- MODULE Documents_proofs ----------------------------
(***************************************************************************)
(* Proofs about Documents, for any documents, any limit and form size, and *)
(* any number of requests.                                                 *)
(***************************************************************************)
EXTENDS Documents, FiniteSetTheorems, TLAPS

LEMMA MishapTypes ==
  ASSUME HistoryOK, NEW D, Mishap(D), rows \subseteq rows', stored \subseteq stored',
         UNCHANGED raced
  PROVE  HistoryOK'
BY ConstantsAssumption DEF Mishap, HistoryOK

LEMMA NextFileTypes ==
  ASSUME TypeOK, NEW r \in Request, NextFile(r), stored \subseteq stored'
  PROVE  RequestsOK'
<1>1. files[r] \in 1..MaxFiles
  BY ConstantsAssumption DEF NextFile, TypeOK, RequestsOK
<1>2. /\ files' = [files EXCEPT ![r] = files[r] - 1]
      /\ pc' = [pc EXCEPT ![r] = IF files[r] = 1 THEN "idle" ELSE "insert"]
      /\ deleting' = deleting
  BY DEF NextFile, Goto
<1>3. files' \in [Request -> 0..MaxFiles] /\ \A q \in Request : files'[q] > 0 <=> pc'[q] = "insert"
  BY <1>1, <1>2, ConstantsAssumption DEF TypeOK, RequestsOK
<1>4. deleting' \in [Request -> SUBSET stored']
  BY <1>2 DEF TypeOK, RequestsOK
<1>5. pc' \in [Request -> {"idle", "insert", "url", "row", "sources", "all"}]
  BY <1>2 DEF TypeOK, RequestsOK
<1>6. \A q \in Request : pc'[q] \in {"idle", "insert"} => deleting'[q] = {}
  BY <1>2 DEF TypeOK, RequestsOK, NextFile
<1>7. QED
  BY <1>3, <1>4, <1>5, <1>6 DEF RequestsOK

LEMMA SweepTypes ==
  ASSUME TypeOK, NEW r \in Request, NEW D \in SUBSET stored,
         NEW next \in {"url", "sources"}, Sweep(r, D, next)
  PROVE  TypeOK'
<1>1. StoredOK'
  BY DEF Sweep, Swept, table, TypeOK, StoredOK
<1>2. CASE Mishap(D) /\ UNCHANGED <<pc, deleting, raced>>
  <2>1. HistoryOK'
    BY <1>2, MishapTypes DEF Sweep, table, TypeOK
  <2>2. RequestsOK'
    BY <1>2 DEF Sweep, table, TypeOK, RequestsOK
  <2>3. QED
    BY <1>1, <2>1, <2>2 DEF TypeOK
<1>3. CASE /\ Goto(r, next)
           /\ deleting' = [deleting EXCEPT ![r] = D]
           /\ raced' = (raced \ D) \cup (D \cap indexing)
           /\ UNCHANGED <<lost, mishaps>>
  <2>1. HistoryOK'
    BY <1>3 DEF Sweep, table, TypeOK, HistoryOK
  <2>2. files[r] = 0
    BY ConstantsAssumption DEF Sweep, TypeOK, RequestsOK
  <2>3. RequestsOK'
    BY <1>3, <2>2, ConstantsAssumption DEF Sweep, Goto, table, TypeOK, RequestsOK
  <2>4. QED
    BY <1>1, <2>1, <2>3 DEF TypeOK
<1>4. QED
  BY <1>2, <1>3 DEF Sweep

LEMMA EndDeleteTypes ==
  ASSUME TypeOK, NEW r \in Request, EndDelete(r), pc[r] \in {"row", "sources", "all"}
  PROVE  RequestsOK'
<1>1. files[r] = 0
  BY ConstantsAssumption DEF TypeOK, RequestsOK
<1>2. QED
  BY <1>1 DEF EndDelete, Goto, TypeOK, RequestsOK

\* The rows, vectors, requests and histories keep their shape under every step;
\* only files with a text have vectors.
THEOREM TypeCorrect == Spec => []TypeOK
<1>1. Init => TypeOK
  BY ConstantsAssumption, FS_EmptySet DEF Init, TypeOK, StoredOK, RequestsOK, HistoryOK
<1>2. TypeOK /\ [Next]_vars => TypeOK'
  <2> SUFFICES ASSUME TypeOK, [Next]_vars PROVE TypeOK'
    OBVIOUS
  <2>1. ASSUME NEW r \in Request, CountDocuments(r) PROVE TypeOK'
    <3>1. PICK n \in 1..MaxFiles : files' = [files EXCEPT ![r] = n]
      BY <2>1 DEF CountDocuments
    <3>2. RequestsOK'
      BY <2>1, <3>1, ConstantsAssumption DEF CountDocuments, Goto, table, TypeOK, RequestsOK
    <3>3. QED
      BY <2>1, <3>2 DEF CountDocuments, table, history, TypeOK, StoredOK, HistoryOK
  <2>2. ASSUME NEW r \in Request, StoreFile(r) PROVE TypeOK'
    <3>1. PICK d \in Doc \ stored :
            /\ rows' = rows \cup {d}
            /\ stored' = stored \cup {d}
            /\ \/ indexing' = indexing \cup {d} /\ UNCHANGED <<lost, mishaps>>
               \/ Mishap({d}) /\ UNCHANGED indexing
      BY <2>2 DEF StoreFile
    <3>2. vectors' = vectors /\ raced' = raced
      BY <2>2 DEF StoreFile, NextFile
    <3>3. StoredOK'
      BY <3>1, <3>2, FS_AddElement DEF TypeOK, StoredOK
    <3>4. HistoryOK'
      <4>1. CASE UNCHANGED <<lost, mishaps>>
        BY <3>1, <3>2, <4>1 DEF TypeOK, HistoryOK
      <4>2. CASE Mishap({d})
        BY <3>1, <3>2, <4>2, MishapTypes DEF TypeOK
      <4>3. QED
        BY <3>1, <4>1, <4>2
    <3>5. RequestsOK'
      BY <2>2, <3>1, NextFileTypes DEF StoreFile
    <3>6. QED
      BY <3>3, <3>4, <3>5 DEF TypeOK
  <2>3. ASSUME NEW r \in Request, SkipFile(r) PROVE TypeOK'
    <3>1. RequestsOK'
      BY <2>3, NextFileTypes DEF SkipFile, table
    <3>2. QED
      BY <2>3, <3>1 DEF SkipFile, NextFile, table, TypeOK, StoredOK, HistoryOK
  <2>4. ASSUME NEW d \in Doc, EndIndexing(d), vectors' \in {vectors, vectors \cup Indexed(d)}
        PROVE  StoredOK' /\ RequestsOK'
    BY <2>4 DEF EndIndexing, Indexed, table, TypeOK, StoredOK, RequestsOK
  <2>5. ASSUME NEW d \in Doc, Index(d) PROVE TypeOK'
    <3>1. HistoryOK'
      BY <2>5 DEF Index, EndIndexing, table, TypeOK, HistoryOK
    <3>2. QED
      BY <2>4, <2>5, <3>1 DEF Index, TypeOK
  <2>6. ASSUME NEW d \in Doc, IndexFails(d) PROVE TypeOK'
    <3>1. HistoryOK'
      BY <2>6, MishapTypes DEF IndexFails, EndIndexing, table, TypeOK
    <3>2. QED
      BY <2>4, <2>6, <3>1 DEF IndexFails, TypeOK
  <2>7. ASSUME NEW r \in Request, DeleteDocument(r) PROVE TypeOK'
    <3>1. PICK d \in stored : Sweep(r, {d}, "url")
      BY <2>7 DEF DeleteDocument
    <3>2. QED
      BY <3>1, SweepTypes
  <2>8. ASSUME NEW r \in Request, DeleteAllSources(r) PROVE TypeOK'
    BY <2>8, SweepTypes DEF DeleteAllSources
  <2>9. ASSUME NEW r \in Request, DeleteDocumentURL(r) PROVE TypeOK'
    <3>1. RequestsOK'
      BY <2>9 DEF DeleteDocumentURL, Goto, table, TypeOK, RequestsOK
    <3>2. QED
      BY <2>9, <3>1 DEF DeleteDocumentURL, Swept, table, history, TypeOK, StoredOK, HistoryOK
  <2>10. ASSUME NEW r \in Request, DeleteSourceRows(r) PROVE TypeOK'
    <3>1. RequestsOK'
      BY <2>10 DEF DeleteSourceRows, Goto, table, TypeOK, RequestsOK
    <3>2. QED
      BY <2>10, <3>1 DEF DeleteSourceRows, table, history, TypeOK, StoredOK, HistoryOK
  <2>11. ASSUME NEW r \in Request, DeleteDocumentRow(r) PROVE TypeOK'
    <3>1. RequestsOK'
      BY <2>11, EndDeleteTypes DEF DeleteDocumentRow
    <3>2. QED
      BY <2>11, <3>1 DEF DeleteDocumentRow, EndDelete, TypeOK, StoredOK, HistoryOK
  <2>12. ASSUME NEW r \in Request, DeleteDocumentRows(r) PROVE TypeOK'
    <3>1. RequestsOK'
      BY <2>12, EndDeleteTypes DEF DeleteDocumentRows
    <3>2. QED
      BY <2>12, <3>1 DEF DeleteDocumentRows, EndDelete, TypeOK, StoredOK, HistoryOK
  <2>13. ASSUME NEW r \in Request, DeleteFails(r) PROVE TypeOK'
    <3>1. RequestsOK'
      BY <2>13, EndDeleteTypes DEF DeleteFails
    <3>2. HistoryOK'
      BY <2>13, MishapTypes DEF DeleteFails, EndDelete, TypeOK
    <3>3. QED
      BY <2>13, <3>1, <3>2 DEF DeleteFails, EndDelete, TypeOK, StoredOK
  <2>14. ASSUME Crash PROVE TypeOK'
    <3>1. HistoryOK'
      BY <2>14, MishapTypes DEF Crash, table, TypeOK
    <3>2. RequestsOK'
      BY <2>14, ConstantsAssumption DEF Crash, TypeOK, RequestsOK
    <3>3. QED
      BY <2>14, <3>1, <3>2 DEF Crash, table, TypeOK, StoredOK
  <2>15. CASE UNCHANGED vars
    BY <2>15 DEF vars, table, history, TypeOK, StoredOK, RequestsOK, HistoryOK
  <2>16. QED
    BY <2>1, <2>2, <2>3, <2>5, <2>6, <2>7, <2>8, <2>9, <2>10, <2>11, <2>12, <2>13, <2>14, <2>15
       DEF Next, Upload, Delete
<1>3. QED
  BY <1>1, <1>2, PTL DEF Spec

(***************************************************************************)
(* The limit: what is stored and what may still be stored share a budget.  *)
(***************************************************************************)
LEMMA PendingIsFinite ==
  /\ IsFiniteSet(Pending) /\ Cardinality(Pending) \in Nat
  /\ IsFiniteSet(Pending') /\ Cardinality(Pending') \in Nat
<1>1. IsFiniteSet(Request \X (1..MaxFiles))
  <2>1. IsFiniteSet(Request) /\ IsFiniteSet(1..MaxFiles)
    BY ConstantsAssumption, FS_Interval
  <2>2. QED
    BY ONLY <2>1, FS_Product
<1>2. Pending \subseteq Request \X (1..MaxFiles) /\ Pending' \subseteq Request \X (1..MaxFiles)
  BY DEF Pending
<1>3. QED
  BY <1>1, <1>2, FS_Subset, FS_CardinalityType

LEMMA RowsAreFinite ==
  ASSUME TypeOK
  PROVE  IsFiniteSet(rows) /\ Cardinality(rows) \in Nat
BY FS_Subset, FS_CardinalityType DEF TypeOK, StoredOK

\* The share of all the requests but one.
LEMMA ShareOfOthers ==
  ASSUME NEW r \in Request
  PROVE  /\ IsFiniteSet((Request \ {r}) \X (1..MaxFiles))
         /\ Cardinality((Request \ {r}) \X (1..MaxFiles)) = (Cardinality(Request) - 1) * MaxFiles
<1>1. IsFiniteSet(Request \ {r}) /\ Cardinality(Request \ {r}) = Cardinality(Request) - 1
  BY ConstantsAssumption, FS_RemoveElement
<1>2. IsFiniteSet(1..MaxFiles) /\ Cardinality(1..MaxFiles) = MaxFiles
  BY ConstantsAssumption, FS_Interval
<1>3. /\ IsFiniteSet((Request \ {r}) \X (1..MaxFiles))
      /\ Cardinality((Request \ {r}) \X (1..MaxFiles))
           = Cardinality(Request \ {r}) * Cardinality(1..MaxFiles)
  BY ONLY <1>1, <1>2, FS_Product
<1>4. QED
  BY ONLY <1>1, <1>2, <1>3

LEMMA SmallerKeepsBudget ==
  ASSUME TypeOK, BudgetKept, rows' \subseteq rows, Pending' \subseteq Pending
  PROVE  BudgetKept'
<1>1. Cardinality(rows') <= Cardinality(rows) /\ Cardinality(rows') \in Nat
  BY RowsAreFinite, FS_Subset, FS_CardinalityType
<1>2. Cardinality(Pending') <= Cardinality(Pending)
  BY PendingIsFinite, FS_Subset
<1>3. DEFINE share == (Cardinality(Request) - 1) * MaxFiles
<1>4. share \in Int
  BY ConstantsAssumption, FS_CardinalityType
<1>5. Cardinality(rows) + Cardinality(Pending) <= Limit + share
  BY DEF BudgetKept
<1>6. Cardinality(rows') + Cardinality(Pending') <= Limit + share
  <2> HIDE DEF share
  <2> QED
    BY <1>1, <1>2, <1>4, <1>5, PendingIsFinite, RowsAreFinite, ConstantsAssumption
<1>7. QED
  BY <1>6 DEF BudgetKept

LEMMA CountKeepsBudget ==
  ASSUME TypeOK, NEW r \in Request, CountDocuments(r)
  PROVE  BudgetKept'
<1>1. PICK n \in 1..MaxFiles : Accepts(n) /\ files' = [files EXCEPT ![r] = n]
  BY DEF CountDocuments
<1>2. rows' = rows
  BY DEF CountDocuments, table
<1>3. DEFINE Mine   == {r} \X (1..n)
             Others == (Request \ {r}) \X (1..MaxFiles)
             share  == (Cardinality(Request) - 1) * MaxFiles
<1>4. Pending' \subseteq Mine \cup Others
  <2> SUFFICES ASSUME NEW p \in Pending', p \notin Others PROVE p \in Mine
    OBVIOUS
  <2>1. p \in Request \X (1..MaxFiles) /\ p[2] <= files'[p[1]]
    BY DEF Pending
  <2>2. p[1] = r
    BY <2>1
  <2>3. files'[r] = n
    BY <1>1 DEF TypeOK, RequestsOK
  <2>4. p[2] \in 1..n
    BY <1>1, <2>1, <2>2, <2>3, ConstantsAssumption
  <2>5. QED
    BY <2>1, <2>2, <2>4
<1>5. IsFiniteSet(Mine) /\ Cardinality(Mine) = n
  <2>1. IsFiniteSet({r}) /\ Cardinality({r}) = 1
    BY FS_Singleton
  <2>2. IsFiniteSet(1..n) /\ Cardinality(1..n) = n
    BY <1>1, ConstantsAssumption, FS_Interval
  <2>3. Cardinality(Mine) = 1 * n /\ IsFiniteSet(Mine)
    BY <2>1, <2>2, FS_Product
  <2>4. QED
    BY <2>3, <1>1, ConstantsAssumption
<1>6. IsFiniteSet(Others) /\ Cardinality(Others) = share
  BY ShareOfOthers
<1>7. Cardinality(Mine \cup Others) <= n + share /\ IsFiniteSet(Mine \cup Others)
  <2>1. /\ IsFiniteSet(Mine \cup Others)
        /\ Cardinality(Mine \cup Others)
             = Cardinality(Mine) + Cardinality(Others) - Cardinality(Mine \cap Others)
    BY <1>5, <1>6, FS_Union
  <2>2. Cardinality(Mine \cap Others) \in Nat
    BY <1>5, FS_Intersection, FS_CardinalityType
  <2>3. Cardinality(Others) \in Nat
    BY <1>6, FS_CardinalityType
  <2> HIDE DEF Mine, Others, share
  <2>4. QED
    BY <1>1, <1>5, <1>6, <2>1, <2>2, <2>3, ConstantsAssumption
<1>8. Cardinality(Pending') <= n + share /\ share \in Nat
  <2>1. Cardinality(Pending') <= Cardinality(Mine \cup Others)
    BY <1>4, <1>7, FS_Subset
  <2>2. Cardinality(Mine \cup Others) \in Nat /\ share \in Nat
    BY <1>6, <1>7, FS_CardinalityType
  <2> HIDE DEF Mine, Others, share
  <2>3. QED
    BY <1>1, <1>7, <2>1, <2>2, PendingIsFinite, ConstantsAssumption
<1>9. Cardinality(rows') + Cardinality(Pending') <= Limit + share
  <2>1. Cardinality(rows) + n <= Limit
    BY <1>1 DEF Accepts
  <2> HIDE DEF share
  <2>2. QED
    BY <1>1, <1>2, <1>8, <2>1, RowsAreFinite, PendingIsFinite, ConstantsAssumption
<1>10. QED
  BY <1>9 DEF BudgetKept

LEMMA NextFileSpendsOne ==
  ASSUME TypeOK, NEW r \in Request, NextFile(r)
  PROVE  Pending' \subseteq Pending /\ Cardinality(Pending') = Cardinality(Pending) - 1
<1>1. files[r] \in 1..MaxFiles
  BY ConstantsAssumption DEF NextFile, TypeOK, RequestsOK
<1>2. files' = [files EXCEPT ![r] = files[r] - 1]
  BY DEF NextFile
<1>3. Pending' = Pending \ {<<r, files[r]>>}
  <2>1. ASSUME NEW q \in Request, NEW i \in 1..MaxFiles
        PROVE  i <= files'[q] <=> i <= files[q] /\ <<q, i>> # <<r, files[r]>>
    <3>1. CASE q = r
      <4>1. files'[q] = files[r] - 1
        BY <1>2, <3>1 DEF TypeOK, RequestsOK
      <4>2. i <= files[r] - 1 <=> i <= files[r] /\ i # files[r]
        BY <1>1, ConstantsAssumption
      <4>3. QED
        BY <3>1, <4>1, <4>2
    <3>2. CASE q # r
      BY <1>2, <3>2 DEF TypeOK, RequestsOK
    <3>3. QED
      BY <3>1, <3>2
  <2>2. QED
    BY <2>1 DEF Pending
<1>4. <<r, files[r]>> \in Pending
  BY <1>1, ConstantsAssumption DEF Pending
<1>5. QED
  BY <1>3, <1>4, PendingIsFinite, FS_RemoveElement

LEMMA StoreKeepsBudget ==
  ASSUME TypeOK, BudgetKept, NEW r \in Request, StoreFile(r)
  PROVE  BudgetKept'
<1>1. PICK d \in Doc \ stored : rows' = rows \cup {d}
  BY DEF StoreFile
<1>2. Cardinality(rows') = Cardinality(rows) + 1
  BY <1>1, RowsAreFinite, FS_AddElement DEF TypeOK, StoredOK
<1>3. Cardinality(Pending') = Cardinality(Pending) - 1
  BY NextFileSpendsOne DEF StoreFile
<1>4. QED
  BY <1>2, <1>3, RowsAreFinite, PendingIsFinite DEF BudgetKept

\* Requests that are served at once pass the limit by at most a form for each
\* but one, whatever else happens.
THEOREM LimitHolds == Spec => []OvershootIsBounded
<1>1. Init => BudgetKept
  <2> SUFFICES ASSUME Init PROVE BudgetKept
    OBVIOUS
  <2>1. rows = {} /\ Pending = {}
    BY ConstantsAssumption DEF Init, Pending
  <2>2. PICK r \in Request : TRUE
    BY ConstantsAssumption
  <2>3. (Cardinality(Request) - 1) * MaxFiles \in Nat
    BY ShareOfOthers, FS_CardinalityType
  <2>4. Cardinality(rows) = 0 /\ Cardinality(Pending) = 0
    BY <2>1, FS_EmptySet
  <2>5. 0 <= Limit + (Cardinality(Request) - 1) * MaxFiles
    BY <2>3, ConstantsAssumption
  <2>6. QED
    BY <2>4, <2>5 DEF BudgetKept
<1>2. TypeOK /\ BudgetKept /\ [Next]_vars => BudgetKept'
  <2> SUFFICES ASSUME TypeOK, BudgetKept, [Next]_vars PROVE BudgetKept'
    OBVIOUS
  <2>1. ASSUME UNCHANGED files, rows' \subseteq rows PROVE BudgetKept'
    BY <2>1, SmallerKeepsBudget DEF Pending
  <2>2. ASSUME NEW r \in Request, Upload(r) PROVE BudgetKept'
    <3>1. CASE SkipFile(r)
      BY <3>1, NextFileSpendsOne, SmallerKeepsBudget DEF SkipFile, table
    <3>2. QED
      BY <2>2, <3>1, CountKeepsBudget, StoreKeepsBudget DEF Upload
  <2>3. ASSUME NEW r \in Request, Delete(r) PROVE BudgetKept'
    BY <2>1, <2>3 DEF Delete, DeleteDocument, DeleteDocumentURL, DeleteDocumentRow,
         DeleteAllSources, DeleteSourceRows, DeleteDocumentRows, DeleteFails, Sweep, EndDelete, table
  <2>4. ASSUME NEW d \in Doc, Index(d) \/ IndexFails(d) PROVE BudgetKept'
    BY <2>1, <2>4 DEF Index, IndexFails, EndIndexing, table
  <2>5. CASE Crash
    <3>1. Pending' = {} /\ rows' = rows
      BY <2>5, ConstantsAssumption DEF Crash, Pending, table
    <3>2. QED
      BY <3>1, SmallerKeepsBudget
  <2>6. CASE UNCHANGED vars
    BY <2>1, <2>6 DEF vars, table
  <2>7. QED
    BY <2>2, <2>3, <2>4, <2>5, <2>6 DEF Next
<1>3. TypeOK /\ BudgetKept => OvershootIsBounded
  <2>1. (Cardinality(Request) - 1) * MaxFiles \in Int
    BY ConstantsAssumption, FS_CardinalityType
  <2>2. QED
    BY <2>1, RowsAreFinite, PendingIsFinite, ConstantsAssumption DEF BudgetKept, OvershootIsBounded
<1>4. QED
  BY <1>1, <1>2, <1>3, TypeCorrect, PTL DEF Spec

(***************************************************************************)
(* The index against the rows.                                             *)
(***************************************************************************)

\* A vector without a document is left only by a deletion that met the indexing,
\* or by an upload that met the deletion of everything.
THEOREM OrphansAreRaced == Spec => []IndexHasRow
<1> DEFINE Inv == Unraced /\ IndexHasRow
<1>1. Init => Inv
  BY DEF Init, Unraced, IndexHasRow
<1>2. TypeOK /\ Inv /\ [Next]_vars => Inv'
  <2> SUFFICES ASSUME TypeOK, Inv, [Next]_vars PROVE Inv'
    OBVIOUS
  <2> USE DEF Unraced, IndexHasRow
  <2>1. ASSUME NEW r \in Request, CountDocuments(r) \/ SkipFile(r) PROVE Inv'
    BY <2>1 DEF CountDocuments, SkipFile, NextFile, table, history
  <2>2. ASSUME NEW r \in Request, StoreFile(r) PROVE Inv'
    <3>1. PICK d \in Doc \ stored : rows' = rows \cup {d} /\ indexing' \subseteq indexing \cup {d}
      BY <2>2 DEF StoreFile
    <3>2. vectors' = vectors /\ deleting' = deleting /\ raced' = raced
      BY <2>2 DEF StoreFile, NextFile
    <3>3. \A q \in Request : d \notin deleting[q]
      BY DEF TypeOK, RequestsOK
    <3>4. QED
      BY <3>1, <3>2, <3>3
  <2>3. ASSUME NEW d \in Doc, Index(d) \/ IndexFails(d) PROVE Inv'
    <3>1. /\ d \in indexing
          /\ indexing' = indexing \ {d}
          /\ UNCHANGED <<rows, deleting, raced>>
          /\ vectors' \subseteq vectors \cup {d}
      BY <2>3 DEF Index, IndexFails, EndIndexing, Indexed, table
    <3>2. QED
      BY <3>1
  <2>4. ASSUME NEW r \in Request, NEW D \in SUBSET stored, NEW next, Sweep(r, D, next) PROVE Inv'
    <3>1. rows' = rows /\ indexing' = indexing
      BY <2>4 DEF Sweep, table
    <3>2. CASE UNCHANGED <<deleting, raced>> /\ vectors' \in {vectors, Swept(D)}
      BY <3>1, <3>2 DEF Swept
    <3>3. CASE /\ deleting' = [deleting EXCEPT ![r] = D]
               /\ vectors' = vectors \ D
               /\ raced' = (raced \ D) \cup (D \cap indexing)
      <4>1. indexing' \subseteq rows' \cup raced' /\ vectors' \subseteq rows' \cup raced'
        BY <3>1, <3>3
      <4>2. ASSUME NEW q \in Request PROVE deleting'[q] \cap (indexing' \cup vectors') \subseteq raced'
        <5>1. deleting'[q] = IF q = r THEN D ELSE deleting[q]
          BY <3>3 DEF TypeOK, RequestsOK
        <5>2. QED
          BY <3>1, <3>3, <5>1
      <4>3. QED
        BY <4>1, <4>2
    <3>4. QED
      BY <2>4, <3>2, <3>3 DEF Sweep, Swept
  <2>5. ASSUME NEW r \in Request, DeleteDocument(r) \/ DeleteAllSources(r) PROVE Inv'
    BY <2>4, <2>5 DEF DeleteDocument, DeleteAllSources
  <2>6. ASSUME NEW r \in Request, DeleteDocumentURL(r) \/ DeleteSourceRows(r) PROVE Inv'
    BY <2>6 DEF DeleteDocumentURL, DeleteSourceRows, Swept, table, history
  <2>7. ASSUME NEW r \in Request, EndDelete(r)
        PROVE  /\ UNCHANGED <<indexing, vectors>>
               /\ \A q \in Request : deleting'[q] \subseteq deleting[q]
    BY <2>7 DEF EndDelete, TypeOK, RequestsOK
  <2>8. ASSUME NEW r \in Request, DeleteDocumentRow(r) PROVE Inv'
    <3>1. /\ rows' = rows \ deleting[r] /\ raced' = raced
          /\ UNCHANGED <<indexing, vectors>>
          /\ \A q \in Request : deleting'[q] \subseteq deleting[q]
      BY <2>7, <2>8 DEF DeleteDocumentRow
    <3>2. deleting[r] \cap (indexing \cup vectors) \subseteq raced
      OBVIOUS
    <3>3. QED
      BY <3>1, <3>2
  <2>9. ASSUME NEW r \in Request, DeleteDocumentRows(r) PROVE Inv'
    <3>1. /\ rows' = {} /\ raced' = raced \cup (rows \ deleting[r])
          /\ UNCHANGED <<indexing, vectors>>
          /\ \A q \in Request : deleting'[q] \subseteq deleting[q]
      BY <2>7, <2>9 DEF DeleteDocumentRows
    <3>2. deleting[r] \cap (indexing \cup vectors) \subseteq raced
      OBVIOUS
    <3>3. QED
      BY <3>1, <3>2
  <2>10. ASSUME NEW r \in Request, DeleteFails(r) PROVE Inv'
    <3>1. /\ UNCHANGED <<rows, raced, indexing, vectors>>
          /\ \A q \in Request : deleting'[q] \subseteq deleting[q]
      BY <2>7, <2>10 DEF DeleteFails
    <3>2. QED
      BY <3>1
  <2>11. CASE Crash
    BY <2>11 DEF Crash, table
  <2>12. CASE UNCHANGED vars
    BY <2>12 DEF vars, table, history
  <2>13. QED
    BY <2>1, <2>2, <2>3, <2>5, <2>6, <2>8, <2>9, <2>10, <2>11, <2>12 DEF Next, Upload, Delete
<1>3. QED
  BY <1>1, <1>2, TypeCorrect, PTL DEF Spec

\* A document with a text is in the index unless it is being indexed or deleted,
\* or a failure or a crash kept it out; no deletion of another document does.
THEOREM StoredIsIndexed == Spec => []RowIsIndexed
<1>1. Init => RowIsIndexed
  BY DEF Init, RowIsIndexed
<1>2. TypeOK /\ RowIsIndexed /\ [Next]_vars => RowIsIndexed'
  <2> SUFFICES ASSUME TypeOK, RowIsIndexed, [Next]_vars PROVE RowIsIndexed'
    OBVIOUS
  <2>1. ASSUME NEW r \in Request, CountDocuments(r) \/ SkipFile(r) \/ DeleteSourceRows(r)
        PROVE  RowIsIndexed'
    BY <2>1 DEF CountDocuments, SkipFile, DeleteSourceRows, NextFile, table, history, RowIsIndexed
  <2>2. ASSUME NEW r \in Request, StoreFile(r) PROVE RowIsIndexed'
    <3>1. PICK d \in Doc \ stored :
            /\ rows' = rows \cup {d}
            /\ \/ indexing' = indexing \cup {d} /\ lost' = lost
               \/ lost' = lost \cup ({d} \cap rows') /\ indexing' = indexing
      BY <2>2 DEF StoreFile, Mishap
    <3>2. vectors' = vectors /\ deleting' = deleting
      BY <2>2 DEF StoreFile, NextFile
    <3>3. QED
      BY <3>1, <3>2 DEF RowIsIndexed
  <2>3. ASSUME NEW d \in Doc, Index(d) \/ IndexFails(d) PROVE RowIsIndexed'
    <3>1. rows' = rows /\ deleting' = deleting /\ indexing' = indexing \ {d}
      BY <2>3 DEF Index, IndexFails, EndIndexing, table
    <3>2. CASE Index(d)
      BY <3>1, <3>2 DEF Index, Indexed, RowIsIndexed
    <3>3. CASE IndexFails(d)
      <4>1. lost' = lost \cup ({d} \cap rows') /\ vectors \subseteq vectors'
        BY <3>3 DEF IndexFails, Mishap
      <4>2. QED
        BY <3>1, <4>1 DEF RowIsIndexed
    <3>4. QED
      BY <2>3, <3>2, <3>3
  <2>4. ASSUME NEW r \in Request, NEW D \in SUBSET stored, NEW next, Sweep(r, D, next)
        PROVE  RowIsIndexed'
    <3>1. rows' = rows /\ indexing' = indexing
      BY <2>4 DEF Sweep, table
    <3>2. CASE Mishap(D) /\ vectors' \in {vectors, Swept(D)} /\ deleting' = deleting
      BY <3>1, <3>2 DEF Mishap, Swept, RowIsIndexed
    <3>3. CASE deleting' = [deleting EXCEPT ![r] = D] /\ vectors' = vectors \ D /\ lost' = lost
      <4>1. deleting[r] = {}
        BY <2>4 DEF Sweep, TypeOK, RequestsOK
      <4>2. deleting'[r] = D /\ \A q \in Request : deleting[q] \subseteq deleting'[q]
        BY <3>3, <4>1 DEF TypeOK, RequestsOK
      <4>3. QED
        BY <3>1, <3>3, <4>2 DEF RowIsIndexed
    <3>4. QED
      BY <2>4, <3>2, <3>3 DEF Sweep, Swept
  <2>5. ASSUME NEW r \in Request, DeleteDocument(r) \/ DeleteAllSources(r) PROVE RowIsIndexed'
    BY <2>4, <2>5 DEF DeleteDocument, DeleteAllSources
  <2>6. ASSUME NEW r \in Request, DeleteDocumentURL(r) PROVE RowIsIndexed'
    <3>1. /\ UNCHANGED <<rows, indexing, lost, deleting>>
          /\ vectors \subseteq vectors' \cup deleting[r]
      BY <2>6 DEF DeleteDocumentURL, Swept, table, history
    <3>2. QED
      BY <3>1 DEF RowIsIndexed
  <2>7. ASSUME NEW r \in Request, EndDelete(r)
        PROVE  /\ UNCHANGED <<indexing, vectors>>
               /\ \A q \in Request : q # r => deleting'[q] = deleting[q]
    BY <2>7 DEF EndDelete, TypeOK, RequestsOK
  <2>8. ASSUME NEW r \in Request, DeleteDocumentRow(r) PROVE RowIsIndexed'
    <3>1. rows' = rows \ deleting[r] /\ lost' = lost \ deleting[r]
      BY <2>8 DEF DeleteDocumentRow
    <3>2. QED
      BY <2>7, <2>8, <3>1 DEF DeleteDocumentRow, RowIsIndexed
  <2>9. ASSUME NEW r \in Request, DeleteDocumentRows(r) PROVE RowIsIndexed'
    BY <2>9 DEF DeleteDocumentRows, RowIsIndexed
  <2>10. ASSUME NEW r \in Request, DeleteFails(r) PROVE RowIsIndexed'
    <3>1. rows' = rows /\ lost' = lost \cup (deleting[r] \cap rows')
      BY <2>10 DEF DeleteFails, Mishap
    <3>2. QED
      BY <2>7, <2>10, <3>1 DEF DeleteFails, RowIsIndexed
  <2>11. CASE Crash
    <3>1. /\ rows' = rows /\ vectors' = vectors
          /\ lost' = lost \cup ((indexing \cup UNION {deleting[q] : q \in Request}) \cap rows')
      BY <2>11 DEF Crash, Mishap, table
    <3>2. QED
      BY <3>1 DEF RowIsIndexed
  <2>12. CASE UNCHANGED vars
    BY <2>12 DEF vars, table, history, RowIsIndexed
  <2>13. QED
    BY <2>1, <2>2, <2>3, <2>5, <2>6, <2>8, <2>9, <2>10, <2>11, <2>12 DEF Next, Upload, Delete
<1>3. QED
  BY <1>1, <1>2, TypeCorrect, PTL DEF Spec

-------------------------------------------------------------------------------
(***************************************************************************)
(* A limit of 0, which plan_limits.go says means unlimited.                *)
(***************************************************************************)
NothingIsAdmitted == rows = {} /\ \A r \in Request : pc[r] # "insert"

\* A plan whose limit of documents is 0 never stores one, whatever requests,
\* goroutines and deletions do (UploadDocument, UploadMultipleDocuments).
THEOREM ZeroAdmitsNothing ==
  ASSUME Limit = 0
  PROVE  Spec => [](rows = {})
<1>1. Init => NothingIsAdmitted
  BY DEF Init, NothingIsAdmitted
<1>2. TypeOK /\ NothingIsAdmitted /\ [Next]_vars => NothingIsAdmitted'
  <2> SUFFICES ASSUME TypeOK, NothingIsAdmitted, [Next]_vars PROVE NothingIsAdmitted'
    OBVIOUS
  <2> USE DEF NothingIsAdmitted, TypeOK, RequestsOK, Goto
  <2>1. \A r \in Request : ~CountDocuments(r)
    <3>1. \A n \in 1..MaxFiles : ~Accepts(n)
      BY FS_EmptySet, ConstantsAssumption DEF Accepts
    <3>2. QED
      BY <3>1 DEF CountDocuments
  <2>2. \A r \in Request : ~NextFile(r)
    BY DEF NextFile
  <2>3. ASSUME NEW d \in Doc, Index(d) \/ IndexFails(d)
        PROVE  NothingIsAdmitted'
    BY <2>3 DEF Index, IndexFails, EndIndexing, table
  <2>4. ASSUME NEW r \in Request, Delete(r)
        PROVE  NothingIsAdmitted'
    <3>1. rows' \subseteq rows
      BY <2>4 DEF Delete, DeleteDocument, DeleteAllSources, Sweep, DeleteDocumentURL,
         DeleteSourceRows, DeleteDocumentRow, DeleteDocumentRows, DeleteFails, table
    <3>2. PICK what \in {"idle", "url", "row", "sources", "all"} :
            pc' = [pc EXCEPT ![r] = what] \/ pc' = pc
      BY <2>4 DEF Delete, DeleteDocument, DeleteAllSources, Sweep, DeleteDocumentURL,
         DeleteSourceRows, DeleteDocumentRow, DeleteDocumentRows, DeleteFails, EndDelete
    <3>3. QED
      BY <3>1, <3>2
  <2>5. CASE Crash
    BY <2>5 DEF Crash, table
  <2>6. CASE UNCHANGED vars
    BY <2>6 DEF vars, table
  <2>7. \A r \in Request : ~Upload(r)
    BY <2>1, <2>2 DEF Upload, StoreFile, SkipFile
  <2> HIDE DEF NothingIsAdmitted
  <2>8. QED
    BY <2>3, <2>4, <2>5, <2>6, <2>7 DEF Next
<1>3. QED
  BY <1>1, <1>2, TypeCorrect, PTL DEF Spec, NothingIsAdmitted
===============================================================================
