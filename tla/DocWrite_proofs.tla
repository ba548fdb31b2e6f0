--------------------------- MODULE DocWrite_proofs ---------------------------
(***************************************************************************)
(* Theorems about the document write path, for any number of requests,     *)
(* paths, chunks, faults and crashes.                                      *)
(***************************************************************************)
EXTENDS DocWrite, FiniteSetTheorems, TLAPS

(* What is counted must be finite for the counters to stay numbers.        *)
Finite == /\ IsFiniteSet(chunks)
          /\ \A r \in Reqs : IsFiniteSet(job[r].old)

TypeInv == TypeOK /\ Finite

-----------------------------------------------------------------------------

\* The chunk indices read for a document are finitely many naturals.
LEMMA ChunkIdxFinite ==
    ASSUME NEW d, chunks \subseteq ChunkRow, IsFiniteSet(chunks)
    PROVE  ChunkIdx(d) \in SUBSET Nat /\ IsFiniteSet(ChunkIdx(d))
<1> DEFINE S == {x \in chunks : x[1] = d}
           f == [c \in S |-> c[2]]
<1>1. ChunkIdx(d) \in SUBSET Nat
    BY DEF ChunkIdx, ChunkRow
<1>2. IsFiniteSet(S)
    BY FS_Subset
<1>3. f \in Surjection(S, ChunkIdx(d))
    BY DEF ChunkIdx, Surjection
<1>4. IsFiniteSet(ChunkIdx(d))
    BY <1>2, <1>3, FS_Surjection
<1> QED BY <1>1, <1>4

LEMMA BatchType ==
    ASSUME NEW d \in DocIds, NEW p \in Paths, NEW w \in Writers, NEW n \in Nat
    PROVE  Batch(d, p, w, n) \subseteq Row
BY DEF Batch, Row

LEMMA NewJobType ==
    ASSUME NEW op \in AllOps \cup {"none"}, NEW p \in Paths, NEW d \in DocIds,
           NEW claim \in SUBSET FilePaths, NEW todo \in SUBSET Paths
    PROVE  /\ NewJob(op, p, d, claim, todo) \in Job
           /\ IsFiniteSet(NewJob(op, p, d, claim, todo).old)
<1>1. NewJob(op, p, d, claim, todo) \in Job
    BY DEF NewJob, Job
<1>2. NewJob(op, p, d, claim, todo).old = {}
    BY DEF NewJob
<1> QED BY <1>1, <1>2, FS_EmptySet

LEMMA InitTypeInv == Init => TypeInv
<1> SUFFICES ASSUME Init PROVE TypeInv
    OBVIOUS
<1> USE PathsAssumption, CountsAssumption, BoundAssumption, ReqsAssumption
<1>1. SeedSize \in Nat
    BY DEF SeedSize
<1>2. table \subseteq Row
  <2>1. \A p \in SeedPaths : Batch(<<Seed, p>>, p, Seed, SeedSize) \subseteq Row
      BY <1>1, BatchType DEF DocIds, Writers, Paths
  <2> QED BY <2>1 DEF Init
<1>3. docs \subseteq DocRow
    BY <1>1 DEF Init, DocRow, DocIds, Writers, Paths
<1>4. chunks \subseteq ChunkRow /\ IsFiniteSet(chunks)
  <2>1. IsFiniteSet({Seed} \X SeedPaths)
      BY FS_Singleton, FS_Product
  <2>2. IsFiniteSet(1..SeedSize)
      BY <1>1, FS_Interval
  <2>3. IsFiniteSet(chunks)
      BY <2>1, <2>2, FS_Product DEF Init
  <2> QED BY <2>3, <1>1 DEF Init, ChunkRow, DocIds, Writers, Paths
<1>5. fileCount \in Nat /\ chunkCount \in Nat
    BY <1>1, FS_CardinalityType DEF Init
<1>6. job \in [Reqs -> Job] /\ \A r \in Reqs : IsFiniteSet(job[r].old)
  <2> DEFINE p0 == CHOOSE p \in Paths : TRUE
  <2>1. p0 \in Paths
      BY DEF Paths
  <2>2. \A r \in Reqs : /\ NewJob("none", p0, <<r, p0>>, {}, {}) \in Job
                        /\ IsFiniteSet(NewJob("none", p0, <<r, p0>>, {}, {}).old)
      BY <2>1, NewJobType DEF DocIds, Writers
  <2> HIDE DEF p0
  <2>3. job = [r \in Reqs |-> NewJob("none", p0, <<r, p0>>, {}, {})]
      BY DEF Init, p0
  <2> QED BY <2>2, <2>3
<1>7. bm25 \subseteq Row
    BY <1>2 DEF Init
<1>8. lock \in Reqs \cup {Free} /\ pc \in [Reqs -> {"idle"} \cup Working \cup Answered]
    BY DEF Init
<1>9. faults \in 0..MaxFaults /\ crashes \in 0..MaxCrashes
    BY DEF Init
<1> QED BY <1>2, <1>3, <1>4, <1>5, <1>6, <1>7, <1>8, <1>9 DEF TypeInv, TypeOK, Finite

\* Removing rows keeps the type of an index.
LEMMA RemovalType ==
    ASSUME NEW store \in SUBSET Row, NEW r
    PROVE  WithoutOld(store, r) \subseteq store /\ WithoutNew(store, r) \subseteq store
BY DEF WithoutOld, WithoutNew, WithoutIds, WithoutPath

\* The rows of the new version, and the indexes with them.
LEMMA NewRowsType ==
    ASSUME TypeOK, NEW r \in Reqs
    PROVE  /\ NewRows(r) \subseteq Row
           /\ WithNewVectors(r) \subseteq Row
           /\ WithNewEntries(r) \subseteq Row
<1>1. /\ job[r].doc \in DocIds /\ job[r].path \in Paths /\ job[r].n \in Nat
      /\ r \in Writers /\ table \subseteq Row /\ bm25 \subseteq Row
    BY DEF TypeOK, Job, Writers
<1>2. NewRows(r) \subseteq Row
    BY <1>1, BatchType DEF NewRows
<1> QED BY <1>1, <1>2, RemovalType DEF WithNewVectors, WithNewEntries

\* The failing-call operators stay inside the same types.
LEMMA MayTakeType ==
    ASSUME NEW b, NEW S \in SUBSET Row, NEW T \in SUBSET Row, NEW U \in MayTake(b, S, T)
    PROVE  U \subseteq Row
BY DEF MayTake

LEMMA FaultType ==
    ASSUME TypeOK, Fault
    PROVE  faults' \in 0..MaxFaults
BY BoundAssumption DEF TypeOK, Fault

LEMMA GotoType ==
    ASSUME TypeOK, NEW r \in Reqs, NEW l \in {"idle"} \cup Working \cup Answered, Goto(r, l)
    PROVE  pc' \in [Reqs -> {"idle"} \cup Working \cup Answered]
BY DEF TypeOK, Goto

LEMMA StartType ==
    ASSUME TypeInv, NEW r \in Reqs, NEW l \in Working, NEW j \in Job, IsFiniteSet(j.old),
           Start(r, l, j)
    PROVE  TypeInv'
<1> USE DEF TypeInv, Start
<1>1. pc' \in [Reqs -> {"idle"} \cup Working \cup Answered]
    BY GotoType
<1>2. job' \in [Reqs -> Job] /\ \A q \in Reqs : IsFiniteSet(job'[q].old)
    BY DEF TypeOK, Finite
<1> QED BY <1>1, <1>2 DEF TypeOK, Finite, stores, counts

LEMMA SubmitType ==
    ASSUME TypeInv, NEW r \in Reqs, Submit(r)
    PROVE  TypeInv'
<1> USE DEF Working, AllOps
<1>1. CASE SubmitIngest(r)
  <2>1. PICK p \in FilePaths : Start(r, "lookup", NewJob("ingest", p, <<r, p>>, {p}, {}))
      BY <1>1 DEF SubmitIngest
  <2>2. p \in Paths /\ <<r, p>> \in DocIds
      BY DEF Paths, DocIds, Writers
  <2> QED BY <2>1, <2>2, NewJobType, StartType
<1>2. CASE SubmitInline(r)
  <2>1. PICK p \in InlinePaths : Start(r, "prepare", NewJob("inline", p, <<r, p>>, {}, {}))
      BY <1>2 DEF SubmitInline
  <2>2. p \in Paths /\ <<r, p>> \in DocIds
      BY DEF Paths, DocIds, Writers
  <2> QED BY <2>1, <2>2, NewJobType, StartType
<1>3. CASE SubmitScan(r)
  <2>1. PICK T \in (SUBSET FilePaths) \ {{}} :
           Start(r, "scan", NewJob("scan", job[r].path, job[r].doc, T, T))
      BY <1>3 DEF SubmitScan
  <2>2. job[r].path \in Paths /\ job[r].doc \in DocIds /\ T \in SUBSET Paths
      BY DEF TypeInv, TypeOK, Job, Paths
  <2> QED BY <2>1, <2>2, NewJobType, StartType
<1>4. CASE SubmitDelete(r)
  <2>1. PICK x \in docs : Start(r, "lookup", NewJob("delete", x.path, x.id, {x.path} \cap FilePaths, {}))
      BY <1>4 DEF SubmitDelete
  <2>2. x.path \in Paths /\ x.id \in DocIds
      BY DEF TypeInv, TypeOK, DocRow
  <2> QED BY <2>1, <2>2, NewJobType, StartType
<1>5. CASE SubmitReplace(r)
  <2>1. PICK x \in docs, p \in FilePaths :
           Start(r, "lookup", NewJob("replace", p, x.id, ({x.path} \cap FilePaths) \cup {p}, {}))
      BY <1>5 DEF SubmitReplace
  <2>2. p \in Paths /\ x.id \in DocIds
      BY DEF TypeInv, TypeOK, DocRow, Paths
  <2> QED BY <2>1, <2>2, NewJobType, StartType
<1> QED BY <1>1, <1>2, <1>3, <1>4, <1>5 DEF Submit

\* Each step of a request keeps the types.
LEMMA StepType ==
    ASSUME TypeInv, NEW r \in Reqs, Step(r)
    PROVE  TypeInv'
<1> USE DEF TypeInv, stores, counts
<1> USE DEF Working, Answered
<1> DEFINE Labels == {"idle"} \cup Working \cup Answered
<1>0. /\ job[r] \in Job /\ job[r].doc \in DocIds /\ job[r].path \in Paths
      /\ job[r].n \in Nat /\ job[r].old \in SUBSET Nat /\ job[r].from \in Paths
      /\ job[r].todo \in SUBSET Paths /\ job[r].files \in Nat /\ job[r].total \in Nat
      /\ IsFiniteSet(job[r].old)
    BY DEF TypeOK, Job, Finite
<1>a. ASSUME NEW l \in Labels, Goto(r, l) PROVE pc' \in [Reqs -> Labels]
    BY <1>a, GotoType
<1>b. ASSUME NEW j \in Job, IsFiniteSet(j.old), job' = [job EXCEPT ![r] = j]
      PROVE  job' \in [Reqs -> Job] /\ \A q \in Reqs : IsFiniteSet(job'[q].old)
    BY <1>b DEF TypeOK, Finite
<1>1. CASE LookupPath(r)
  <2>1. pc' \in [Reqs -> Labels]
      BY <1>1, <1>a DEF LookupPath
  <2>2. job' \in [Reqs -> Job] /\ \A q \in Reqs : IsFiniteSet(job'[q].old)
    <3>1. CASE job' = job
        BY <3>1 DEF TypeOK, Finite
    <3>2. CASE \E x \in docs : job' = [job EXCEPT ![r].doc = x.id, ![r].exists = TRUE]
      <4>1. PICK x \in docs : job' = [job EXCEPT ![r].doc = x.id, ![r].exists = TRUE]
          BY <3>2
      <4>2. x.id \in DocIds
          BY DEF TypeOK, DocRow
      <4> DEFINE j == [job[r] EXCEPT !.doc = x.id, !.exists = TRUE]
      <4>3. j \in Job /\ j.old = job[r].old
          BY <4>2, <1>0 DEF Job
      <4> QED BY <4>1, <4>3, <1>0, <1>b
    <3> QED BY <1>1, <3>1, <3>2 DEF LookupPath
  <2> QED BY <1>1, <2>1, <2>2 DEF LookupPath, TypeOK, Finite
<1>2. CASE LookupId(r)
  <2>1. pc' \in [Reqs -> Labels]
      BY <1>2, <1>a DEF LookupId
  <2>2. job' \in [Reqs -> Job] /\ \A q \in Reqs : IsFiniteSet(job'[q].old)
    <3>1. CASE job' = job
        BY <3>1 DEF TypeOK, Finite
    <3>2. CASE \E x \in docs : job' = [job EXCEPT ![r].from = x.path, ![r].exists = TRUE]
      <4>1. PICK x \in docs : job' = [job EXCEPT ![r].from = x.path, ![r].exists = TRUE]
          BY <3>2
      <4>2. x.path \in Paths
          BY DEF TypeOK, DocRow
      <4> DEFINE j == [job[r] EXCEPT !.from = x.path, !.exists = TRUE]
      <4>3. j \in Job /\ j.old = job[r].old
          BY <4>2, <1>0 DEF Job
      <4> QED BY <4>1, <4>3, <1>0, <1>b
    <3> QED BY <1>2, <3>1, <3>2 DEF LookupId
  <2> QED BY <1>2, <2>1, <2>2 DEF LookupId, TypeOK, Finite
<1>3. CASE Prepare(r)
  <2>1. pc' \in [Reqs -> Labels]
      BY <1>3, <1>a DEF Prepare, AfterPrepare
  <2>2. PICK n \in ChunkCounts : job' = [job EXCEPT ![r].n = n, ![r].meta = FALSE]
      BY <1>3 DEF Prepare
  <2> DEFINE j == [job[r] EXCEPT !.n = n, !.meta = FALSE]
  <2>3. j \in Job /\ j.old = job[r].old
      BY <1>0, CountsAssumption DEF Job
  <2>4. job' \in [Reqs -> Job] /\ \A q \in Reqs : IsFiniteSet(job'[q].old)
      BY <2>2, <2>3, <1>0, <1>b
  <2> QED BY <1>3, <2>1, <2>4 DEF Prepare, TypeOK, Finite
<1>4. CASE PrepareFails(r)
  <2>1. pc' \in [Reqs -> Labels]
      BY <1>4, <1>a DEF PrepareFails
  <2> QED BY <1>4, <2>1 DEF PrepareFails, TypeOK, Finite
<1>5. CASE ReadOld(r)
  <2>1. pc' \in [Reqs -> Labels]
      BY <1>5, <1>a DEF ReadOld
  <2> DEFINE j == [job[r] EXCEPT !.old = ChunkIdx(job[r].doc)]
  <2>2. ChunkIdx(job[r].doc) \in SUBSET Nat /\ IsFiniteSet(ChunkIdx(job[r].doc))
      BY ChunkIdxFinite DEF TypeOK, Finite
  <2>3. j \in Job /\ j.old = ChunkIdx(job[r].doc)
      BY <1>0, <2>2 DEF Job
  <2>4. job' \in [Reqs -> Job] /\ \A q \in Reqs : IsFiniteSet(job'[q].old)
      BY <1>5, <2>2, <2>3, <1>b DEF ReadOld
  <2> QED BY <1>5, <2>1, <2>4 DEF ReadOld, TypeOK, Finite
<1>6. CASE AcquireLock(r)
  <2>1. pc' \in [Reqs -> Labels]
      BY <1>6, <1>a DEF AcquireLock
  <2> QED BY <1>6, <2>1 DEF AcquireLock, TypeOK, Finite
<1>7. CASE DelVec(r) \/ DelBm25(r)
  <2>1. pc' \in [Reqs -> Labels]
      BY <1>7, <1>a DEF DelVec, DelBm25
  <2>2. table' \subseteq Row /\ bm25' \subseteq Row
      BY <1>7, RemovalType DEF DelVec, DelBm25, TypeOK
  <2> QED BY <1>7, <2>1, <2>2 DEF DelVec, DelBm25, TypeOK, Finite
<1>8. CASE DelChunks(r) \/ DelDoc(r) \/ RbChunks(r) \/ RbDoc(r)
  <2>1. pc' \in [Reqs -> Labels]
      BY <1>8, <1>a DEF DelChunks, DelDoc, RbChunks, RbDoc, Failure
  <2>2. docs' \subseteq docs /\ chunks' \subseteq chunks
      BY <1>8 DEF DelChunks, DelDoc, RbChunks, RbDoc, WithoutDoc, WithoutChunks
  <2>3. IsFiniteSet(chunks')
      BY <2>2, FS_Subset DEF Finite
  <2> QED BY <1>8, <2>1, <2>2, <2>3 DEF DelChunks, DelDoc, RbChunks, RbDoc, TypeOK, Finite
<1>9. CASE TeardownFails(r)
  <2>1. pc' \in [Reqs -> Labels]
      BY <1>9, <1>a DEF TeardownFails
  <2>2. table' \subseteq Row /\ bm25' \subseteq Row
      BY <1>9, RemovalType DEF TeardownFails, MayTake, TypeOK
  <2>3. faults' \in 0..MaxFaults
      BY <1>9, FaultType DEF TeardownFails
  <2> QED BY <1>9, <2>1, <2>2, <2>3 DEF TeardownFails, Release, TypeOK, Finite
<1>10. CASE AddVec(r) \/ AddBm25(r)
  <2>1. pc' \in [Reqs -> Labels]
      BY <1>10, <1>a DEF AddVec, AddBm25
  <2>2. table' \subseteq Row /\ bm25' \subseteq Row
      BY <1>10, NewRowsType DEF AddVec, AddBm25, TypeOK
  <2> QED BY <1>10, <2>1, <2>2 DEF AddVec, AddBm25, TypeOK, Finite
<1>11. CASE AddDoc(r)
  <2>1. pc' \in [Reqs -> Labels]
      BY <1>11, <1>a DEF AddDoc
  <2>2. docs' \subseteq DocRow
      BY <1>11, <1>0 DEF AddDoc, WithoutDoc, DocRow, TypeOK
  <2> QED BY <1>11, <2>1, <2>2 DEF AddDoc, TypeOK, Finite
<1>12. CASE AddChunks(r)
  <2>1. pc' \in [Reqs -> Labels]
      BY <1>12, <1>a DEF AddChunks
  <2>2. IsFiniteSet({job[r].doc} \X (1..job[r].n))
    <3>1. IsFiniteSet({job[r].doc})
        BY FS_Singleton
    <3>2. IsFiniteSet(1..job[r].n)
      <4>1. \A n \in Nat : IsFiniteSet(1..n)
          BY FS_Interval
      <4> QED BY <4>1, <1>0
    <3> QED BY <3>1, <3>2, FS_Product
  <2>3. IsFiniteSet(chunks')
      BY <1>12, <2>2, FS_Union DEF AddChunks, Finite
  <2>4. chunks' \subseteq ChunkRow
      BY <1>12, <1>0 DEF AddChunks, ChunkRow, TypeOK
  <2> QED BY <1>12, <2>1, <2>3, <2>4 DEF AddChunks, TypeOK, Finite
<1>13. CASE SetSize(r)
  <2>1. pc' \in [Reqs -> Labels]
      BY <1>13, <1>a DEF SetSize
  <2>2. docs' \subseteq DocRow
      BY <1>13, <1>0 DEF SetSize, DocRow, TypeOK
  <2> DEFINE j == [job[r] EXCEPT !.files = @ + 1, !.total = @ + job[r].n]
  <2>3. j \in Job /\ j.old = job[r].old
    <3>1. job[r].files + 1 \in Nat /\ job[r].total + job[r].n \in Nat
        BY <1>0
    <3> QED BY <3>1, <1>0, Zenon DEF Job
  <2>4. job' = job \/ job' = [job EXCEPT ![r] = j]
      BY <1>13 DEF SetSize
  <2>5. job' \in [Reqs -> Job] /\ \A q \in Reqs : IsFiniteSet(job'[q].old)
      BY <2>3, <2>4, <1>0, <1>b DEF TypeOK, Finite
  <2> QED BY <1>13, <2>1, <2>2, <2>5 DEF SetSize, TypeOK, Finite
<1>14. CASE WriteFails(r)
  <2>1. pc' \in [Reqs -> Labels]
      BY <1>14, <1>a DEF WriteFails
  <2>2. table' \subseteq Row /\ bm25' \subseteq Row
      BY <1>14, NewRowsType DEF WriteFails, MayTake, TypeOK
  <2>3. faults' \in 0..MaxFaults
      BY <1>14, FaultType DEF WriteFails
  <2> DEFINE j == [job[r] EXCEPT !.meta = MetaBegun(r)]
  <2>4. j \in Job /\ j.old = job[r].old
    <3>1. MetaBegun(r) \in BOOLEAN
        BY SMT DEF MetaBegun
    <3> QED BY <3>1, <1>0, Zenon DEF Job
  <2>5. job' \in [Reqs -> Job] /\ \A q \in Reqs : IsFiniteSet(job'[q].old)
      BY <1>14, <2>4, <1>0, <1>b DEF WriteFails
  <2> QED BY <1>14, <2>1, <2>2, <2>3, <2>5 DEF WriteFails, TypeOK, Finite
<1>15. CASE RbVec(r) \/ RbBm25(r)
  <2>1. pc' \in [Reqs -> Labels]
      BY <1>15, <1>a DEF RbVec, RbBm25, Failure
  <2>2. table' \subseteq Row /\ bm25' \subseteq Row
      BY <1>15, RemovalType DEF RbVec, RbBm25, TypeOK
  <2> QED BY <1>15, <2>1, <2>2 DEF RbVec, RbBm25, TypeOK, Finite
<1>16. CASE RollbackFails(r)
  <2>1. pc' \in [Reqs -> Labels]
      BY <1>16, <1>a DEF RollbackFails, Failure
  <2>2. table' \subseteq Row /\ bm25' \subseteq Row
    <3>1. WithoutNew(table, r) \subseteq table /\ WithoutNew(bm25, r) \subseteq bm25
        BY RemovalType DEF TypeOK
    <3> QED BY <1>16, <3>1 DEF RollbackFails, MayTake, TypeOK
  <2>3. faults' \in 0..MaxFaults
      BY <1>16, FaultType DEF RollbackFails
  <2> DEFINE j == [job[r] EXCEPT !.orphan = TRUE]
  <2>4. j \in Job /\ j.old = job[r].old
      BY <1>0 DEF Job
  <2>5. job' \in [Reqs -> Job] /\ \A q \in Reqs : IsFiniteSet(job'[q].old)
      BY <1>16, <2>4, <1>0, <1>b DEF RollbackFails
  <2> QED BY <1>16, <2>1, <2>2, <2>3, <2>5 DEF RollbackFails, TypeOK, Finite
<1>17. CASE ScanNext(r)
  <2>1. pc' \in [Reqs -> Labels]
      BY <1>17, <1>a DEF ScanNext
  <2>2. job' \in [Reqs -> Job] /\ \A q \in Reqs : IsFiniteSet(job'[q].old)
    <3>1. CASE job' = job
        BY <3>1 DEF TypeOK, Finite
    <3>2. CASE \E p \in job[r].todo :
                 job' = [job EXCEPT ![r].todo = @ \ {p}, ![r].path = p, ![r].doc = <<r, p>>]
      <4>1. PICK p \in job[r].todo :
                 job' = [job EXCEPT ![r].todo = @ \ {p}, ![r].path = p, ![r].doc = <<r, p>>]
          BY <3>2
      <4>2. p \in Paths /\ <<r, p>> \in DocIds
          BY <1>0 DEF DocIds, Writers
      <4> DEFINE j == [job[r] EXCEPT !.todo = @ \ {p}, !.path = p, !.doc = <<r, p>>]
      <4>3. j \in Job /\ j.old = job[r].old
          BY <4>2, <1>0 DEF Job
      <4> QED BY <4>1, <4>3, <1>0, <1>b
    <3> QED BY <1>17, <3>1, <3>2 DEF ScanNext
  <2> QED BY <1>17, <2>1, <2>2 DEF ScanNext, TypeOK, Finite
<1>18. CASE Count(r)
  <2>1. pc' \in [Reqs -> Labels]
      BY <1>18, <1>a DEF Count
  <2>2. Cardinality(job[r].old) \in Nat
      BY <1>0, FS_CardinalityType
  <2>3. fileCount' \in Nat /\ chunkCount' \in Nat
      BY <1>18, <1>0, <2>2 DEF Count, FilesAfter, ChunksAfter, Max0, TypeOK
  <2> QED BY <1>18, <2>1, <2>3 DEF Count, TypeOK, Finite
<1> QED
  BY <1>1, <1>2, <1>3, <1>4, <1>5, <1>6, <1>7, <1>8, <1>9, <1>10, <1>11, <1>12,
     <1>13, <1>14, <1>15, <1>16, <1>17, <1>18 DEF Step

\* The counters stay numbers and the stores hold rows of the right shape in
\* every behaviour of the write path.
THEOREM TypeCorrect == Spec => []TypeOK
<1>1. TypeInv /\ [Next]_vars => TypeInv'
  <2> SUFFICES ASSUME TypeInv, [Next]_vars PROVE TypeInv'
      OBVIOUS
  <2>1. CASE Crash
    <3>1. pc' \in [Reqs -> {"idle"} \cup Working \cup Answered]
        BY <2>1 DEF Crash, TypeInv, TypeOK, Answered
    <3> QED BY <2>1, <3>1, BoundAssumption DEF Crash, TypeInv, TypeOK, Finite, stores, counts
  <2>2. CASE UNCHANGED vars
      BY <2>2 DEF vars, TypeInv, TypeOK, Finite
  <2>3. CASE \E r \in Reqs : Submit(r) \/ Step(r)
      BY <2>3, SubmitType, StepType
  <2> QED BY <2>1, <2>2, <2>3 DEF Next, Waiting
<1>2. TypeInv => TypeOK
    BY DEF TypeInv
<1> QED BY InitTypeInv, <1>1, <1>2, PTL DEF Spec

-----------------------------------------------------------------------------
(* The lock.  LockHeld is inductive once it is known where a delete can be *)
(* and that nothing else waits for the lock ahead of its teardown.         *)

DeletePath == \A r \in Reqs :
    /\ job[r].op = "delete" =>
         pc[r] \in {"lookup", "readOld", "waitLock", "delVec", "delBm25",
                    "delChunks", "delDoc", "count"} \cup Answered
    /\ pc[r] = "waitLock" => job[r].op = "delete"

LockInv == LockHeld /\ DeletePath

\* Every step of a request leaves the other requests and its own kind alone.
LEMMA StepFrame ==
    ASSUME TypeOK, NEW r \in Reqs, Step(r)
    PROVE  \A q \in Reqs : /\ job'[q].op = job[q].op
                           /\ q # r => pc'[q] = pc[q] /\ job'[q] = job[q]
<1> USE DEF TypeOK, Goto
<1>0. job[r] \in Job
    OBVIOUS
<1>1. CASE LookupPath(r)
  <2>1. CASE job' = job
      BY <1>1, <2>1 DEF LookupPath
  <2>2. CASE \E x \in docs : job' = [job EXCEPT ![r].doc = x.id, ![r].exists = TRUE]
    <3>1. PICK x \in docs : job' = [job EXCEPT ![r].doc = x.id, ![r].exists = TRUE]
        BY <2>2
    <3> QED BY <1>1, <3>1, <1>0 DEF LookupPath, Job
  <2> QED BY <1>1, <2>1, <2>2 DEF LookupPath
<1>2. CASE LookupId(r)
  <2>1. CASE job' = job
      BY <1>2, <2>1 DEF LookupId
  <2>2. CASE \E x \in docs : job' = [job EXCEPT ![r].from = x.path, ![r].exists = TRUE]
    <3>1. PICK x \in docs : job' = [job EXCEPT ![r].from = x.path, ![r].exists = TRUE]
        BY <2>2
    <3> QED BY <1>2, <3>1, <1>0 DEF LookupId, Job
  <2> QED BY <1>2, <2>1, <2>2 DEF LookupId
<1>7. CASE Prepare(r)
    BY <1>7, <1>0 DEF Prepare, Job
<1>8. CASE ReadOld(r)
    BY <1>8, <1>0 DEF ReadOld, Job
<1>9. CASE PrepareFails(r) \/ AcquireLock(r)
    BY <1>9 DEF PrepareFails, AcquireLock
<1>3. CASE DelVec(r) \/ DelBm25(r) \/ DelChunks(r) \/ DelDoc(r) \/ TeardownFails(r)
    BY <1>3 DEF DelVec, DelBm25, DelChunks, DelDoc, TeardownFails
<1>4. CASE AddVec(r) \/ AddBm25(r) \/ AddDoc(r) \/ AddChunks(r) \/ SetSize(r) \/ WriteFails(r)
    BY <1>4 DEF AddVec, AddBm25, AddDoc, AddChunks, SetSize, WriteFails, Job
<1>5. CASE RbVec(r) \/ RbBm25(r) \/ RbChunks(r) \/ RbDoc(r) \/ Count(r)
    BY <1>5 DEF RbVec, RbBm25, RbChunks, RbDoc, Count
<1>6. CASE RollbackFails(r)
    BY <1>6, <1>0 DEF RollbackFails, Job
<1>10. CASE ScanNext(r)
  <2>1. CASE job' = job
      BY <1>10, <2>1 DEF ScanNext
  <2>2. CASE \E p \in job[r].todo :
               job' = [job EXCEPT ![r].todo = @ \ {p}, ![r].path = p, ![r].doc = <<r, p>>]
    <3>1. PICK p \in job[r].todo :
               job' = [job EXCEPT ![r].todo = @ \ {p}, ![r].path = p, ![r].doc = <<r, p>>]
        BY <2>2
    <3> QED BY <1>10, <3>1, <1>0 DEF ScanNext, Job
  <2> QED BY <1>10, <2>1, <2>2 DEF ScanNext
<1> QED BY <1>1, <1>2, <1>3, <1>4, <1>5, <1>6, <1>7, <1>8, <1>9, <1>10 DEF Step

LEMMA LockStep ==
    ASSUME TypeOK, LockInv, NEW r \in Reqs, Step(r)
    PROVE  LockInv'
<1> DEFINE Holding(q) == /\ job[q].op = "delete"
                         /\ pc[q] \in {"delVec", "delBm25", "delChunks", "delDoc", "count"}
<1> DEFINE Placed(q) == /\ job[q].op = "delete" =>
                             pc[q] \in {"lookup", "readOld", "waitLock", "delVec", "delBm25",
                                        "delChunks", "delDoc", "count"} \cup Answered
                        /\ pc[q] = "waitLock" => job[q].op = "delete"
<1>0. /\ \A q \in Reqs : (lock = q <=> Holding(q)) /\ Placed(q)
      /\ pc \in [Reqs -> {"idle"} \cup Working \cup Answered]
      /\ lock \in Reqs \cup {Free} /\ Free \notin Reqs
    BY ReqsAssumption DEF LockInv, LockHeld, DeletePath, TypeOK
<1>1. \A q \in Reqs : /\ job'[q].op = job[q].op
                      /\ q # r => pc'[q] = pc[q] /\ job'[q] = job[q]
    BY StepFrame
<1>2. /\ lock' \in {lock, Free} \/ (lock' = r /\ lock = Free)
      /\ lock' # lock => lock \in {r, Free}
      /\ lock' = r <=> Holding(r)'
      /\ Placed(r)'
  <2> USE <1>0, <1>1 DEF Goto, Answered
  <2>1. CASE LookupPath(r) \/ LookupId(r)
      BY <2>1 DEF LookupPath, LookupId
  <2>2. CASE Prepare(r) \/ PrepareFails(r)
      BY <2>2 DEF Prepare, AfterPrepare, PrepareFails
  <2>3. CASE ReadOld(r)
      BY <2>3 DEF ReadOld
  <2>4. CASE AcquireLock(r)
      BY <2>4 DEF AcquireLock
  <2>5. CASE DelVec(r) \/ DelBm25(r) \/ DelChunks(r) \/ DelDoc(r)
      BY <2>5 DEF DelVec, DelBm25, DelChunks, DelDoc
  <2>6. CASE TeardownFails(r)
      BY <2>6 DEF TeardownFails, Release
  <2>7. CASE AddVec(r) \/ AddBm25(r) \/ AddDoc(r) \/ AddChunks(r)
      BY <2>7 DEF AddVec, AddBm25, AddDoc, AddChunks
  <2>8. CASE SetSize(r) \/ WriteFails(r)
      BY <2>8 DEF SetSize, WriteFails
  <2>9. CASE RbVec(r) \/ RbBm25(r) \/ RbChunks(r) \/ RbDoc(r) \/ RollbackFails(r)
      BY <2>9 DEF RbVec, RbBm25, RbChunks, RbDoc, RollbackFails, Failure
  <2>10. CASE ScanNext(r)
      BY <2>10 DEF ScanNext
  <2>11. CASE Count(r)
      BY <2>11 DEF Count
  <2> QED BY <2>1, <2>2, <2>3, <2>4, <2>5, <2>6, <2>7, <2>8, <2>9, <2>10, <2>11 DEF Step
<1>3. \A q \in Reqs : (lock' = q <=> Holding(q)') /\ Placed(q)'
    BY <1>0, <1>1, <1>2
<1> QED BY <1>3 DEF LockInv, LockHeld, DeletePath

\* A delete, and nothing else, holds the lock from its first removal to its
\* last; whatever fails, it lets the lock go.
THEOREM LockCorrect == Spec => []LockHeld
<1>1. Init => LockInv
    BY ReqsAssumption DEF Init, LockInv, LockHeld, DeletePath, NewJob
<1>2. TypeOK /\ LockInv /\ [Next]_vars => LockInv'
  <2> SUFFICES ASSUME TypeOK, LockInv, [Next]_vars PROVE LockInv'
      OBVIOUS
  <2>1. CASE Crash
      BY <2>1, ReqsAssumption
         DEF Crash, Active, LockInv, LockHeld, DeletePath, Answered, Working, TypeOK
  <2>2. CASE UNCHANGED vars
      BY <2>2 DEF vars, LockInv, LockHeld, DeletePath
  <2>3. ASSUME NEW r \in Reqs, Step(r) PROVE LockInv'
      BY <2>3, LockStep
  <2>4. ASSUME NEW r \in Reqs, Submit(r) PROVE LockInv'
    <3>1. \E l, j : Start(r, l, j) /\ l \in {"lookup", "prepare", "scan"}
                    /\ (j.op = "delete" => l = "lookup")
      <4>1. CASE SubmitIngest(r)
          BY <4>1 DEF SubmitIngest, NewJob
      <4>2. CASE SubmitInline(r)
          BY <4>2 DEF SubmitInline, NewJob
      <4>3. CASE SubmitScan(r)
          BY <4>3 DEF SubmitScan, NewJob
      <4>4. CASE SubmitDelete(r)
          BY <4>4 DEF SubmitDelete, NewJob
      <4>5. CASE SubmitReplace(r)
          BY <4>5 DEF SubmitReplace, NewJob
      <4> QED BY <2>4, <4>1, <4>2, <4>3, <4>4, <4>5 DEF Submit
    <3>2. PICK l, j : Start(r, l, j) /\ l \in {"lookup", "prepare", "scan"}
                      /\ (j.op = "delete" => l = "lookup")
        BY <3>1
    <3> QED BY <3>2 DEF Start, Goto, LockInv, LockHeld, DeletePath, TypeOK
  <2> QED BY <2>1, <2>2, <2>3, <2>4 DEF Next, Waiting
<1>3. LockInv => LockHeld
    BY DEF LockInv
<1> QED BY <1>1, <1>2, <1>3, TypeCorrect, PTL DEF Spec
=============================================================================
