---------------------------- MODULE DocStores_proofs ----------------------------
(***************************************************************************)
(* What the four stores hold of each document while requests step through  *)
(* the write path, for any number of requests, paths, chunks, faults and   *)
(* crashes, when clients never overlap requests on one document            *)
(* (Exclusive).  From one inductive invariant, DocInv:                     *)
(*   - no row outlives its document unnoticed      (NoOrphanRowsCorrect)   *)
(*   - a failed write leaves nothing behind        (CleanFailureCorrect)   *)
(*   - a settled document is one whole version     (DocWholeCorrect)       *)
(*   - one document per file                       (PathUniqueCorrect)     *)
(*   - bystanders keep their vectors               (BystanderCorrect)      *)
(*   - searches see whole versions or none         (RefinesCatalog)        *)
(*   - the counters agree with what is stored (CountsAccountedCorrect)     *)
(*                                                                         *)
(* The argument: at each place of the path a request knows what is stored  *)
(* of its document (Progress); other requests keep off that document       *)
(* (Apart, Claims, Fresh), or take all of it at once and only under a path *)
(* where an earlier failure is on record (Chunkless, Touched).             *)
(***************************************************************************)
EXTENDS DocWrite_proofs

-----------------------------------------------------------------------------
(* The parts of the invariant.                                             *)

RowsOf(store, d) == {y \in store : y.doc = d}
Vec(d) == RowsOf(table, d)
Ent(d) == RowsOf(bm25, d)

\* Nothing is stored of d.
Empty(d) == Vec(d) = {} /\ Ent(d) = {} /\ ChunkIdx(d) = {} /\ ~Known(d)

\* All that is stored of d is of the version of n chunks that w wrote under p.
Stored(d, p, w, n) == /\ Vec(d) \in {{}, Batch(d, p, w, n)}
                      /\ Ent(d) \in {{}, Batch(d, p, w, n)}
                      /\ ChunkIdx(d) \in {{}, 1..n}
                      /\ \A x \in docs : x.id = d => x.path = p

OneVersion == \A d \in DocIds : \E p \in Paths, w \in Writers, n \in ChunkCounts :
                                   Stored(d, p, w, n)

Listed == /\ \A d \in DocIds : ChunkIdx(d) # {} => Known(d)
          /\ \A x, y \in docs : x.id = y.id => x = y

\* Requests at work have no document and no file in common.
Apart == \A q, r \in Reqs : q # r /\ Active(q) /\ Active(r) =>
            job[q].doc # job[r].doc /\ job[q].claim \cap job[r].claim = {}

\* Places of a request.
Teardown == {"readOld", "waitLock", "delVec", "delBm25", "delChunks", "delDoc"}
Adding   == {"addVec", "addBm25", "addDoc", "addChunks", "setSize"}
Rolling  == {"rbVec", "rbBm25", "rbChunks", "rbDoc"}

\* The fields of a request agree with what it is asked for and where it is.
Kind(r) ==
    /\ pc[r] = "idle" <=> job[r].op = "none"
    /\ job[r].op = "none" => job[r].claim = {} /\ ~job[r].orphan
    /\ job[r].op \in {"none", "inline", "scan"} => job[r].doc = <<r, job[r].path>>
    /\ job[r].op = "ingest" /\ ~job[r].exists => job[r].doc = <<r, job[r].path>>
    /\ job[r].op = "ingest" => job[r].path \in FilePaths /\ job[r].from = job[r].path
    /\ job[r].op = "inline" => job[r].path \in InlinePaths
    /\ job[r].op \in {"ingest", "replace"} => job[r].path \in job[r].claim
    /\ job[r].op = "scan" => job[r].path \in {job[r].from} \cup job[r].claim
    /\ job[r].op = "scan" => job[r].todo \subseteq job[r].claim
    /\ job[r].exists => job[r].op \in {"ingest", "replace", "delete"}
    /\ job[r].orphan => job[r].op = "scan" \/ pc[r] \in {"rbChunks", "rbDoc", "orphan", "lost"}
    /\ pc[r] \in Teardown => job[r].exists
    /\ pc[r] = "prepare" /\ job[r].op = "replace" => job[r].exists
    /\ pc[r] = "lookup" => job[r].op \in {"ingest", "replace", "delete"} /\ ~job[r].exists
    /\ pc[r] = "scan" => job[r].op = "scan"
    /\ pc[r] \in Working \ {"scan", "count"} /\ job[r].op = "scan" =>
         job[r].path \in job[r].claim /\ job[r].path \notin job[r].todo
    /\ pc[r] \in Adding \cup Rolling \cup {"prepare"} => job[r].op # "delete"
Kinds == \A r \in Reqs : Kind(r)

\* The path of a document at work is among the paths its request is about.
Claims == \A r \in Reqs, x \in docs :
    Active(r) /\ x.id = job[r].doc /\ (x.path \in FilePaths \/ job[r].op = "scan")
      => x.path \in job[r].claim

\* Documents that a request is still to make are not there yet.
Unmade(r, p) == pc[r] = "idle" \/ (job[r].op = "scan" /\ p \in job[r].todo)
Fresh == \A r \in Reqs, p \in Paths : Unmade(r, p) =>
            Empty(<<r, p>>) /\ \A q \in Reqs \ {r} : job[q].doc # <<r, p>>

\* A request that ended badly may have left damage under these paths.
Touch(s)   == {job[s].path, job[s].from} \cup job[s].claim
Touched(p) == \E s \in Reqs : Damaged(s) /\ p \in Touch(s)

\* What is stored of the document d that r works on.
AtOld(r, d) ==
    /\ pc[r] \in {"lookup", "prepare"} /\ ~job[r].exists
         /\ job[r].op \in {"ingest", "inline", "scan"} => Empty(d)
    /\ pc[r] \in Teardown \cup {"prepare"} /\ job[r].exists =>
         \E x \in docs : x.id = d /\ x.path = job[r].from
    /\ pc[r] \in {"waitLock", "delVec", "delBm25", "delChunks"} => job[r].old = ChunkIdx(d)
    /\ pc[r] \in Teardown /\ job[r].op # "delete" => job[r].n \in ChunkCounts
AtCut(r, d) ==
    /\ pc[r] \in {"delBm25", "delChunks", "delDoc", "addVec"} => Vec(d) = {}
    /\ pc[r] \in {"delChunks", "delDoc", "addVec", "addBm25"} => Ent(d) = {}
    /\ pc[r] \in {"delDoc", "addVec", "addBm25", "addDoc", "addChunks"} => ChunkIdx(d) = {}
    /\ pc[r] \in {"addVec", "addBm25", "addDoc"} => ~Known(d)
AtNew(r, d) ==
    /\ pc[r] \in Adding \cup Rolling => job[r].n \in ChunkCounts /\ Stored(d, job[r].path, r, job[r].n)
    /\ pc[r] \in Adding \ {"addVec"} => Vec(d) = NewRows(r) \/ Touched(job[r].path)
    /\ pc[r] \in Adding \ {"addVec", "addBm25"} => Ent(d) = NewRows(r) \/ Touched(job[r].path)
    /\ pc[r] \in {"addChunks", "setSize"} => Known(d)
    /\ pc[r] = "setSize" => ChunkIdx(d) = 1..job[r].n
AtBack(r, d) ==
    /\ pc[r] \in {"rbVec", "rbBm25"} /\ ~job[r].meta => ChunkIdx(d) = {} /\ ~Known(d)
    /\ pc[r] \in {"rbBm25", "rbChunks", "rbDoc"} /\ ~job[r].orphan => Vec(d) = {}
    /\ pc[r] \in {"rbChunks", "rbDoc"} /\ ~job[r].orphan => Ent(d) = {}
At(r, d) == AtOld(r, d) /\ AtCut(r, d) /\ AtNew(r, d) /\ AtBack(r, d)
Progress == \A r \in Reqs, d \in DocIds : job[r].doc = d => At(r, d)

\* Rows of a request are rows of its document, until a rollback removed them.
Wrote == (Adding \ {"addVec"}) \cup Rolling \cup {"count", "ok", "orphan", "lost"}
ByWriter == \A x \in table \cup bm25 : x.by \in Reqs /\ job[x.by].op # "scan" =>
               x.doc = job[x.by].doc /\ pc[x.by] \in Wrote

\* A new document whose write failed is gone and stays so.
Gone == \A r \in Reqs : pc[r] = "failed" /\ job[r].op \in {"ingest", "inline"} /\ ~job[r].exists =>
            /\ ~Known(job[r].doc) /\ ChunkIdx(job[r].doc) = {}
            /\ \A q \in Reqs : Active(q) => job[q].doc # job[r].doc

\* A listed document is whole, or being changed, or under a path with damage.
Whole(x) == /\ x.size \in ChunkCounts /\ ChunkIdx(x.id) = 1..x.size
            /\ \E w \in Writers : Vec(x.id) = Batch(x.id, x.path, w, x.size)
            /\ Ent(x.id) = Vec(x.id)
Changing == {"delBm25", "delChunks", "delDoc", "addChunks", "setSize"} \cup Rolling
Busy(x)  == \E r \in Reqs : job[r].doc = x.id /\ pc[r] \in Changing
WholeOr  == \A x \in docs : Whole(x) \/ Busy(x) \/ Touched(x.path)

\* A document without chunk rows is being changed, or a request left it so.
Blames(q, x) == Damaged(q) /\ (job[q].doc = x.id \/ x.id[1] = q) /\ x.path \in Touch(q)
Cut(x)    == \E r \in Reqs : job[r].doc = x.id /\ pc[r] \in {"delDoc", "addChunks"} \cup Rolling
Chunkless == \A x \in docs : ChunkIdx(x.id) = {} => Cut(x) \/ \E q \in Reqs : Blames(q, x)

\* An ingest works on the one document of its file.
Sole == \A r \in Reqs, x \in docs :
   /\ Active(r) /\ job[r].op = "ingest" /\ pc[r] # "lookup"
   /\ OnlyIngested(job[r].path) /\ x.path = job[r].path
   => x.id = job[r].doc

DocInv == /\ TypeOK /\ Kinds /\ Apart /\ Claims /\ Fresh /\ OneVersion /\ Listed /\ Progress
          /\ ByWriter /\ Gone /\ WholeOr /\ Chunkless /\ Sole /\ NoOrphanRows /\ PathUnique

-----------------------------------------------------------------------------
(* What removals and additions do to the rows of a document.               *)

\* Removing ids of d leaves the other documents, and all of d if all ids go.
LEMMA RowsWithoutIds ==
    ASSUME NEW S, NEW d, NEW ids
    PROVE  /\ \A e : e # d => RowsOf(WithoutIds(S, d, ids), e) = RowsOf(S, e)
           /\ (\A x \in S : x.doc = d => x.idx \in ids) => RowsOf(WithoutIds(S, d, ids), d) = {}
BY DEF RowsOf, WithoutIds

\* Removing a path takes documents whose rows are all under it, and no others.
LEMMA RowsWithoutPath ==
    ASSUME NEW S, NEW d, NEW q
    PROVE  /\ (\A x \in RowsOf(S, d) : x.path = q) => RowsOf(WithoutPath(S, q), d) = {}
           /\ (\A x \in RowsOf(S, d) : x.path # q) => RowsOf(WithoutPath(S, q), d) = RowsOf(S, d)
BY DEF RowsOf, WithoutPath

\* Added rows of d are added to d alone.
LEMMA RowsAdded ==
    ASSUME NEW S, NEW d, NEW p, NEW w, NEW n
    PROVE  /\ \A e : e # d => RowsOf(S \cup Batch(d, p, w, n), e) = RowsOf(S, e)
           /\ RowsOf(S \cup Batch(d, p, w, n), d) = RowsOf(S, d) \cup Batch(d, p, w, n)
<1>1. \A y \in Batch(d, p, w, n) : y.doc = d
    BY DEF Batch
<1> QED BY <1>1 DEF RowsOf

\* The rows of one version have its document, its path and its indices.
LEMMA BatchRows ==
    ASSUME NEW d, NEW p, NEW w, NEW n
    PROVE  \A y \in Batch(d, p, w, n) : y.doc = d /\ y.path = p /\ y.by = w /\ y.idx \in 1..n
BY DEF Batch

\* A removal by path takes a version as a whole or leaves it.
LEMMA PathTakesVersions ==
    ASSUME NEW S, NEW d, NEW p, NEW w, NEW n, RowsOf(S, d) \in {{}, Batch(d, p, w, n)}, NEW q
    PROVE  /\ p = q => RowsOf(WithoutPath(S, q), d) = {}
           /\ p # q => RowsOf(WithoutPath(S, q), d) = RowsOf(S, d)
<1>1. \A x \in RowsOf(S, d) : x.path = p
    BY BatchRows
<1> QED BY <1>1, RowsWithoutPath

\* The removal of the old version of d leaves nothing of it; of another
\* document it leaves everything, or nothing if it is a removal by its path.
LEMMA OldRemoved ==
    ASSUME NEW r \in Reqs, NEW d, job[r].doc = d, NEW S,
           \A x \in RowsOf(S, d) : x.path = job[r].from,
           job[r].old # {} => \A x \in RowsOf(S, d) : x.idx \in job[r].old
    PROVE  RowsOf(WithoutOld(S, r), d) = {}
<1>1. CASE job[r].old = {}
    BY <1>1, RowsWithoutPath DEF WithoutOld
<1>2. CASE job[r].old # {}
    BY <1>2 DEF WithoutOld, WithoutIds, RowsOf
<1> QED BY <1>1, <1>2

LEMMA OldRemovedElsewhere ==
    ASSUME NEW r \in Reqs, NEW S, NEW e, e # job[r].doc, NEW p, NEW w, NEW n,
           RowsOf(S, e) \in {{}, Batch(e, p, w, n)}
    PROVE  \/ RowsOf(WithoutOld(S, r), e) = RowsOf(S, e)
           \/ /\ RowsOf(WithoutOld(S, r), e) = {} /\ job[r].old = {}
              /\ \A x \in RowsOf(S, e) : x.path = job[r].from
<1>1. CASE job[r].old = {}
  <2>1. WithoutOld(S, r) = WithoutPath(S, job[r].from)
      BY <1>1 DEF WithoutOld
  <2>2. CASE p = job[r].from
      BY <1>1, <2>1, <2>2, PathTakesVersions, BatchRows
  <2>3. CASE p # job[r].from
    <3>1. \A x \in RowsOf(S, e) : x.path # job[r].from
        BY <2>3, BatchRows
    <3> QED BY <2>1, <3>1, RowsWithoutPath
  <2> QED BY <2>2, <2>3
<1>2. CASE job[r].old # {}
    BY <1>2, RowsWithoutIds DEF WithoutOld
<1> QED BY <1>1, <1>2

\* Chunk rows and documents, by document.
LEMMA ChunksRemoved ==
    ASSUME NEW d, chunks' = WithoutChunks(d)
    PROVE  ChunkIdx(d)' = {} /\ \A e : e # d => ChunkIdx(e)' = ChunkIdx(e)
BY DEF WithoutChunks, ChunkIdx

\* Chunk rows added to d are added to d alone.
LEMMA ChunksAdded ==
    ASSUME NEW d, NEW n, chunks' = chunks \cup ({d} \X (1..n))
    PROVE  /\ ChunkIdx(d)' = ChunkIdx(d) \cup 1..n
           /\ \A e : e # d => ChunkIdx(e)' = ChunkIdx(e)
<1>1. \A c \in {d} \X (1..n) : c[1] = d /\ c[2] \in 1..n
    OBVIOUS
<1>2. \A i \in 1..n : <<d, i>> \in {d} \X (1..n) /\ <<d, i>>[1] = d /\ <<d, i>>[2] = i
    OBVIOUS
<1>3. ChunkIdx(d)' = ChunkIdx(d) \cup 1..n
  <2>1. ASSUME NEW i \in 1..n PROVE i \in ChunkIdx(d)'
      BY <1>2 DEF ChunkIdx
  <2>2. ChunkIdx(d) \subseteq ChunkIdx(d)'
      BY DEF ChunkIdx
  <2>3. ChunkIdx(d)' \subseteq ChunkIdx(d) \cup 1..n
      BY <1>1 DEF ChunkIdx
  <2> QED BY <2>1, <2>2, <2>3
<1>4. ASSUME NEW e, e # d PROVE ChunkIdx(e)' = ChunkIdx(e)
    BY <1>1, <1>4 DEF ChunkIdx
<1> QED BY <1>3, <1>4

-----------------------------------------------------------------------------
(* What a step of a request does to its fields.                            *)

\* The types of the fields of a request.
LEMMA JobFields ==
    ASSUME TypeOK, NEW r \in Reqs
    PROVE  /\ job[r] \in Job /\ job[r].op \in AllOps \cup {"none"} /\ job[r].path \in Paths
           /\ job[r].doc \in DocIds /\ job[r].n \in Nat /\ job[r].exists \in BOOLEAN
           /\ job[r].old \in SUBSET Nat /\ job[r].from \in Paths
           /\ job[r].claim \in SUBSET FilePaths /\ job[r].meta \in BOOLEAN
           /\ job[r].orphan \in BOOLEAN /\ job[r].todo \in SUBSET Paths
           /\ pc[r] \in {"idle"} \cup Working \cup Answered
BY DEF TypeOK, Job

\* A step that looks up its document or goes on to the next file changes
\* which one that is; no other does.
LEMMA StepJob ==
    ASSUME TypeOK, NEW r \in Reqs, Step(r)
    PROVE  /\ job'[r].op = job[r].op /\ job'[r].claim = job[r].claim
           /\ pc[r] \notin {"lookup", "scan"} =>
                /\ job'[r].doc = job[r].doc /\ job'[r].path = job[r].path
                /\ job'[r].from = job[r].from /\ job'[r].exists = job[r].exists
                /\ job'[r].todo = job[r].todo
           /\ pc[r] \notin {"lookup", "scan", "prepare"} => job'[r].n = job[r].n
           /\ pc[r] \notin {"lookup", "scan", "readOld"} => job'[r].old = job[r].old
           /\ pc[r] \in {"lookup", "scan"} \cup Teardown => job'[r].orphan = job[r].orphan
           /\ pc[r] \notin Rolling => job'[r].orphan = job[r].orphan
           /\ job[r].orphan => job'[r].orphan
           /\ pc[r] \in Rolling => job'[r].meta = job[r].meta
           /\ pc[r] = "lookup" => job'[r].path = job[r].path /\ job'[r].todo = job[r].todo
           /\ pc[r] = "scan" => job'[r].from = job[r].from /\ job'[r].exists = job[r].exists
<1> USE DEF TypeOK, Goto
<1>0. job[r] \in Job
    OBVIOUS
<1>1. CASE LookupPath(r)
  <2>1. CASE job' = job
      BY <1>1, <2>1 DEF LookupPath, Teardown, Rolling
  <2>2. CASE \E x \in docs : job' = [job EXCEPT ![r].doc = x.id, ![r].exists = TRUE]
    <3>1. PICK x \in docs : job' = [job EXCEPT ![r].doc = x.id, ![r].exists = TRUE]
        BY <2>2
    <3> QED BY <1>1, <3>1, <1>0 DEF LookupPath, Job, Teardown, Rolling
  <2> QED BY <1>1, <2>1, <2>2 DEF LookupPath
<1>2. CASE LookupId(r)
  <2>1. CASE job' = job
      BY <1>2, <2>1 DEF LookupId, Teardown, Rolling
  <2>2. CASE \E x \in docs : job' = [job EXCEPT ![r].from = x.path, ![r].exists = TRUE]
    <3>1. PICK x \in docs : job' = [job EXCEPT ![r].from = x.path, ![r].exists = TRUE]
        BY <2>2
    <3> QED BY <1>2, <3>1, <1>0 DEF LookupId, Job, Teardown, Rolling
  <2> QED BY <1>2, <2>1, <2>2 DEF LookupId
<1>3. CASE Prepare(r)
    BY <1>3, <1>0 DEF Prepare, Job, Teardown, Rolling
<1>4. CASE ReadOld(r)
    BY <1>4, <1>0 DEF ReadOld, Job, Teardown, Rolling
<1>5. CASE UNCHANGED job
    BY <1>5
<1>6. CASE PrepareFails(r) \/ AcquireLock(r)
    BY <1>5, <1>6 DEF PrepareFails, AcquireLock
<1>7. CASE DelVec(r) \/ DelBm25(r) \/ DelChunks(r) \/ DelDoc(r) \/ TeardownFails(r)
    BY <1>5, <1>7 DEF DelVec, DelBm25, DelChunks, DelDoc, TeardownFails
<1>8. CASE AddVec(r) \/ AddBm25(r) \/ AddDoc(r) \/ AddChunks(r)
    BY <1>5, <1>8 DEF AddVec, AddBm25, AddDoc, AddChunks
<1>9. CASE SetSize(r) \/ WriteFails(r)
    BY <1>9, <1>0 DEF SetSize, WriteFails, Job, Teardown, Rolling
<1>10. CASE RbVec(r) \/ RbBm25(r) \/ RbChunks(r) \/ RbDoc(r) \/ Count(r)
    BY <1>5, <1>10 DEF RbVec, RbBm25, RbChunks, RbDoc, Count
<1>11. CASE RollbackFails(r)
    BY <1>11, <1>0 DEF RollbackFails, Job, Teardown, Rolling
<1>12. CASE ScanNext(r)
  <2>1. CASE job' = job
      BY <1>12, <2>1 DEF ScanNext, Teardown, Rolling
  <2>2. CASE \E p \in job[r].todo :
               job' = [job EXCEPT ![r].todo = @ \ {p}, ![r].path = p, ![r].doc = <<r, p>>]
    <3>1. PICK p \in job[r].todo :
               job' = [job EXCEPT ![r].todo = @ \ {p}, ![r].path = p, ![r].doc = <<r, p>>]
        BY <2>2
    <3> QED BY <1>12, <3>1, <1>0 DEF ScanNext, Job, Teardown, Rolling
  <2> QED BY <1>12, <2>1, <2>2 DEF ScanNext
<1> QED BY <1>1, <1>2, <1>3, <1>4, <1>6, <1>7, <1>8, <1>9, <1>10, <1>11, <1>12 DEF Step

\* Only a request at work takes a step, and it stays known what it did.
LEMMA StepPlace ==
    ASSUME TypeOK, NEW r \in Reqs, Step(r)
    PROVE  /\ Active(r) /\ pc'[r] \in Working \cup Answered
           /\ pc[r] = "scan" => pc'[r] \in {"prepare", "count"}
           /\ pc[r] = "lookup" => pc'[r] \in {"prepare", "readOld", "notFound"}
           /\ pc'[r] # "lost"
<1> USE DEF TypeOK, Goto, Active, Working, Answered
<1>1. CASE LookupPath(r) \/ LookupId(r) \/ Prepare(r) \/ PrepareFails(r) \/ ReadOld(r)
    BY <1>1 DEF LookupPath, LookupId, Prepare, PrepareFails, ReadOld, AfterPrepare
<1>2. CASE AcquireLock(r) \/ DelVec(r) \/ DelBm25(r) \/ DelChunks(r) \/ DelDoc(r) \/ TeardownFails(r)
    BY <1>2 DEF AcquireLock, DelVec, DelBm25, DelChunks, DelDoc, TeardownFails
<1>3. CASE AddVec(r) \/ AddBm25(r) \/ AddDoc(r) \/ AddChunks(r) \/ SetSize(r) \/ WriteFails(r)
    BY <1>3 DEF AddVec, AddBm25, AddDoc, AddChunks, SetSize, WriteFails
<1>4. CASE RbVec(r) \/ RbBm25(r) \/ RbChunks(r) \/ RbDoc(r) \/ RollbackFails(r)
    BY <1>4 DEF RbVec, RbBm25, RbChunks, RbDoc, RollbackFails, Failure
<1>5. CASE ScanNext(r) \/ Count(r)
    BY <1>5 DEF ScanNext, Count
<1> QED BY <1>1, <1>2, <1>3, <1>4, <1>5 DEF Step

-----------------------------------------------------------------------------
(* Damage, once done, stays on record.                                     *)

\* A request keeps its part in what happened.
LEMMA DamageKept ==
    ASSUME TypeOK, Kinds, NEW r \in Reqs, Step(r), NEW q \in Reqs, Damaged(q)
    PROVE  Damaged(q)' /\ Touch(q) \subseteq Touch(q)'
<1>1. CASE q # r
  <2>1. pc'[q] = pc[q] /\ job'[q] = job[q]
      BY <1>1, StepFrame
  <2> QED BY <2>1 DEF Damaged, Reported, Touch
<1>2. CASE q = r
  <2>1. Active(r) /\ (job[r].orphan => job'[r].orphan)
      BY StepJob, StepPlace
  <2>2. job[r].orphan
      BY <1>2, <2>1 DEF Damaged, Reported, Active, Working
  <2>3. job[r].op = "scan" \/ pc[r] \in {"rbChunks", "rbDoc"}
      BY <2>1, <2>2 DEF Kinds, Kind, Active, Working
  <2>4. CASE pc[r] \notin {"lookup", "scan"}
      BY <1>2, <2>1, <2>2, <2>4, StepJob DEF Damaged, Reported, Touch
  <2>5. CASE pc[r] \in {"lookup", "scan"}
    <3>1. job[r].op = "scan" /\ pc[r] = "scan"
        BY <2>3, <2>5 DEF Kinds, Kind
    <3>2. Touch(r) \subseteq {job[r].from} \cup job[r].claim
        BY <3>1 DEF Kinds, Kind, Touch
    <3>3. job'[r].from = job[r].from /\ job'[r].claim = job[r].claim
        BY <3>1, StepJob
    <3> QED BY <1>2, <2>1, <2>2, <3>2, <3>3 DEF Damaged, Reported, Touch
  <2> QED BY <2>4, <2>5
<1> QED BY <1>1, <1>2

\* A path with damage stays one.
LEMMA TouchedKept ==
    ASSUME TypeOK, Kinds, NEW r \in Reqs, Step(r)
    PROVE  \A p : Touched(p) => Touched(p)'
BY DamageKept DEF Touched

\* Documents without chunk rows that are torn down were left so by another request.
LEMMA ByPathBlamed ==
    ASSUME DocInv, NEW r \in Reqs, pc[r] \in {"delVec", "delBm25"}, job[r].old = {}
    PROVE  \E x \in docs, q \in Reqs \ {r} :
              x.id = job[r].doc /\ x.path = job[r].from /\ Blames(q, x)
<1> DEFINE d == job[r].doc
<1>1. d \in DocIds /\ At(r, d)
    BY JobFields DEF DocInv, Progress
<1>2. pc[r] \in Teardown /\ job[r].exists /\ Active(r)
    BY DEF Teardown, DocInv, Kinds, Kind, Active, Working
<1>3. PICK x \in docs : x.id = d /\ x.path = job[r].from
    BY <1>1, <1>2 DEF At, AtOld
<1>4. ChunkIdx(d) = {}
    BY <1>1 DEF At, AtOld
<1>5. ~Cut(x)
  <2> SUFFICES ASSUME NEW q \in Reqs, job[q].doc = d, pc[q] \in {"delDoc", "addChunks"} \cup Rolling
               PROVE  FALSE
      BY <1>3 DEF Cut
  <2>1. Active(q) /\ q # r
      BY DEF Active, Working, Rolling
  <2> QED BY <1>2, <2>1 DEF DocInv, Apart
<1>6. PICK q \in Reqs : Blames(q, x)
    BY <1>3, <1>4, <1>5 DEF DocInv, Chunkless
<1>7. q # r
  <2>1. ~Damaged(r)
      BY <1>2 DEF DocInv, Kinds, Kind, Damaged, Reported, Rolling
  <2> QED BY <1>6, <2>1 DEF Blames
<1> QED BY <1>3, <1>6, <1>7

\* A removal by path is under a path with damage.
LEMMA ByPathTouched ==
    ASSUME DocInv, NEW r \in Reqs, pc[r] \in {"delVec", "delBm25"}, job[r].old = {}
    PROVE  Touched(job[r].from)
BY ByPathBlamed DEF Blames, Touched

-----------------------------------------------------------------------------
(* A step of a request on other documents than its own.                    *)

\* Rows of e are left alone, or all removed under a path with damage.
Spared(S, T, e) == \/ RowsOf(T, e) = RowsOf(S, e)
                   \/ RowsOf(T, e) = {} /\ \A x \in RowsOf(S, e) : Touched(x.path)

\* The removal of an old version takes nothing else, or all under its path.
LEMMA OldSpares ==
    ASSUME DocInv, NEW r \in Reqs, pc[r] \in {"delVec", "delBm25"}, NEW e \in DocIds,
           e # job[r].doc
    PROVE  Spared(table, WithoutOld(table, r), e) /\ Spared(bm25, WithoutOld(bm25, r), e)
<1>1. PICK p \in Paths, w \in Writers, n \in ChunkCounts : Stored(e, p, w, n)
    BY DEF DocInv, OneVersion
<1>2. /\ RowsOf(table, e) \in {{}, Batch(e, p, w, n)}
      /\ RowsOf(bm25, e) \in {{}, Batch(e, p, w, n)}
    BY <1>1 DEF Stored, Vec, Ent
<1>3. job[r].old = {} => Touched(job[r].from)
    BY ByPathTouched
<1> QED BY <1>2, <1>3, OldRemovedElsewhere DEF Spared

\* Adding and removing the new version leaves other documents alone.
LEMMA NewSpares ==
    ASSUME NEW r \in Reqs, NEW e, e # job[r].doc, NEW S
    PROVE  Spared(S, WithoutNew(S, r), e) /\ Spared(S, S \cup NewRows(r), e)
           /\ Spared(S, WithoutNew(S, r) \cup NewRows(r), e)
<1>1. RowsOf(WithoutNew(S, r), e) = RowsOf(S, e)
    BY RowsWithoutIds DEF WithoutNew
<1>2. \A T : RowsOf(T \cup NewRows(r), e) = RowsOf(T, e)
  <2>1. \A y \in NewRows(r) : y.doc = job[r].doc
      BY BatchRows DEF NewRows
  <2> QED BY <2>1 DEF RowsOf
<1> QED BY <1>1, <1>2 DEF Spared

\* All a step does to a document that is not its own.
LEMMA Elsewhere ==
    ASSUME DocInv, NEW r \in Reqs, Step(r), NEW e \in DocIds, e # job[r].doc
    PROVE  /\ Spared(table, table', e) /\ Spared(bm25, bm25', e)
           /\ ChunkIdx(e)' = ChunkIdx(e)
           /\ \A x \in docs' : x.id = e => x \in docs
           /\ \A x \in docs : x.id = e => x \in docs'
<1> USE DEF Goto
<1>0. Spared(table, table, e) /\ Spared(bm25, bm25, e)
    BY DEF Spared
<1>1. CASE UNCHANGED stores
    BY <1>0, <1>1 DEF stores, ChunkIdx
<1>2. CASE \/ LookupPath(r) \/ LookupId(r) \/ Prepare(r) \/ PrepareFails(r) \/ ReadOld(r)
           \/ AcquireLock(r) \/ ScanNext(r) \/ Count(r)
    BY <1>1, <1>2 DEF LookupPath, LookupId, Prepare, PrepareFails, ReadOld, AcquireLock,
                      ScanNext, Count
<1>3. CASE DelVec(r) \/ DelBm25(r)
    BY <1>0, <1>3, OldSpares DEF DelVec, DelBm25, ChunkIdx
<1>4. CASE DelChunks(r) \/ RbChunks(r)
    BY <1>0, <1>4, ChunksRemoved DEF DelChunks, RbChunks
<1>5. CASE DelDoc(r) \/ RbDoc(r)
    BY <1>0, <1>5, ChunksRemoved DEF DelDoc, RbDoc, WithoutDoc
<1>6. CASE TeardownFails(r)
    BY <1>0, <1>6, OldSpares DEF TeardownFails, MayTake, ChunkIdx
<1>7. CASE AddVec(r) \/ AddBm25(r)
    BY <1>0, <1>7, NewSpares DEF AddVec, AddBm25, WithNewVectors, WithNewEntries, ChunkIdx
<1>8. CASE AddDoc(r)
    BY <1>0, <1>8 DEF AddDoc, WithoutDoc, ChunkIdx
<1>9. CASE AddChunks(r)
    BY <1>0, <1>9, ChunksAdded DEF AddChunks
<1>10. CASE SetSize(r)
  <2>1. /\ docs' = {IF x.id = job[r].doc THEN [x EXCEPT !.size = job[r].n] ELSE x : x \in docs}
        /\ UNCHANGED <<table, bm25, chunks>>
      BY <1>10 DEF SetSize
  <2>2. \A x \in docs : x.id = job[r].doc => [x EXCEPT !.size = job[r].n].id = job[r].doc
      BY DEF DocInv, TypeOK, DocRow
  <2> QED BY <1>0, <2>1, <2>2 DEF ChunkIdx
<1>11. CASE WriteFails(r)
    BY <1>0, <1>11, NewSpares DEF WriteFails, MayTake, WithNewVectors, WithNewEntries, ChunkIdx
<1>12. CASE RbVec(r) \/ RbBm25(r)
  <2>1. Spared(table, WithoutNew(table, r), e) /\ Spared(bm25, WithoutNew(bm25, r), e)
      BY NewSpares
  <2> QED BY <1>0, <1>12, <2>1 DEF RbVec, RbBm25, ChunkIdx
<1>13. CASE RollbackFails(r)
    BY <1>0, <1>13, NewSpares DEF RollbackFails, MayTake, ChunkIdx
<1> QED BY <1>2, <1>3, <1>4, <1>5, <1>6, <1>7, <1>8, <1>9, <1>10, <1>11, <1>12, <1>13 DEF Step

-----------------------------------------------------------------------------
(* The documents of the other requests.                                    *)

\* A new version has rows, of its document, path and writer.
LEMMA NewRowsSome ==
    ASSUME NEW r \in Reqs, job[r].n \in ChunkCounts
    PROVE  NewRows(r) # {} /\ \A y \in NewRows(r) : y.doc = job[r].doc /\ y.path = job[r].path /\ y.by = r
<1>1. 1 \in 1..job[r].n
  <2>1. job[r].n \in Nat /\ job[r].n # 0
      BY CountsAssumption
  <2> QED BY <2>1
<1>2. [doc |-> job[r].doc, idx |-> 1, path |-> job[r].path, by |-> r] \in NewRows(r)
    BY <1>1 DEF NewRows, Batch
<1> QED BY <1>2, BatchRows DEF NewRows

\* Another request finds its document as it knew it.
LEMMA AtOther ==
    ASSUME DocInv, NEW r \in Reqs, Step(r), NEW q \in Reqs \ {r}, NEW e \in DocIds,
           job[q].doc = e
    PROVE  At(q, e)'
<1>1. pc'[q] = pc[q] /\ job'[q] = job[q]
    BY StepFrame DEF DocInv
<1>2. CASE ~Active(q)
    BY <1>1, <1>2 DEF Active, Working, At, AtOld, AtCut, AtNew, AtBack, Teardown, Adding, Rolling
<1>3. CASE Active(q)
  <2>1. e # job[r].doc
      BY <1>3, StepPlace DEF DocInv, Apart
  <2>2. /\ Spared(table, table', e) /\ Spared(bm25, bm25', e)
        /\ ChunkIdx(e)' = ChunkIdx(e)
        /\ \A x \in docs' : x.id = e => x \in docs
        /\ \A x \in docs : x.id = e => x \in docs'
      BY <2>1, Elsewhere
  <2>3. Vec(e)' \in {Vec(e), {}} /\ Ent(e)' \in {Ent(e), {}}
      BY <2>2 DEF Spared, Vec, Ent
  <2>4. Known(e)' = Known(e)
      BY <2>2 DEF Known
  <2>5. At(q, e)
      BY DEF DocInv, Progress
  <2>6. NewRows(q)' = NewRows(q)
      BY <1>1 DEF NewRows
  <2>7. ASSUME pc[q] \in Adding, Touched(job[q].path) PROVE Touched(job[q].path)'
    <3>1. PICK p : p = job[q].path
        OBVIOUS
    <3>2. Touched(p)'
        BY <2>7, <3>1, TouchedKept DEF DocInv
    <3> QED BY <1>1, <3>1, <3>2
  <2>8. AtOld(q, e)'
    <3>1. Empty(e) => Empty(e)'
        BY <2>2, <2>3, <2>4 DEF Empty
    <3> QED BY <1>1, <2>2, <2>5, <3>1 DEF At, AtOld
  <2>9. AtCut(q, e)' /\ AtBack(q, e)'
      BY <1>1, <2>2, <2>3, <2>4, <2>5 DEF At, AtCut, AtBack
  <2>10. AtNew(q, e)'
    <3>1. AtNew(q, e)
        BY <2>5 DEF At
    <3>2. ASSUME pc[q] \in Adding \cup Rolling
          PROVE  job'[q].n \in ChunkCounts /\ Stored(e, job[q].path, q, job[q].n)'
      <4>1. job[q].n \in ChunkCounts /\ Stored(e, job[q].path, q, job[q].n)
          BY <3>1, <3>2 DEF AtNew
      <4> QED BY <1>1, <2>2, <2>3, <4>1 DEF Stored
    <3>3. ASSUME pc[q] \in Adding, NEW S, NEW T, Spared(S, T, e),
                 RowsOf(S, e) = NewRows(q) \/ Touched(job[q].path)
          PROVE  RowsOf(T, e) = NewRows(q) \/ Touched(job[q].path)'
      <4>1. job[q].n \in ChunkCounts
          BY <3>1, <3>3 DEF AtNew
      <4>2. NewRows(q) # {} /\ \A y \in NewRows(q) : y.path = job[q].path
          BY <4>1, NewRowsSome
      <4> QED BY <2>7, <3>3, <4>2 DEF Spared
    <3>4. pc[q] \in Adding \ {"addVec"} => Vec(e)' = NewRows(q) \/ Touched(job[q].path)'
        BY <2>2, <3>1, <3>3 DEF AtNew, Vec
    <3>5. pc[q] \in Adding \ {"addVec", "addBm25"} => Ent(e)' = NewRows(q) \/ Touched(job[q].path)'
        BY <2>2, <3>1, <3>3 DEF AtNew, Ent
    <3> QED BY <1>1, <2>2, <2>4, <2>6, <3>1, <3>2, <3>4, <3>5 DEF AtNew
  <2> QED BY <2>8, <2>9, <2>10 DEF At
<1> QED BY <1>2, <1>3

-----------------------------------------------------------------------------
(* The document of the request that takes the step.                        *)

Placed == {"lookup", "prepare"} \cup Teardown \cup Adding \cup Rolling

\* Nothing is claimed of the document of a request that is past its work.
LEMMA AtEnd ==
    ASSUME NEW r, NEW d, pc[r] \notin Placed
    PROVE  At(r, d)
BY DEF At, AtOld, AtCut, AtNew, AtBack, Placed, Teardown, Adding, Rolling

\* What is known of the document of a request, from where the request is.
LEMMA AtHere ==
    ASSUME DocInv, NEW r \in Reqs, NEW d \in DocIds, job[r].doc = d
    PROVE  AtOld(r, d) /\ AtCut(r, d) /\ AtNew(r, d) /\ AtBack(r, d)
BY DEF DocInv, Progress, At

\* A removal of the old version leaves nothing of it in either index.
LEMMA OldGone ==
    ASSUME DocInv, NEW r \in Reqs, NEW d \in DocIds, job[r].doc = d, pc[r] \in {"delVec", "delBm25"}
    PROVE  RowsOf(WithoutOld(table, r), d) = {} /\ RowsOf(WithoutOld(bm25, r), d) = {}
<1>1. PICK p \in Paths, w \in Writers, n \in ChunkCounts : Stored(d, p, w, n)
    BY DEF DocInv, OneVersion
<1>2. job[r].exists /\ pc[r] \in Teardown
    BY DEF DocInv, Kinds, Kind, Teardown
<1>3. job[r].old = ChunkIdx(d) /\ \E x \in docs : x.id = d /\ x.path = job[r].from
    BY <1>2, AtHere DEF AtOld
<1>4. job[r].from = p /\ job[r].old \in {{}, 1..n}
    BY <1>1, <1>3 DEF Stored
<1>5. ASSUME NEW S, RowsOf(S, d) \in {{}, Batch(d, p, w, n)}
      PROVE  RowsOf(WithoutOld(S, r), d) = {}
  <2>1. \A x \in RowsOf(S, d) : x.path = p /\ x.idx \in 1..n
      BY <1>5, BatchRows
  <2> QED BY <1>4, <2>1, OldRemoved
<1> QED BY <1>1, <1>5 DEF Stored, Vec, Ent

\* A rollback leaves nothing of the new version in either index.
LEMMA NewGone ==
    ASSUME DocInv, NEW r \in Reqs, NEW d \in DocIds, job[r].doc = d,
           pc[r] \in Adding \cup Rolling
    PROVE  RowsOf(WithoutNew(table, r), d) = {} /\ RowsOf(WithoutNew(bm25, r), d) = {}
<1>1. Stored(d, job[r].path, r, job[r].n)
    BY AtHere DEF AtNew
<1>2. ASSUME NEW S, RowsOf(S, d) \in {{}, Batch(d, job[r].path, r, job[r].n)}
      PROVE  RowsOf(WithoutNew(S, r), d) = {}
  <2>1. \A x \in RowsOf(S, d) : x.idx \in 1..job[r].n
      BY <1>2, BatchRows
  <2> QED BY <2>1 DEF WithoutNew, WithoutIds, RowsOf
<1> QED BY <1>1, <1>2 DEF Stored, Vec, Ent

\* The rows of the new version are added to none.
LEMMA NewAdded ==
    ASSUME NEW r \in Reqs, NEW d, job[r].doc = d, NEW S, RowsOf(S, d) = {}
    PROVE  /\ RowsOf(S \cup NewRows(r), d) = NewRows(r)
           /\ RowsOf(WithoutNew(S, r) \cup NewRows(r), d) = NewRows(r)
<1>1. NewRows(r) = Batch(d, job[r].path, r, job[r].n)
    BY DEF NewRows
<1>2. RowsOf(WithoutNew(S, r), d) = {}
    BY DEF WithoutNew, WithoutIds, RowsOf
<1>3. ASSUME NEW T, RowsOf(T, d) = {}
      PROVE  RowsOf(T \cup NewRows(r), d) = NewRows(r)
  <2>1. \A y \in NewRows(r) : y.doc = d
      BY <1>1, BatchRows
  <2> QED BY <1>3, <2>1 DEF RowsOf
<1> QED BY <1>2, <1>3

\* One lemma per part of the path: the request knows its document after looking it up,
LEMMA AtLookup ==
    ASSUME DocInv, NEW r \in Reqs, NEW d \in DocIds, job'[r].doc = d,
           LookupPath(r) \/ LookupId(r)
    PROVE  At(r, d)'
<1> USE DEF DocInv, TypeOK, Goto
<1>1. UNCHANGED <<table, bm25, docs, chunks>> /\ pc[r] = "lookup" /\ ~job[r].exists
    BY DEF LookupPath, LookupId, stores, Kinds, Kind
<1>2. job[r] \in Job
    OBVIOUS
<1>3. CASE LookupPath(r)
  <2>1. pc'[r] = "prepare" /\ job[r].op = "ingest"
      BY <1>3 DEF LookupPath
  <2>2. CASE job' = job
    <3>1. Empty(d)
        BY <1>1, <2>1, <2>2, AtHere DEF AtOld
    <3>2. Empty(d)'
        BY <1>1, <3>1 DEF Empty, Vec, Ent, ChunkIdx, Known
    <3> QED BY <1>1, <2>1, <2>2, <3>2
            DEF At, AtOld, AtCut, AtNew, AtBack, Teardown, Adding, Rolling
  <2>3. CASE \E x \in docs : x.path = job[r].path
                 /\ job' = [job EXCEPT ![r].doc = x.id, ![r].exists = TRUE]
    <3>1. PICK x \in docs : x.path = job[r].path
                 /\ job' = [job EXCEPT ![r].doc = x.id, ![r].exists = TRUE]
        BY <2>3
    <3>2. job'[r].doc = x.id /\ job'[r].exists /\ job'[r].from = job[r].from
        BY <3>1, <1>2 DEF Job
    <3>3. x.path = job[r].from
        BY <2>1, <3>1 DEF Kinds, Kind
    <3> QED BY <1>1, <2>1, <3>2, <3>3
            DEF At, AtOld, AtCut, AtNew, AtBack, Teardown, Adding, Rolling
  <2> QED BY <1>3, <2>2, <2>3 DEF LookupPath
<1>4. CASE LookupId(r)
  <2>1. CASE ~Known(job[r].doc)
    <3>1. pc'[r] = "notFound"
        BY <1>4, <2>1 DEF LookupId, Known
    <3>2. pc'[r] \notin Placed
        BY <3>1 DEF Placed, Teardown, Adding, Rolling
    <3> QED BY <3>2 DEF Placed, Teardown, Adding, Rolling, At, AtOld, AtCut, AtNew, AtBack
  <2>2. CASE Known(job[r].doc)
    <3>1. PICK x \in docs : x.id = job[r].doc
                 /\ job' = [job EXCEPT ![r].from = x.path, ![r].exists = TRUE]
        BY <1>4, <2>2 DEF LookupId
    <3>2. job'[r].doc = x.id /\ job'[r].exists /\ job'[r].from = x.path
        BY <3>1, <1>2 DEF Job
    <3>3. pc'[r] = IF job'[r].op = "delete" THEN "readOld" ELSE "prepare"
      <4>1. pc'[r] = IF job[r].op = "delete" THEN "readOld" ELSE "prepare"
          BY <1>4, <2>2 DEF LookupId
      <4> QED BY <1>4, <4>1, StepJob DEF Step
    <3> QED BY <1>1, <3>2, <3>3
            DEF At, AtOld, AtCut, AtNew, AtBack, Teardown, Adding, Rolling
  <2> QED BY <2>1, <2>2
<1> QED BY <1>3, <1>4

\* ... after parsing and embedding,
LEMMA AtPrepare ==
    ASSUME DocInv, NEW r \in Reqs, NEW d \in DocIds, job'[r].doc = d, Prepare(r)
    PROVE  At(r, d)'
<1> USE DEF DocInv, TypeOK, Goto
<1>1. UNCHANGED <<table, bm25, docs, chunks>> /\ pc[r] = "prepare" /\ pc'[r] = AfterPrepare(r)
    BY DEF Prepare, stores
<1>2. PICK n \in ChunkCounts : job' = [job EXCEPT ![r].n = n, ![r].meta = FALSE]
    BY DEF Prepare
<1>3. /\ job'[r].doc = job[r].doc /\ job'[r].n = n /\ job'[r].exists = job[r].exists
      /\ job'[r].from = job[r].from /\ job'[r].path = job[r].path
    BY <1>2 DEF Job
<1>4. CASE job[r].exists
  <2>1. pc'[r] = "readOld"
      BY <1>1, <1>4 DEF AfterPrepare
  <2>2. \E x \in docs : x.id = d /\ x.path = job[r].from
      BY <1>1, <1>3, <1>4, AtHere DEF AtOld
  <2> QED BY <1>1, <1>3, <2>1, <2>2
          DEF At, AtOld, AtCut, AtNew, AtBack, Teardown, Adding, Rolling
<1>5. CASE ~job[r].exists
  <2>1. pc'[r] = "addVec"
      BY <1>1, <1>5 DEF AfterPrepare
  <2>2. job[r].op \in {"ingest", "inline", "scan"}
      BY <1>1, <1>5, JobFields DEF Kinds, Kind, AllOps
  <2>3. Empty(d)
      BY <1>1, <1>3, <1>5, <2>2, AtHere DEF AtOld
  <2>4. Vec(d)' = {} /\ Ent(d)' = {} /\ ChunkIdx(d)' = {} /\ ~Known(d)'
      BY <1>1, <2>3 DEF Empty, Vec, Ent, ChunkIdx, Known
  <2>5. Stored(d, job[r].path, r, job[r].n)'
      BY <2>4 DEF Stored, Known
  <2> QED BY <1>3, <2>1, <2>4, <2>5
          DEF At, AtOld, AtCut, AtNew, AtBack, Teardown, Adding, Rolling
<1> QED BY <1>4, <1>5

\* ... after reading the old chunk rows and queueing,
LEMMA AtQueue ==
    ASSUME DocInv, NEW r \in Reqs, NEW d \in DocIds, job'[r].doc = d,
           ReadOld(r) \/ AcquireLock(r)
    PROVE  At(r, d)'
<1> USE DEF DocInv, TypeOK, Goto
<1>1. /\ UNCHANGED <<table, bm25, docs, chunks>> /\ pc[r] \in {"readOld", "waitLock"}
      /\ pc'[r] \in {"waitLock", "delVec"}
    BY DEF ReadOld, AcquireLock, stores
<1>2. /\ job'[r].doc = job[r].doc /\ job'[r].exists = job[r].exists /\ job'[r].from = job[r].from
      /\ job'[r].op = job[r].op /\ job'[r].n = job[r].n
    BY <1>1, StepJob DEF Step
<1>3. job[r].exists /\ pc[r] \in Teardown
    BY <1>1 DEF Kinds, Kind, Teardown
<1>4. \E x \in docs : x.id = d /\ x.path = job[r].from
    BY <1>2, <1>3, AtHere DEF AtOld
<1>5. job'[r].old = ChunkIdx(d)
  <2>1. CASE ReadOld(r)
      BY <1>2, <2>1 DEF ReadOld, Job
  <2>2. CASE AcquireLock(r)
      BY <1>2, <2>2, AtHere DEF AcquireLock, AtOld
  <2> QED BY <2>1, <2>2
<1>6. ChunkIdx(d)' = ChunkIdx(d)
    BY <1>1 DEF ChunkIdx
<1>7. job[r].op # "delete" => job[r].n \in ChunkCounts
    BY <1>2, <1>3, AtHere DEF AtOld
<1> QED BY <1>1, <1>2, <1>3, <1>4, <1>5, <1>6, <1>7
        DEF At, AtOld, AtCut, AtNew, AtBack, Teardown, Adding, Rolling

\* ... after each call of the teardown,
LEMMA AtTeardown ==
    ASSUME DocInv, NEW r \in Reqs, NEW d \in DocIds, job'[r].doc = d,
           DelVec(r) \/ DelBm25(r) \/ DelChunks(r) \/ DelDoc(r)
    PROVE  At(r, d)'
<1> USE DEF DocInv, TypeOK, Goto
<1>1. job' = job /\ job[r].doc = d
    BY DEF DelVec, DelBm25, DelChunks, DelDoc
<1>2. AtOld(r, d) /\ AtCut(r, d)
    BY <1>1, AtHere
<1>3. job[r].exists /\ job[r].op # "none"
    BY DEF DelVec, DelBm25, DelChunks, DelDoc, Teardown, Kinds, Kind
<1> USE DEF At, AtOld, AtCut, AtNew, AtBack, Teardown, Adding, Rolling
<1>4. CASE DelVec(r)
  <2>1. /\ pc[r] = "delVec" /\ pc'[r] = "delBm25" /\ UNCHANGED <<bm25, docs, chunks>>
        /\ table' = WithoutOld(table, r)
      BY <1>4 DEF DelVec
  <2>2. Vec(d)' = {} /\ ChunkIdx(d)' = ChunkIdx(d)
      BY <1>1, <2>1, OldGone DEF Vec, ChunkIdx
  <2> QED BY <1>1, <1>2, <1>3, <2>1, <2>2
<1>5. CASE DelBm25(r)
  <2>1. /\ pc[r] = "delBm25" /\ pc'[r] = "delChunks" /\ UNCHANGED <<table, docs, chunks>>
        /\ bm25' = WithoutOld(bm25, r)
      BY <1>5 DEF DelBm25
  <2>2. Vec(d)' = {} /\ Ent(d)' = {} /\ ChunkIdx(d)' = ChunkIdx(d)
      BY <1>1, <1>2, <2>1, OldGone DEF Vec, Ent, ChunkIdx
  <2> QED BY <1>1, <1>2, <1>3, <2>1, <2>2
<1>6. CASE DelChunks(r)
  <2>1. /\ pc[r] = "delChunks" /\ pc'[r] = "delDoc" /\ UNCHANGED <<table, bm25, docs>>
        /\ chunks' = WithoutChunks(d)
      BY <1>1, <1>6 DEF DelChunks
  <2>2. Vec(d)' = {} /\ Ent(d)' = {} /\ ChunkIdx(d)' = {}
      BY <1>2, <2>1, ChunksRemoved DEF Vec, Ent
  <2> QED BY <1>1, <1>2, <1>3, <2>1, <2>2
<1>7. CASE DelDoc(r)
  <2>1. /\ pc[r] = "delDoc" /\ pc'[r] \in {"count", "addVec"} /\ UNCHANGED <<table, bm25>>
        /\ chunks' = WithoutChunks(d) /\ docs' = WithoutDoc(d)
      BY <1>1, <1>7 DEF DelDoc
  <2>2. Vec(d)' = {} /\ Ent(d)' = {} /\ ChunkIdx(d)' = {} /\ ~Known(d)'
      BY <1>2, <2>1, ChunksRemoved DEF Vec, Ent, WithoutDoc, Known
  <2>3. Stored(d, job[r].path, r, job[r].n)'
      BY <2>2 DEF Stored, Known
  <2>4. pc'[r] = "addVec" => job[r].n \in ChunkCounts
      BY <1>2, <1>7, <2>1 DEF DelDoc
  <2> QED BY <1>1, <2>1, <2>2, <2>3, <2>4
<1> QED BY <1>4, <1>5, <1>6, <1>7

\* A version that only loses rows is still one version.
LEMMA StillStored ==
    ASSUME NEW d, NEW p, NEW w, NEW n, Stored(d, p, w, n),
           Vec(d)' \in {Vec(d), {}}, Ent(d)' \in {Ent(d), {}}, ChunkIdx(d)' \in {ChunkIdx(d), {}},
           \A x \in docs' : x.id = d => \E y \in docs : y.id = d /\ y.path = x.path
    PROVE  Stored(d, p, w, n)'
BY DEF Stored

\* ... after each call of the write,
LEMMA AtAdding ==
    ASSUME DocInv, NEW r \in Reqs, NEW d \in DocIds, job'[r].doc = d,
           AddVec(r) \/ AddBm25(r) \/ AddDoc(r) \/ AddChunks(r) \/ SetSize(r)
    PROVE  At(r, d)'
<1> USE DEF DocInv, TypeOK, Goto
<1>1. CASE SetSize(r)
  <2>1. pc'[r] \in {"scan", "count"}
      BY <1>1 DEF SetSize
  <2> QED BY <2>1 DEF At, AtOld, AtCut, AtNew, AtBack, Teardown, Adding, Rolling
<1>2. CASE AddVec(r) \/ AddBm25(r) \/ AddDoc(r) \/ AddChunks(r)
  <2>1. job' = job /\ job[r].doc = d /\ pc[r] \in Adding
      BY <1>2 DEF AddVec, AddBm25, AddDoc, AddChunks, Adding
  <2>2. AtCut(r, d) /\ AtNew(r, d)
      BY <2>1, AtHere
  <2>3. PICK p, n, N : p = job[r].path /\ n = job[r].n /\ N = NewRows(r)
      OBVIOUS
  <2>4. N = Batch(d, p, r, n) /\ n \in ChunkCounts /\ Stored(d, p, r, n)
      BY <2>1, <2>2, <2>3 DEF NewRows, AtNew
  <2>5. Touched(p) => Touched(p)'
      BY <1>2, TouchedKept DEF Step
  <2>6. NewRows(r)' = N /\ job'[r].path = p /\ job'[r].n = n /\ job'[r].doc = d
      BY <2>1, <2>3 DEF NewRows
  <2> USE DEF At, AtOld, AtCut, AtNew, AtBack, Teardown, Adding, Rolling
  <2>7. CASE AddVec(r)
    <3>1. /\ pc[r] = "addVec" /\ pc'[r] = "addBm25" /\ UNCHANGED <<bm25, docs, chunks>>
          /\ table' = table \cup NewRows(r)
        BY <2>7 DEF AddVec, WithNewVectors
    <3>2. Vec(d)' = N /\ Ent(d)' = {} /\ ChunkIdx(d)' = {} /\ ~Known(d)'
        BY <2>1, <2>2, <2>3, <3>1, NewAdded DEF Vec, Ent, ChunkIdx, Known
    <3>3. Stored(d, p, r, n)'
        BY <2>4, <3>2 DEF Stored, Known
    <3> QED BY <2>1, <2>4, <2>6, <3>1, <3>2, <3>3
  <2>8. CASE AddBm25(r)
    <3>1. /\ pc[r] = "addBm25" /\ pc'[r] = "addDoc" /\ UNCHANGED <<table, docs, chunks>>
          /\ bm25' = WithoutNew(bm25, r) \cup NewRows(r)
        BY <2>8 DEF AddBm25, WithNewEntries
    <3>2. Vec(d)' = Vec(d) /\ Ent(d)' = N /\ ChunkIdx(d)' = {} /\ ~Known(d)'
        BY <2>1, <2>2, <2>3, <3>1, NewAdded DEF Vec, Ent, ChunkIdx, Known
    <3>3. Stored(d, p, r, n)'
        BY <2>4, <3>2 DEF Stored, Known
    <3>4. Vec(d)' = N \/ Touched(p)'
        BY <2>2, <2>3, <2>5, <3>1, <3>2
    <3> QED BY <2>1, <2>4, <2>6, <3>1, <3>2, <3>3, <3>4
  <2>9. CASE AddDoc(r)
    <3>1. /\ pc[r] = "addDoc" /\ pc'[r] = "addChunks" /\ UNCHANGED <<table, bm25, chunks>>
          /\ docs' = WithoutDoc(d) \cup {[id |-> d, path |-> p, size |-> 0]}
        BY <2>1, <2>3, <2>9 DEF AddDoc
    <3>2. Vec(d)' = Vec(d) /\ Ent(d)' = Ent(d) /\ ChunkIdx(d)' = {} /\ Known(d)'
      <4>1. ChunkIdx(d)' = {}
          BY <2>2, <3>1 DEF ChunkIdx
      <4>2. [id |-> d, path |-> p, size |-> 0] \in docs' /\ [id |-> d, path |-> p, size |-> 0].id = d
          BY <3>1
      <4>3. Known(d)'
          BY <4>2 DEF Known
      <4> QED BY <3>1, <4>1, <4>3 DEF Vec, Ent
    <3>3. \A x \in docs' : x.id = d => x.path = p
        BY <3>1 DEF WithoutDoc
    <3>4. Stored(d, p, r, n)'
        BY <2>4, <3>2, <3>3 DEF Stored
    <3>5. (Vec(d)' = N \/ Touched(p)') /\ (Ent(d)' = N \/ Touched(p)')
        BY <2>2, <2>3, <2>5, <3>1, <3>2
    <3> QED BY <2>1, <2>4, <2>6, <3>1, <3>2, <3>4, <3>5
  <2>10. CASE AddChunks(r)
    <3>1. /\ pc[r] = "addChunks" /\ pc'[r] = "setSize" /\ UNCHANGED <<table, bm25, docs>>
          /\ chunks' = chunks \cup ({d} \X (1..n))
        BY <2>1, <2>3, <2>10 DEF AddChunks
    <3>2. Vec(d)' = Vec(d) /\ Ent(d)' = Ent(d) /\ ChunkIdx(d)' = 1..n /\ Known(d)' = Known(d)
      <4>1. ChunkIdx(d) = {}
          BY <2>2, <3>1
      <4>2. ChunkIdx(d)' = ChunkIdx(d) \cup 1..n
          BY <3>1, ChunksAdded
      <4> QED BY <3>1, <4>1, <4>2 DEF Vec, Ent, Known
    <3>3. Stored(d, p, r, n)'
        BY <2>4, <3>1, <3>2 DEF Stored
    <3>4. (Vec(d)' = N \/ Touched(p)') /\ (Ent(d)' = N \/ Touched(p)')
        BY <2>2, <2>3, <2>5, <3>1, <3>2
    <3> QED BY <2>1, <2>2, <2>4, <2>6, <3>1, <3>2, <3>3, <3>4
  <2> QED BY <1>2, <2>7, <2>8, <2>9, <2>10
<1> QED BY <1>1, <1>2

\* ... when such a call raises,
LEMMA AtWriteFails ==
    ASSUME DocInv, NEW r \in Reqs, NEW d \in DocIds, job'[r].doc = d, WriteFails(r)
    PROVE  At(r, d)'
<1> USE DEF DocInv, TypeOK, Goto
<1>1. /\ pc[r] \in Adding /\ pc'[r] = "rbVec" /\ UNCHANGED <<docs, chunks>>
      /\ table' \in MayTake(pc[r] = "addVec", table, WithNewVectors(r))
      /\ bm25' \in MayTake(pc[r] = "addBm25", bm25, WithNewEntries(r))
      /\ job' = [job EXCEPT ![r].meta = MetaBegun(r)]
    BY DEF WriteFails, Adding
<1>2. /\ job[r].doc = d /\ job'[r].path = job[r].path /\ job'[r].n = job[r].n
      /\ job'[r].meta = MetaBegun(r) /\ job'[r].exists = job[r].exists
    BY <1>1 DEF Job
<1>3. AtCut(r, d) /\ AtNew(r, d)
    BY <1>2, AtHere
<1>4. PICK p, n, N : p = job[r].path /\ n = job[r].n /\ N = NewRows(r)
    OBVIOUS
<1>5. N = Batch(d, p, r, n) /\ n \in ChunkCounts /\ Stored(d, p, r, n)
    BY <1>1, <1>2, <1>3, <1>4 DEF NewRows, AtNew
<1>6. Vec(d)' \in {{}, N}
  <2>1. CASE pc[r] = "addVec"
    <3>1. RowsOf(table, d) = {}
        BY <1>3, <2>1 DEF AtCut, Vec
    <3>2. RowsOf(WithNewVectors(r), d) = N
        BY <1>2, <1>4, <3>1, NewAdded DEF WithNewVectors
    <3> QED BY <1>1, <3>1, <3>2 DEF MayTake, Vec
  <2>2. CASE pc[r] # "addVec"
      BY <1>1, <1>5, <2>2 DEF MayTake, Vec, Stored
  <2> QED BY <2>1, <2>2
<1>7. Ent(d)' \in {{}, N}
  <2>1. CASE pc[r] = "addBm25"
    <3>1. RowsOf(bm25, d) = {}
        BY <1>3, <2>1 DEF AtCut, Ent
    <3>2. RowsOf(WithNewEntries(r), d) = N
        BY <1>2, <1>4, <3>1, NewAdded DEF WithNewEntries
    <3> QED BY <1>1, <3>1, <3>2 DEF MayTake, Ent
  <2>2. CASE pc[r] # "addBm25"
      BY <1>1, <1>5, <2>2 DEF MayTake, Ent, Stored
  <2> QED BY <2>1, <2>2
<1>8. ChunkIdx(d)' = ChunkIdx(d) /\ Known(d)' = Known(d)
    BY <1>1 DEF ChunkIdx, Known
<1>9. Stored(d, p, r, n)'
    BY <1>1, <1>5, <1>6, <1>7, <1>8 DEF Stored
<1>10. ~job'[r].meta => ChunkIdx(d)' = {} /\ ~Known(d)'
    BY <1>1, <1>2, <1>3, <1>8 DEF MetaBegun, AtCut, Adding
<1> QED BY <1>1, <1>2, <1>4, <1>5, <1>9, <1>10
        DEF At, AtOld, AtCut, AtNew, AtBack, Teardown, Adding, Rolling

\* ... after each call of the rollback,
LEMMA AtRolling ==
    ASSUME DocInv, NEW r \in Reqs, NEW d \in DocIds, job'[r].doc = d,
           RbVec(r) \/ RbBm25(r) \/ RbChunks(r) \/ RbDoc(r) \/ RollbackFails(r)
    PROVE  At(r, d)'
<1> USE DEF DocInv, TypeOK, Goto
<1>1. CASE pc'[r] \notin Rolling
  <2>1. pc'[r] \in {"scan", "orphan", "failed"} \cup Rolling
      BY DEF RbVec, RbBm25, RbChunks, RbDoc, RollbackFails, Failure, Rolling
  <2> QED BY <1>1, <2>1 DEF At, AtOld, AtCut, AtNew, AtBack, Teardown, Adding, Rolling
<1>2. CASE pc'[r] \in Rolling
  <2>1. /\ pc[r] \in Rolling
        /\ job[r].doc = d /\ job'[r].path = job[r].path /\ job'[r].n = job[r].n
        /\ job'[r].meta = job[r].meta /\ (job[r].orphan => job'[r].orphan)
    <3>1. pc[r] \in Rolling
        BY DEF RbVec, RbBm25, RbChunks, RbDoc, RollbackFails, Rolling
    <3> QED BY <3>1, StepJob DEF Step, Rolling
  <2>2. AtNew(r, d) /\ AtBack(r, d)
      BY <2>1, AtHere
  <2>3. PICK p, n : p = job[r].path /\ n = job[r].n
      OBVIOUS
  <2>4. n \in ChunkCounts /\ Stored(d, p, r, n)
      BY <2>1, <2>2, <2>3 DEF AtNew
  <2>5. RowsOf(WithoutNew(table, r), d) = {} /\ RowsOf(WithoutNew(bm25, r), d) = {}
      BY <2>1, NewGone
  <2> USE DEF At, AtOld, AtCut, AtNew, AtBack, Teardown, Adding, Rolling
  <2>6. CASE RbVec(r)
    <3>1. /\ pc[r] = "rbVec" /\ pc'[r] = "rbBm25" /\ UNCHANGED <<bm25, docs, chunks, job>>
        BY <2>6 DEF RbVec
    <3>2. Vec(d)' = {} /\ Ent(d)' = Ent(d) /\ ChunkIdx(d)' = ChunkIdx(d) /\ Known(d)' = Known(d)
        BY <2>5, <2>6, <3>1 DEF RbVec, Vec, Ent, ChunkIdx, Known
    <3>3. Stored(d, p, r, n)'
        BY <2>4, <3>1, <3>2 DEF Stored
    <3> QED BY <2>1, <2>2, <2>3, <2>4, <3>1, <3>2, <3>3
  <2>7. CASE RbBm25(r)
    <3>1. /\ pc[r] = "rbBm25" /\ pc'[r] = "rbChunks" /\ UNCHANGED <<table, docs, chunks, job>>
        BY <1>2, <2>7 DEF RbBm25, Failure
    <3>2. Vec(d)' = Vec(d) /\ Ent(d)' = {} /\ ChunkIdx(d)' = ChunkIdx(d)
        BY <2>5, <2>7, <3>1 DEF RbBm25, Vec, Ent, ChunkIdx
    <3>3. Stored(d, p, r, n)'
        BY <2>4, <3>1, <3>2 DEF Stored
    <3> QED BY <2>1, <2>2, <2>3, <2>4, <3>1, <3>2, <3>3
  <2>8. CASE RbChunks(r)
    <3>1. /\ pc[r] = "rbChunks" /\ pc'[r] = "rbDoc" /\ UNCHANGED <<table, bm25, docs, job>>
          /\ chunks' = WithoutChunks(d)
        BY <2>1, <2>8 DEF RbChunks
    <3>2. Vec(d)' = Vec(d) /\ Ent(d)' = Ent(d) /\ ChunkIdx(d)' = {}
        BY <3>1, ChunksRemoved DEF Vec, Ent
    <3>3. Stored(d, p, r, n)'
        BY <2>4, <3>1, <3>2 DEF Stored
    <3> QED BY <2>1, <2>2, <2>3, <2>4, <3>1, <3>2, <3>3
  <2>9. CASE RbDoc(r)
      BY <1>2, <2>9 DEF RbDoc, Failure
  <2>10. CASE RollbackFails(r)
    <3>1. /\ pc'[r] = "rbChunks" /\ UNCHANGED <<docs, chunks>>
          /\ table' \in MayTake(pc[r] = "rbVec", table, WithoutNew(table, r))
          /\ bm25' \in MayTake(pc[r] = "rbBm25", bm25, WithoutNew(bm25, r))
        BY <1>2, <2>10 DEF RollbackFails, Failure
    <3>2. job'[r].orphan
        BY <2>10 DEF RollbackFails, Job
    <3>3. /\ Vec(d)' \in {Vec(d), {}} /\ Ent(d)' \in {Ent(d), {}} /\ ChunkIdx(d)' = ChunkIdx(d)
        BY <2>5, <3>1 DEF MayTake, Vec, Ent, ChunkIdx
    <3>4. Stored(d, p, r, n)'
        BY <2>4, <3>1, <3>3 DEF Stored
    <3> QED BY <2>1, <2>3, <2>4, <3>1, <3>2, <3>4
  <2> QED BY <2>6, <2>7, <2>8, <2>9, <2>10
<1> QED BY <1>1, <1>2

\* ... and when it gives up, ends, or goes on to its next file.
LEMMA AtFrom ==
    ASSUME DocInv, NEW r \in Reqs, NEW d \in DocIds, job'[r].doc = d,
           PrepareFails(r) \/ TeardownFails(r) \/ ScanNext(r) \/ Count(r)
    PROVE  At(r, d)'
<1> USE DEF DocInv, TypeOK, Goto
<1>1. CASE PrepareFails(r) \/ TeardownFails(r) \/ Count(r)
  <2>1. pc'[r] \in {"failed", "rejected", "scan", "ok"}
      BY <1>1 DEF PrepareFails, TeardownFails, Count
  <2> QED BY <2>1 DEF At, AtOld, AtCut, AtNew, AtBack, Teardown, Adding, Rolling
<1>2. CASE ScanNext(r)
  <2>1. CASE job' = job
    <3>1. pc'[r] \in {"count", "prepare"} /\ pc[r] = "scan" /\ job[r].op = "scan"
        BY <1>2 DEF ScanNext, Kinds, Kind
    <3>2. CASE pc'[r] = "count"
        BY <3>2 DEF At, AtOld, AtCut, AtNew, AtBack, Teardown, Adding, Rolling
    <3>3. CASE pc'[r] = "prepare"
      <4>1. PICK p \in job[r].todo :
               job' = [job EXCEPT ![r].todo = @ \ {p}, ![r].path = p, ![r].doc = <<r, p>>]
          BY <1>2, <3>3 DEF ScanNext
      <4>2. job'[r].todo = job[r].todo \ {p}
          BY <4>1 DEF Job
      <4> QED BY <2>1, <4>2
    <3> QED BY <3>1, <3>2, <3>3
  <2>2. CASE \E p \in job[r].todo :
               job' = [job EXCEPT ![r].todo = @ \ {p}, ![r].path = p, ![r].doc = <<r, p>>]
    <3>1. PICK p \in job[r].todo :
               job' = [job EXCEPT ![r].todo = @ \ {p}, ![r].path = p, ![r].doc = <<r, p>>]
        BY <2>2
    <3>2. job'[r].doc = <<r, p>> /\ job'[r].exists = job[r].exists /\ p \in Paths
        BY <3>1, JobFields DEF Job
    <3>3. pc'[r] \in {"count", "prepare"} /\ pc[r] = "scan" /\ job[r].op = "scan"
        BY <1>2 DEF ScanNext, Kinds, Kind
    <3>4. UNCHANGED <<table, bm25, docs, chunks>>
        BY <1>2 DEF ScanNext, stores
    <3>5. Empty(<<r, p>>)
        BY <3>1, <3>2, <3>3 DEF Fresh, Unmade
    <3>6. Empty(d)'
        BY <3>2, <3>4, <3>5 DEF Empty, Vec, Ent, ChunkIdx, Known
    <3>7. ~job'[r].exists
        BY <3>2, <3>3 DEF Kinds, Kind
    <3> QED BY <3>3, <3>6, <3>7
            DEF At, AtOld, AtCut, AtNew, AtBack, Teardown, Adding, Rolling
  <2> QED BY <1>2, <2>1, <2>2 DEF ScanNext
<1> QED BY <1>1, <1>2

\* A request knows what is stored of its document.
LEMMA ProgressStep ==
    ASSUME DocInv, NEW r \in Reqs, Step(r)
    PROVE  Progress'
<1>1. ASSUME NEW d \in DocIds, job'[r].doc = d PROVE At(r, d)'
    BY <1>1, AtLookup, AtPrepare, AtQueue, AtTeardown, AtAdding, AtWriteFails, AtRolling, AtFrom
    DEF Step
<1>2. ASSUME NEW q \in Reqs \ {r}, NEW d \in DocIds, job'[q].doc = d PROVE At(q, d)'
  <2>1. job[q].doc = d
      BY <1>2, StepFrame DEF DocInv
  <2> QED BY <2>1, AtOther
<1> QED BY <1>1, <1>2 DEF Progress

-----------------------------------------------------------------------------
(* The other parts of the invariant, over a step of a request.             *)

\* Where a request can go from where it is.
LEMMA StepGoes ==
    ASSUME TypeOK, Kinds, NEW r \in Reqs, Step(r), pc[r] \notin {"lookup", "scan"}
    PROVE  /\ pc[r] = "prepare" => \/ pc'[r] = "readOld" /\ job[r].exists
                                   \/ pc'[r] = "addVec" /\ ~job[r].exists
                                   \/ pc'[r] = "rejected"
                                   \/ pc'[r] \in {"scan", "failed"} /\ job[r].op = "scan"
           /\ pc[r] \in Teardown => \/ pc'[r] \in Teardown \cup {"failed"}
                                    \/ pc'[r] = "count" /\ job[r].op = "delete"
                                    \/ pc'[r] = "addVec" /\ job[r].op # "delete"
           /\ pc[r] \in Adding => \/ pc'[r] \in (Adding \ {"addVec"}) \cup Rolling
                                  \/ pc'[r] = "scan" /\ job[r].op = "scan"
                                  \/ pc'[r] = "count" /\ job[r].op # "scan"
           /\ pc[r] \in Rolling => \/ pc'[r] \in Rolling
                                   \/ pc'[r] = "scan" /\ job[r].op = "scan"
                                   \/ pc'[r] = "failed" /\ job[r].op # "scan" /\ ~job'[r].orphan
                                   \/ pc'[r] = "orphan" /\ job[r].op # "scan" /\ job'[r].orphan
           /\ pc[r] \in Rolling /\ job'[r].orphan => job[r].op = "scan" \/ pc'[r] \in {"rbChunks", "rbDoc", "orphan"}
           /\ pc[r] = "count" => pc'[r] = "ok"
<1> USE DEF TypeOK, Goto, Teardown, Adding, Rolling
<1>1. CASE LookupPath(r) \/ LookupId(r) \/ ScanNext(r)
    BY <1>1 DEF LookupPath, LookupId, ScanNext
<1>2. CASE Prepare(r) \/ PrepareFails(r) \/ ReadOld(r) \/ AcquireLock(r) \/ Count(r)
    BY <1>2 DEF Prepare, PrepareFails, AfterPrepare, ReadOld, AcquireLock, Count
<1>3. CASE DelVec(r) \/ DelBm25(r) \/ DelChunks(r) \/ DelDoc(r) \/ TeardownFails(r)
    BY <1>3 DEF DelVec, DelBm25, DelChunks, DelDoc, TeardownFails
<1>4. CASE AddVec(r) \/ AddBm25(r) \/ AddDoc(r) \/ AddChunks(r) \/ SetSize(r) \/ WriteFails(r)
    BY <1>4 DEF AddVec, AddBm25, AddDoc, AddChunks, SetSize, WriteFails
<1>5. CASE RbVec(r) \/ RbBm25(r) \/ RbChunks(r) \/ RbDoc(r)
    BY <1>5 DEF RbVec, RbBm25, RbChunks, RbDoc, Failure, Kinds, Kind
<1>6. CASE RollbackFails(r)
  <2>1. job'[r].orphan
      BY <1>6 DEF RollbackFails, Job
  <2> QED BY <1>6, <2>1 DEF RollbackFails, Failure
<1> QED BY <1>1, <1>2, <1>3, <1>4, <1>5, <1>6 DEF Step

\* The fields of the request that takes the step stay in agreement,
LEMMA StepKind ==
    ASSUME DocInv, NEW r \in Reqs, Step(r)
    PROVE  Kind(r)'
<1> USE DEF DocInv, Goto
<1>0. Kind(r) /\ job[r].op # "none" /\ pc'[r] # "idle" /\ pc'[r] # "lookup" /\ job'[r].op = job[r].op
  <2>1. Active(r) /\ pc'[r] \in Working \cup Answered /\ job'[r].op = job[r].op
      BY StepJob, StepPlace
  <2>2. pc'[r] # "lookup"
    <3>1. CASE pc[r] \notin {"lookup", "scan"}
        BY <2>1, <3>1, StepGoes DEF Active, Working, Teardown, Adding, Rolling
    <3>2. CASE pc[r] \in {"lookup", "scan"}
        BY <3>2, StepPlace
    <3> QED BY <3>1, <3>2
  <2> QED BY <2>1, <2>2 DEF Kinds, Kind, Active, Working, Answered
<1>1. CASE pc[r] = "scan"
  <2>1. ScanNext(r) /\ job[r].op = "scan"
      BY <1>0, <1>1 DEF Step, LookupPath, LookupId, Prepare, PrepareFails, ReadOld, AcquireLock,
         DelVec, DelBm25, DelChunks, DelDoc, TeardownFails, AddVec, AddBm25, AddDoc, AddChunks,
         SetSize, WriteFails, RbVec, RbBm25, RbChunks, RbDoc, RollbackFails, Count, Kind
  <2>2. CASE pc'[r] = "count" /\ job' = job
      BY <1>0, <1>1, <2>1, <2>2 DEF Kind, Working, Teardown, Adding, Rolling
  <2>3. CASE pc'[r] = "prepare" /\ \E p \in job[r].todo :
               job' = [job EXCEPT ![r].todo = @ \ {p}, ![r].path = p, ![r].doc = <<r, p>>]
    <3>1. PICK p \in job[r].todo :
               job' = [job EXCEPT ![r].todo = @ \ {p}, ![r].path = p, ![r].doc = <<r, p>>]
        BY <2>3
    <3>2. /\ job'[r].path = p /\ job'[r].doc = <<r, p>> /\ job'[r].exists = job[r].exists
          /\ job'[r].todo = job[r].todo \ {p} /\ job'[r].from = job[r].from
          /\ job'[r].claim = job[r].claim /\ job'[r].orphan = job[r].orphan
        BY <3>1 DEF TypeOK, Job
    <3> QED BY <1>0, <2>1, <2>3, <3>1, <3>2 DEF Kind, Working, Teardown, Adding, Rolling
  <2> QED BY <2>1, <2>2, <2>3 DEF ScanNext, TypeOK
<1>2. CASE pc[r] = "lookup"
  <2>1. LookupPath(r) \/ LookupId(r)
      BY <1>2 DEF Step, ScanNext, Prepare, PrepareFails, ReadOld, AcquireLock,
         DelVec, DelBm25, DelChunks, DelDoc, TeardownFails, AddVec, AddBm25, AddDoc, AddChunks,
         SetSize, WriteFails, RbVec, RbBm25, RbChunks, RbDoc, RollbackFails, Count
  <2>2. /\ job[r].op \in {"ingest", "replace", "delete"} /\ ~job[r].exists /\ ~job[r].orphan
        /\ job'[r].path = job[r].path /\ job'[r].todo = job[r].todo
        /\ job'[r].claim = job[r].claim /\ ~job'[r].orphan
      BY <1>0, <1>2, StepJob DEF Kind, Working, Teardown, Adding, Rolling
  <2>3. job[r].op = "ingest" => /\ pc'[r] = "prepare" /\ job'[r].from = job[r].from
                                /\ ~job'[r].exists => job'[r].doc = job[r].doc
    <3>1. CASE LookupPath(r)
      <4>1. CASE job' = job
          BY <3>1, <4>1 DEF LookupPath, TypeOK
      <4>2. CASE \E x \in docs : job' = [job EXCEPT ![r].doc = x.id, ![r].exists = TRUE]
        <5>1. PICK x \in docs : job' = [job EXCEPT ![r].doc = x.id, ![r].exists = TRUE]
            BY <4>2
        <5>2. job'[r].exists /\ job'[r].from = job[r].from
            BY <5>1 DEF TypeOK, Job
        <5> QED BY <3>1, <5>2 DEF LookupPath, TypeOK
      <4> QED BY <3>1, <4>1, <4>2 DEF LookupPath
    <3>2. CASE LookupId(r)
        BY <3>2 DEF LookupId
    <3> QED BY <2>1, <3>1, <3>2
  <2>4. job[r].op # "ingest" => /\ pc'[r] \in {"readOld", "prepare", "notFound"}
                                /\ pc'[r] = "prepare" => job[r].op = "replace"
                                /\ pc'[r] # "notFound" => job'[r].exists
    <3>1. CASE LookupId(r)
      <4>1. CASE \E x \in docs : job' = [job EXCEPT ![r].from = x.path, ![r].exists = TRUE]
        <5>1. PICK x \in docs : job' = [job EXCEPT ![r].from = x.path, ![r].exists = TRUE]
            BY <4>1
        <5>2. job'[r].exists
            BY <5>1 DEF TypeOK, Job
        <5> QED BY <2>2, <3>1, <5>2 DEF LookupId, TypeOK
      <4>2. CASE pc'[r] = "notFound"
          BY <4>2
      <4> QED BY <3>1, <4>1, <4>2 DEF LookupId, TypeOK
    <3>2. CASE LookupPath(r)
        BY <3>2 DEF LookupPath
    <3> QED BY <2>1, <3>1, <3>2
  <2>5. job[r].op = "ingest" => Kind(r)'
      BY <1>0, <2>2, <2>3 DEF Kind, Working, Teardown, Adding, Rolling
  <2>6. job[r].op # "ingest" => Kind(r)'
      BY <1>0, <2>2, <2>4 DEF Kind, Working, Teardown, Adding, Rolling
  <2> QED BY <2>5, <2>6
<1>3. CASE pc[r] \notin {"lookup", "scan"}
  <2>1. /\ job'[r].doc = job[r].doc /\ job'[r].path = job[r].path /\ job'[r].claim = job[r].claim
        /\ job'[r].from = job[r].from /\ job'[r].exists = job[r].exists
        /\ job'[r].todo = job[r].todo
        /\ pc[r] \notin Rolling => job'[r].orphan = job[r].orphan
        /\ pc[r] \in Working
      BY <1>3, StepJob, StepPlace DEF Active
  <2>2. CASE pc[r] = "prepare"
    <3>1. \/ pc'[r] = "readOld" /\ job[r].exists
          \/ pc'[r] = "addVec" /\ ~job[r].exists
          \/ pc'[r] \in {"failed", "rejected"}
          \/ pc'[r] = "scan" /\ job[r].op = "scan"
        BY <1>3, <2>2, StepGoes
    <3> QED BY <1>0, <2>1, <2>2, <3>1 DEF Kind, Working, Teardown, Adding, Rolling
  <2>3. CASE pc[r] \in Teardown
    <3>1. \/ pc'[r] \in Teardown \cup {"failed"}
          \/ pc'[r] = "count" /\ job[r].op = "delete"
          \/ pc'[r] = "addVec" /\ job[r].op # "delete"
        BY <1>3, <2>3, StepGoes
    <3> QED BY <1>0, <2>1, <2>3, <3>1 DEF Kind, Working, Teardown, Adding, Rolling
  <2>4. CASE pc[r] \in Adding
    <3>1. \/ pc'[r] \in (Adding \ {"addVec"}) \cup Rolling
          \/ pc'[r] = "scan" /\ job[r].op = "scan"
          \/ pc'[r] = "count" /\ job[r].op # "scan"
        BY <1>3, <2>4, StepGoes
    <3> QED BY <1>0, <2>1, <2>4, <3>1 DEF Kind, Working, Teardown, Adding, Rolling
  <2>5. CASE pc[r] \in Rolling
    <3>1. \/ pc'[r] \in Rolling
          \/ pc'[r] = "scan" /\ job[r].op = "scan"
          \/ pc'[r] \in {"failed", "orphan"} /\ job[r].op # "scan"
        BY <1>3, <2>5, StepGoes
    <3>2. job'[r].orphan => job[r].op = "scan" \/ pc'[r] \in {"rbChunks", "rbDoc", "orphan"}
        BY <1>3, <2>5, StepGoes
    <3> QED BY <1>0, <2>1, <2>5, <3>1, <3>2 DEF Kind, Working, Teardown, Adding, Rolling
  <2>6. CASE pc[r] = "count"
    <3>1. pc'[r] = "ok"
        BY <1>3, <2>6, StepGoes
    <3> QED BY <1>0, <2>1, <2>6, <3>1 DEF Kind, Working, Teardown, Adding, Rolling
  <2> QED BY <1>3, <2>1, <2>2, <2>3, <2>4, <2>5, <2>6 DEF Working, Teardown, Adding, Rolling
<1> QED BY <1>1, <1>2, <1>3

\* ... and so do those of the others.
LEMMA KindsStep ==
    ASSUME DocInv, NEW r \in Reqs, Step(r)
    PROVE  Kinds'
<1>1. ASSUME NEW q \in Reqs \ {r} PROVE Kind(q)'
  <2>1. pc'[q] = pc[q] /\ job'[q] = job[q] /\ Kind(q)
      BY StepFrame DEF DocInv, Kinds
  <2> QED BY <2>1 DEF Kind
<1> QED BY <1>1, StepKind DEF Kinds

\* The document of a request is the one it had, the one it looked up, or the
\* one it makes for its next file.
LEMMA DocOf ==
    ASSUME DocInv, NEW r \in Reqs, Step(r)
    PROVE  \/ job'[r].doc = job[r].doc
           \/ /\ pc[r] = "lookup" /\ job[r].op = "ingest" /\ UNCHANGED stores
              /\ \E x \in docs : x.path = job[r].path /\ job'[r].doc = x.id
           \/ /\ pc[r] = "scan" /\ job[r].op = "scan" /\ UNCHANGED stores
              /\ \E p \in job[r].todo :
                   job'[r].doc = <<r, p>> /\ job'[r].path = p /\ job'[r].todo = job[r].todo \ {p}
<1> USE DEF DocInv, TypeOK
<1>1. CASE pc[r] \notin {"lookup", "scan"}
    BY <1>1, StepJob
<1>2. CASE LookupPath(r)
  <2>1. CASE \E x \in docs : x.path = job[r].path
                 /\ job' = [job EXCEPT ![r].doc = x.id, ![r].exists = TRUE]
    <3>1. PICK x \in docs : x.path = job[r].path
                 /\ job' = [job EXCEPT ![r].doc = x.id, ![r].exists = TRUE]
        BY <2>1
    <3>2. job'[r].doc = x.id
        BY <3>1 DEF Job
    <3> QED BY <1>2, <3>1, <3>2 DEF LookupPath
  <2> QED BY <1>2, <2>1 DEF LookupPath
<1>3. CASE LookupId(r)
  <2>1. CASE \E x \in docs : job' = [job EXCEPT ![r].from = x.path, ![r].exists = TRUE]
    <3>1. PICK x \in docs : job' = [job EXCEPT ![r].from = x.path, ![r].exists = TRUE]
        BY <2>1
    <3> QED BY <3>1 DEF Job
  <2> QED BY <1>3, <2>1 DEF LookupId
<1>4. CASE ScanNext(r)
  <2>1. CASE \E p \in job[r].todo :
               job' = [job EXCEPT ![r].todo = @ \ {p}, ![r].path = p, ![r].doc = <<r, p>>]
    <3>1. PICK p \in job[r].todo :
               job' = [job EXCEPT ![r].todo = @ \ {p}, ![r].path = p, ![r].doc = <<r, p>>]
        BY <2>1
    <3>2. job'[r].doc = <<r, p>> /\ job'[r].path = p /\ job'[r].todo = job[r].todo \ {p}
        BY <3>1 DEF Job
    <3> QED BY <1>4, <3>1, <3>2 DEF ScanNext, Kinds, Kind
  <2> QED BY <1>4, <2>1 DEF ScanNext
<1> QED BY <1>1, <1>2, <1>3, <1>4
        DEF Step, Prepare, PrepareFails, ReadOld, AcquireLock, DelVec, DelBm25, DelChunks, DelDoc,
            TeardownFails, AddVec, AddBm25, AddDoc, AddChunks, SetSize, WriteFails,
            RbVec, RbBm25, RbChunks, RbDoc, RollbackFails, Count

\* A listed document was listed before under the same path, or is being added.
LEMMA DocsFrom ==
    ASSUME DocInv, NEW r \in Reqs, Step(r), NEW x \in docs'
    PROVE  \/ \E y \in docs : y.id = x.id /\ y.path = x.path
           \/ AddDoc(r) /\ x.id = job[r].doc /\ x.path = job[r].path
<1>1. CASE docs' \subseteq docs
    BY <1>1
<1>2. CASE AddDoc(r)
    BY <1>2 DEF AddDoc, WithoutDoc
<1>3. CASE SetSize(r)
  <2>1. docs' = {IF y.id = job[r].doc THEN [y EXCEPT !.size = job[r].n] ELSE y : y \in docs}
      BY <1>3 DEF SetSize
  <2>2. \A y \in docs : [y EXCEPT !.size = job[r].n].id = y.id /\ [y EXCEPT !.size = job[r].n].path = y.path
      BY DEF DocInv, TypeOK, DocRow
  <2> QED BY <2>1, <2>2
<1>4. CASE DelDoc(r) \/ RbDoc(r)
    BY <1>1, <1>4 DEF DelDoc, RbDoc, WithoutDoc
<1>5. CASE UNCHANGED docs
    BY <1>1, <1>5
<1> QED BY <1>2, <1>3, <1>4, <1>5
        DEF Step, LookupPath, LookupId, Prepare, PrepareFails, ReadOld, AcquireLock, DelVec,
            DelBm25, DelChunks, TeardownFails, AddVec, AddBm25, AddChunks, WriteFails,
            RbVec, RbBm25, RbChunks, RollbackFails, ScanNext, Count, stores

\* A request that adds a document was sent about its path, if it is a file's.
LEMMA AddedClaim ==
    ASSUME DocInv, NEW r \in Reqs, AddDoc(r)
    PROVE  /\ Active(r) /\ job[r].op \in {"ingest", "inline", "scan", "replace"}
           /\ job[r].path \in FilePaths \/ job[r].op = "scan" => job[r].path \in job[r].claim
<1>1. pc[r] = "addDoc"
    BY DEF AddDoc
<1>2. Kind(r) /\ job[r].op \in AllOps \cup {"none"}
    BY JobFields DEF DocInv, Kinds
<1> QED BY <1>1, <1>2, PathsAssumption DEF Kind, AllOps, Active, Working, Adding

\* A request never comes to work on a document another one works on.
LEMMA NoneTaken ==
    ASSUME DocInv, NEW r \in Reqs, Step(r), NEW q \in Reqs \ {r}, Active(q)
    PROVE  job'[r].doc # job[q].doc
<1>1. Active(r) /\ job[q].doc # job[r].doc /\ job[q].claim \cap job[r].claim = {}
    BY StepPlace DEF DocInv, Apart
<1>2. ASSUME job[r].op = "ingest", NEW x \in docs, x.path = job[r].path, x.id = job[q].doc
      PROVE  FALSE
  <2>1. x.path \in FilePaths /\ x.path \in job[r].claim
      BY <1>2 DEF DocInv, Kinds, Kind
  <2>2. x.path \in job[q].claim
      BY <1>2, <2>1 DEF DocInv, Claims
  <2> QED BY <1>1, <2>1, <2>2
<1>3. ASSUME job[r].op = "scan", NEW p \in job[r].todo PROVE job[q].doc # <<r, p>>
    BY <1>3, JobFields DEF DocInv, Fresh, Unmade
<1> QED BY <1>1, <1>2, <1>3, DocOf

\* No two requests at work come to share a document or a file.
LEMMA ApartStep ==
    ASSUME DocInv, NEW r \in Reqs, Step(r)
    PROVE  Apart'
<1>1. \A q \in Reqs \ {r} : pc'[q] = pc[q] /\ job'[q] = job[q]
    BY StepFrame DEF DocInv
<1>2. Active(r) /\ job'[r].claim = job[r].claim
    BY StepPlace, StepJob DEF DocInv
<1>3. ASSUME NEW q \in Reqs \ {r}, Active(q)'
      PROVE  job'[q].doc # job'[r].doc /\ job'[q].claim \cap job'[r].claim = {}
  <2>1. Active(q)
      BY <1>1, <1>3 DEF Active
  <2> QED BY <1>1, <1>2, <2>1, NoneTaken DEF DocInv, Apart
<1>4. ASSUME NEW q \in Reqs \ {r}, NEW s \in Reqs \ {r}, q # s, Active(q)', Active(s)'
      PROVE  job'[q].doc # job'[s].doc /\ job'[q].claim \cap job'[s].claim = {}
  <2>1. Active(q) /\ Active(s)
      BY <1>1, <1>4 DEF Active
  <2> QED BY <1>1, <1>4, <2>1 DEF DocInv, Apart
<1> QED BY <1>3, <1>4 DEF Apart

\* The document of a request at work stays under a path of its claim.
LEMMA ClaimsStep ==
    ASSUME DocInv, NEW r \in Reqs, Step(r)
    PROVE  Claims'
<1> USE DEF DocInv
<1>1. \A q \in Reqs \ {r} : pc'[q] = pc[q] /\ job'[q] = job[q]
    BY StepFrame
<1>2. Active(r) /\ job'[r].claim = job[r].claim /\ job'[r].op = job[r].op
    BY StepPlace, StepJob
<1>3. ASSUME NEW q \in Reqs \ {r}, NEW x \in docs', Active(q)', x.id = job'[q].doc,
             x.path \in FilePaths \/ job'[q].op = "scan"
      PROVE  x.path \in job'[q].claim
  <2>1. Active(q)
      BY <1>1, <1>3 DEF Active
  <2>2. PICK e \in DocIds : e = job[q].doc
      BY JobFields
  <2>3. e # job[r].doc /\ x.id = e
      BY <1>1, <1>2, <1>3, <2>1, <2>2 DEF Apart
  <2>4. x \in docs
      BY <2>3, Elsewhere
  <2> QED BY <1>1, <1>3, <2>1, <2>4 DEF Claims
<1>4. ASSUME NEW x \in docs', x.id = job'[r].doc, x.path \in FilePaths \/ job[r].op = "scan"
      PROVE  x.path \in job[r].claim
  <2>1. CASE job'[r].doc = job[r].doc
      BY <1>2, <1>4, <2>1, DocsFrom, AddedClaim DEF Claims
  <2>2. CASE /\ UNCHANGED stores /\ job[r].op = "ingest"
             /\ \E y \in docs : y.path = job[r].path /\ job'[r].doc = y.id
    <3>1. PICK y \in docs : y.path = job[r].path /\ job'[r].doc = y.id
        BY <2>2
    <3>2. x = y
        BY <1>4, <2>2, <3>1 DEF Listed, stores
    <3> QED BY <2>2, <3>1, <3>2 DEF Kinds, Kind
  <2>3. CASE /\ UNCHANGED stores /\ job[r].op = "scan"
             /\ \E p \in job[r].todo : job'[r].doc = <<r, p>>
    <3>1. PICK p \in job[r].todo : job'[r].doc = <<r, p>>
        BY <2>3
    <3>2. ~Known(<<r, p>>)
        BY <2>3, JobFields DEF Fresh, Unmade, Empty
    <3> QED BY <1>4, <2>3, <3>1, <3>2 DEF Known, stores
  <2> QED BY <2>1, <2>2, <2>3, DocOf
<1> QED BY <1>2, <1>3, <1>4 DEF Claims

\* Nothing comes to be stored of a document no request is making.
LEMMA EmptyKept ==
    ASSUME DocInv, NEW r \in Reqs, Step(r), NEW e \in DocIds, Empty(e),
           e # job[r].doc \/ UNCHANGED stores
    PROVE  Empty(e)'
<1>1. CASE UNCHANGED stores
    BY <1>1 DEF stores, Empty, Vec, Ent, ChunkIdx, Known
<1>2. CASE e # job[r].doc
  <2>1. /\ Spared(table, table', e) /\ Spared(bm25, bm25', e) /\ ChunkIdx(e)' = ChunkIdx(e)
        /\ \A x \in docs' : x.id = e => x \in docs
      BY <1>2, Elsewhere
  <2> QED BY <2>1 DEF Spared, Empty, Vec, Ent, Known
<1> QED BY <1>1, <1>2

\* Documents still to be made stay unmade.
LEMMA FreshStep ==
    ASSUME DocInv, NEW r \in Reqs, Step(r)
    PROVE  Fresh'
<1> USE DEF DocInv
<1>1. \A q \in Reqs \ {r} : pc'[q] = pc[q] /\ job'[q] = job[q]
    BY StepFrame
<1>2. ASSUME NEW q \in Reqs \ {r}, NEW p \in Paths, Unmade(q, p)'
      PROVE  Empty(<<q, p>>)' /\ \A s \in Reqs \ {q} : job'[s].doc # <<q, p>>
  <2>1. Unmade(q, p)
      BY <1>1, <1>2 DEF Unmade
  <2>2. Empty(<<q, p>>) /\ \A s \in Reqs \ {q} : job[s].doc # <<q, p>>
      BY <2>1 DEF Fresh
  <2>3. Empty(<<q, p>>)'
    <3>1. <<q, p>> \in DocIds
        BY DEF DocIds, Writers
    <3> QED BY <2>2, <3>1, EmptyKept
  <2>4. job'[r].doc # <<q, p>>
      BY <2>2, DocOf DEF Empty, Known
  <2> QED BY <1>1, <2>2, <2>3, <2>4
<1>3. ASSUME NEW p \in Paths, Unmade(r, p)'
      PROVE  Empty(<<r, p>>)' /\ \A s \in Reqs \ {r} : job'[s].doc # <<r, p>>
  <2>1. Active(r) /\ pc'[r] # "idle" /\ job'[r].op = job[r].op
      BY StepPlace, StepJob DEF Working, Answered
  <2>2. job[r].op = "scan" /\ p \in job'[r].todo
      BY <1>3, <2>1 DEF Unmade
  <2>3. job'[r].todo \subseteq job[r].todo
    <3>1. CASE pc[r] # "scan"
        BY <3>1, StepJob
    <3>2. CASE pc[r] = "scan"
      <4>1. ScanNext(r)
          BY <3>2 DEF Step, LookupPath, LookupId, Prepare, PrepareFails, ReadOld, AcquireLock,
             DelVec, DelBm25, DelChunks, DelDoc, TeardownFails, AddVec, AddBm25, AddDoc, AddChunks,
             SetSize, WriteFails, RbVec, RbBm25, RbChunks, RbDoc, RollbackFails, Count
      <4>2. CASE job' = job
          BY <4>2
      <4>3. CASE \E s \in job[r].todo :
               job' = [job EXCEPT ![r].todo = @ \ {s}, ![r].path = s, ![r].doc = <<r, s>>]
        <5>1. PICK s \in job[r].todo :
               job' = [job EXCEPT ![r].todo = @ \ {s}, ![r].path = s, ![r].doc = <<r, s>>]
            BY <4>3
        <5> QED BY <5>1 DEF TypeOK, Job
      <4> QED BY <4>1, <4>2, <4>3 DEF ScanNext
    <3> QED BY <3>1, <3>2
  <2>4. Empty(<<r, p>>) /\ \A s \in Reqs \ {r} : job[s].doc # <<r, p>>
      BY <2>2, <2>3 DEF Fresh, Unmade
  <2>5. <<r, p>> # job[r].doc \/ UNCHANGED stores
    <3>1. CASE pc[r] \in {"scan", "count"}
        BY <3>1 DEF Step, LookupPath, LookupId, Prepare, PrepareFails, ReadOld, AcquireLock,
             DelVec, DelBm25, DelChunks, DelDoc, TeardownFails, AddVec, AddBm25, AddDoc, AddChunks,
             SetSize, WriteFails, RbVec, RbBm25, RbChunks, RbDoc, RollbackFails, ScanNext, Count
    <3>2. CASE pc[r] \notin {"scan", "count"}
      <4>1. job[r].doc = <<r, job[r].path>> /\ job[r].path \notin job[r].todo
          BY <2>1, <2>2, <3>2 DEF Kinds, Kind, Active
      <4> QED BY <2>2, <2>3, <4>1
    <3> QED BY <3>1, <3>2
  <2>6. Empty(<<r, p>>)'
    <3>1. <<r, p>> \in DocIds
        BY DEF DocIds, Writers
    <3> QED BY <2>4, <2>5, <3>1, EmptyKept
  <2> QED BY <1>1, <2>4, <2>6
<1> QED BY <1>2, <1>3 DEF Fresh

\* Outside the writing of a new version a request only takes from its document.
LEMMA Takes ==
    ASSUME DocInv, NEW r \in Reqs, Step(r), NEW d \in DocIds, job[r].doc = d,
           pc'[r] \notin Adding \cup Rolling
    PROVE  /\ Vec(d)' \in {Vec(d), {}} /\ Ent(d)' \in {Ent(d), {}}
           /\ ChunkIdx(d)' \in {ChunkIdx(d), {}}
           /\ \A x \in docs' : x.id = d => \E y \in docs : y.id = d /\ y.path = x.path
<1> USE DEF DocInv, TypeOK, Goto
<1>0. \A x \in docs' : x.id = d => (\E y \in docs : y.id = d /\ y.path = x.path) \/ AddDoc(r)
    BY DocsFrom
<1>1. CASE UNCHANGED stores
    BY <1>1 DEF stores, Vec, Ent, ChunkIdx
<1>2. CASE DelVec(r) \/ DelBm25(r) \/ TeardownFails(r)
  <2>1. /\ table' \in {table, WithoutOld(table, r)} /\ bm25' \in {bm25, WithoutOld(bm25, r)}
        /\ table' # table \/ bm25' # bm25 => pc[r] \in {"delVec", "delBm25"}
        /\ UNCHANGED <<docs, chunks>>
      BY <1>2 DEF DelVec, DelBm25, TeardownFails, MayTake
  <2> QED BY <2>1, OldGone DEF Vec, Ent, ChunkIdx
<1>3. CASE DelChunks(r) \/ DelDoc(r)
  <2>1. UNCHANGED <<table, bm25>> /\ chunks' = WithoutChunks(d) /\ docs' \subseteq docs
      BY <1>3 DEF DelChunks, DelDoc, WithoutDoc
  <2> QED BY <2>1, ChunksRemoved DEF Vec, Ent
<1>4. CASE SetSize(r)
  <2>1. UNCHANGED <<table, bm25, chunks>> /\ pc[r] = "setSize"
      BY <1>4 DEF SetSize
  <2> QED BY <1>0, <2>1 DEF Vec, Ent, ChunkIdx, AddDoc
<1>5. CASE RbBm25(r) \/ RollbackFails(r)
  <2>1. /\ table' \in {table, WithoutNew(table, r)} /\ bm25' \in {bm25, WithoutNew(bm25, r)}
        /\ pc[r] \in Rolling /\ UNCHANGED <<docs, chunks>>
      BY <1>5 DEF RbBm25, RollbackFails, MayTake, Rolling
  <2> QED BY <2>1, NewGone DEF Vec, Ent, ChunkIdx
<1>6. CASE RbDoc(r)
  <2>1. UNCHANGED <<table, bm25>> /\ chunks' = WithoutChunks(d) /\ docs' \subseteq docs
      BY <1>6 DEF RbDoc, WithoutDoc
  <2> QED BY <2>1, ChunksRemoved DEF Vec, Ent
<1>7. CASE AddVec(r) \/ AddBm25(r) \/ AddDoc(r) \/ AddChunks(r) \/ WriteFails(r) \/ RbVec(r) \/ RbChunks(r)
    BY <1>7 DEF AddVec, AddBm25, AddDoc, AddChunks, WriteFails, RbVec, RbChunks, Adding, Rolling
<1> QED BY <1>1, <1>2, <1>3, <1>4, <1>5, <1>6, <1>7
        DEF Step, LookupPath, LookupId, Prepare, PrepareFails, ReadOld, AcquireLock, ScanNext, Count

\* No document comes to be of two versions.
LEMMA OneVersionStep ==
    ASSUME DocInv, NEW r \in Reqs, Step(r), Progress'
    PROVE  OneVersion'
<1> SUFFICES ASSUME NEW d \in DocIds
             PROVE  \E p \in Paths, w \in Writers, n \in ChunkCounts : Stored(d, p, w, n)'
    BY DEF OneVersion
<1>1. PICK p \in Paths, w \in Writers, n \in ChunkCounts : Stored(d, p, w, n)
    BY DEF DocInv, OneVersion
<1>2. CASE d # job[r].doc
  <2>1. /\ Spared(table, table', d) /\ Spared(bm25, bm25', d) /\ ChunkIdx(d)' = ChunkIdx(d)
        /\ \A x \in docs' : x.id = d => x \in docs
      BY <1>2, Elsewhere
  <2>2. Stored(d, p, w, n)'
      BY <1>1, <2>1, StillStored DEF Spared, Vec, Ent
  <2> QED BY <2>2
<1>3. CASE d = job[r].doc /\ pc'[r] \notin Adding \cup Rolling
  <2>1. Stored(d, p, w, n)'
      BY <1>1, <1>3, Takes, StillStored
  <2> QED BY <2>1
<1>4. CASE d = job[r].doc /\ pc'[r] \in Adding \cup Rolling
  <2>1. pc[r] \notin {"lookup", "scan"}
      BY <1>4, StepPlace DEF DocInv, Adding, Rolling
  <2>2. job'[r].doc = d /\ job'[r].path \in Paths
      BY <1>4, <2>1, StepJob, JobFields DEF DocInv
  <2>3. AtNew(r, d)'
      BY <2>2 DEF Progress, At
  <2> QED BY <1>4, <2>2, <2>3 DEF AtNew, Writers
<1> QED BY <1>2, <1>3, <1>4

\* Which documents are listed changes only where they are added and deleted.
LEMMA KnownKept ==
    ASSUME DocInv, NEW r \in Reqs, Step(r), NEW d, ~AddDoc(r), ~DelDoc(r), ~RbDoc(r)
    PROVE  Known(d)' = Known(d)
<1>1. CASE SetSize(r)
  <2>1. docs' = {IF y.id = job[r].doc THEN [y EXCEPT !.size = job[r].n] ELSE y : y \in docs}
      BY <1>1 DEF SetSize
  <2>2. \A y \in docs : [y EXCEPT !.size = job[r].n].id = y.id
      BY DEF DocInv, TypeOK, DocRow
  <2> QED BY <2>1, <2>2 DEF Known
<1>2. CASE UNCHANGED docs
    BY <1>2 DEF Known
<1> QED BY <1>1, <1>2
        DEF Step, LookupPath, LookupId, Prepare, PrepareFails, ReadOld, AcquireLock, DelVec,
            DelBm25, DelChunks, TeardownFails, AddVec, AddBm25, AddChunks, WriteFails,
            RbVec, RbBm25, RbChunks, RollbackFails, ScanNext, Count, stores

\* Chunk rows stay those of listed documents, and ids stay unique.
LEMMA ListedStep ==
    ASSUME DocInv, NEW r \in Reqs, Step(r)
    PROVE  Listed'
<1> USE DEF DocInv
<1>1. PICK d \in DocIds : d = job[r].doc
    BY JobFields
<1>2. ASSUME NEW e \in DocIds, ChunkIdx(e)' # {} PROVE Known(e)'
  <2>1. CASE e # d
    <3>1. ChunkIdx(e)' = ChunkIdx(e) /\ \A x \in docs : x.id = e => x \in docs'
        BY <1>1, <2>1, Elsewhere
    <3> QED BY <1>2, <3>1 DEF Listed, Known
  <2>2. CASE e = d
    <3>1. CASE AddDoc(r)
      <4>1. [id |-> d, path |-> job[r].path, size |-> 0] \in docs'
          BY <1>1, <3>1 DEF AddDoc
      <4>2. [id |-> d, path |-> job[r].path, size |-> 0].id = d
          OBVIOUS
      <4> QED BY <2>2, <4>1, <4>2 DEF Known
    <3>2. CASE DelDoc(r) \/ RbDoc(r)
      <4>1. chunks' = WithoutChunks(d)
          BY <1>1, <3>2 DEF DelDoc, RbDoc
      <4> QED BY <1>2, <2>2, <4>1, ChunksRemoved
    <3>3. CASE AddChunks(r)
      <4>1. pc[r] = "addChunks" /\ docs' = docs
          BY <3>3 DEF AddChunks
      <4>2. Known(d)
          BY <1>1, <4>1, AtHere DEF AtNew
      <4> QED BY <2>2, <4>1, <4>2 DEF Known
    <3>4. CASE chunks' = chunks \/ chunks' = WithoutChunks(d)
      <4>1. ChunkIdx(d)' \subseteq ChunkIdx(d)
          BY <3>4 DEF ChunkIdx, WithoutChunks
      <4>2. Known(d)
          BY <1>2, <2>2, <4>1 DEF Listed
      <4> QED BY <2>2, <3>1, <3>2, <4>2, KnownKept
    <3> QED BY <1>1, <3>1, <3>2, <3>3, <3>4
        DEF Step, LookupPath, LookupId, Prepare, PrepareFails, ReadOld, AcquireLock, DelVec,
            DelBm25, DelChunks, TeardownFails, AddVec, AddBm25, SetSize, WriteFails,
            RbVec, RbBm25, RbChunks, RollbackFails, ScanNext, Count, stores
  <2> QED BY <2>1, <2>2
<1>3. ASSUME NEW x \in docs', NEW y \in docs', x.id = y.id PROVE x = y
  <2>1. x.id \in DocIds
    <3>1. x.id = d \/ \E z \in docs : z.id = x.id
        BY <1>1, DocsFrom
    <3> QED BY <3>1 DEF TypeOK, DocRow
  <2>2. CASE x.id # d
    <3>1. x \in docs /\ y \in docs
        BY <1>1, <1>3, <2>1, <2>2, Elsewhere
    <3> QED BY <1>3, <3>1 DEF Listed
  <2>3. CASE x.id = d
    <3>1. CASE AddDoc(r)
        BY <1>1, <1>3, <2>3, <3>1 DEF AddDoc, WithoutDoc
    <3>2. CASE SetSize(r)
      <4>1. docs' = {IF z.id = d THEN [z EXCEPT !.size = job[r].n] ELSE z : z \in docs}
          BY <1>1, <3>2 DEF SetSize
      <4>2. \A z \in docs : [z EXCEPT !.size = job[r].n].id = z.id
          BY DEF TypeOK, DocRow
      <4>3. PICK u \in docs : x = IF u.id = d THEN [u EXCEPT !.size = job[r].n] ELSE u
          BY <4>1
      <4>4. PICK v \in docs : y = IF v.id = d THEN [v EXCEPT !.size = job[r].n] ELSE v
          BY <4>1
      <4>5. u.id = x.id /\ v.id = y.id
          BY <4>2, <4>3, <4>4
      <4>6. u = v
          BY <1>3, <4>5 DEF Listed
      <4> QED BY <4>3, <4>4, <4>6
    <3>3. CASE docs' \subseteq docs
        BY <1>3, <3>3 DEF Listed
    <3> QED BY <3>1, <3>2, <3>3
        DEF Step, LookupPath, LookupId, Prepare, PrepareFails, ReadOld, AcquireLock, DelVec,
            DelBm25, DelChunks, DelDoc, TeardownFails, AddVec, AddBm25, AddChunks, WriteFails,
            RbVec, RbBm25, RbChunks, RbDoc, RollbackFails, ScanNext, Count, stores, WithoutDoc
  <2> QED BY <2>2, <2>3
<1> QED BY <1>2, <1>3 DEF Listed

\* Which paths only ingests and deletes are about does not change in a step.
LEMMA IngestedKept ==
    ASSUME TypeOK, NEW r \in Reqs, Step(r), NEW p
    PROVE  OnlyIngested(p)' = OnlyIngested(p)
<1>1. \A q \in Reqs : job'[q].op = job[q].op /\ job'[q].claim = job[q].claim
    BY StepJob, StepFrame
<1> QED BY <1>1 DEF OnlyIngested

\* What adds a document under a path that only ingests are about is an ingest.
LEMMA AddedByIngest ==
    ASSUME DocInv, NEW r \in Reqs, AddDoc(r), job[r].path \in FilePaths, OnlyIngested(job[r].path)
    PROVE  Active(r) /\ job[r].op = "ingest" /\ pc[r] # "lookup"
BY AddedClaim DEF OnlyIngested, AddDoc

\* An ingest goes on working on the one document of its file.
LEMMA SoleStep ==
    ASSUME DocInv, NEW r \in Reqs, Step(r)
    PROVE  Sole'
<1> USE DEF DocInv
<1>1. \A q \in Reqs \ {r} : pc'[q] = pc[q] /\ job'[q] = job[q]
    BY StepFrame
<1>2. Active(r) /\ job'[r].op = job[r].op
    BY StepPlace, StepJob
<1> SUFFICES ASSUME NEW q \in Reqs, NEW x \in docs', Active(q)', job'[q].op = "ingest",
                    pc'[q] # "lookup", OnlyIngested(job[q].path)', x.path = job'[q].path,
                    job'[q].path = job[q].path
             PROVE  x.id = job'[q].doc
  <2>1. \A q \in Reqs : job'[q].op = "ingest" => job'[q].path = job[q].path
    <3>1. job[r].op = "ingest" => pc[r] # "scan"
        BY DEF Kinds, Kind
    <3>2. pc[r] # "scan" => job'[r].path = job[r].path
        BY StepJob
    <3> QED BY <1>1, <1>2, <3>1, <3>2
  <2> QED BY <2>1 DEF Sole
<1>3. PICK p : p = job[q].path
    OBVIOUS
<1>4. OnlyIngested(p)
  <2>1. OnlyIngested(p)'
      BY <1>3 DEF OnlyIngested
  <2> QED BY <2>1, IngestedKept
<1>5. CASE q # r
  <2>1. Active(q) /\ pc[q] # "lookup" /\ job[q].op = "ingest"
      BY <1>1, <1>5 DEF Active
  <2>2. CASE AddDoc(r)
    <3>1. CASE \E y \in docs : y.id = x.id /\ y.path = x.path
        BY <1>1, <1>3, <1>4, <1>5, <2>1, <3>1 DEF Sole
    <3>2. CASE x.path = job[r].path
      <4>1. p \in FilePaths /\ p \in job[q].claim
          BY <1>3, <2>1 DEF Kinds, Kind
      <4>2. p \in job[r].claim
          BY <1>3, <2>2, <3>2, <4>1, AddedClaim
      <4> QED BY <1>2, <1>5, <2>1, <4>1, <4>2 DEF Apart
    <3> QED BY <3>1, <3>2, DocsFrom
  <2>3. CASE ~AddDoc(r)
    <3>1. \E y \in docs : y.id = x.id /\ y.path = x.path
        BY <2>3, DocsFrom
    <3> QED BY <1>1, <1>3, <1>4, <1>5, <2>1, <3>1 DEF Sole
  <2> QED BY <2>2, <2>3
<1>6. CASE q = r /\ pc[r] # "lookup"
  <2>1. job[r].op = "ingest" /\ pc[r] # "scan"
      BY <1>2, <1>6 DEF Kinds, Kind
  <2>2. job'[r].doc = job[r].doc
      BY <1>6, <2>1, StepJob
  <2>3. CASE \E y \in docs : y.id = x.id /\ y.path = x.path
      BY <1>2, <1>3, <1>4, <1>6, <2>1, <2>2, <2>3 DEF Sole
  <2>4. CASE x.id = job[r].doc
      BY <1>6, <2>2, <2>4
  <2> QED BY <2>3, <2>4, DocsFrom
<1>7. CASE q = r /\ pc[r] = "lookup"
  <2>1. job[r].op = "ingest" /\ p \in FilePaths
      BY <1>2, <1>3, <1>7 DEF Kinds, Kind
  <2>2. LookupPath(r)
      BY <1>7, <2>1 DEF Step, ScanNext, LookupId, Prepare, PrepareFails, ReadOld, AcquireLock,
         DelVec, DelBm25, DelChunks, DelDoc, TeardownFails, AddVec, AddBm25, AddDoc, AddChunks,
         SetSize, WriteFails, RbVec, RbBm25, RbChunks, RbDoc, RollbackFails, Count
  <2>3. docs' = docs /\ x.path = p
      BY <1>3, <2>2 DEF LookupPath, stores
  <2>4. PICK y \in docs : y.path = p /\ job' = [job EXCEPT ![r].doc = y.id, ![r].exists = TRUE]
      BY <1>3, <1>7, <2>2, <2>3 DEF LookupPath
  <2>5. job'[r].doc = y.id
      BY <2>4 DEF TypeOK, Job
  <2>6. x = y
      BY <1>4, <2>1, <2>3, <2>4 DEF PathUnique
  <2> QED BY <1>7, <2>5, <2>6
<1> QED BY <1>5, <1>6, <1>7

\* No file comes to have two documents.
LEMMA PathUniqueStep ==
    ASSUME DocInv, NEW r \in Reqs, Step(r), Listed'
    PROVE  PathUnique'
<1> USE DEF DocInv
<1> SUFFICES ASSUME NEW x \in docs', NEW y \in docs', NEW p \in FilePaths, x.path = p, y.path = p,
                    OnlyIngested(p)
             PROVE  x.id = y.id
    BY IngestedKept DEF PathUnique, Listed
<1>1. ASSUME NEW u \in docs', NEW v \in docs', u.path = p, v.path = p,
             \E z \in docs : z.id = v.id /\ z.path = v.path, AddDoc(r),
             u.id = job[r].doc, u.path = job[r].path
      PROVE  u.id = v.id
  <2>1. Active(r) /\ job[r].op = "ingest" /\ pc[r] # "lookup"
      BY <1>1, AddedByIngest
  <2> QED BY <1>1, <2>1 DEF Sole
<1>2. CASE (\E z \in docs : z.id = x.id /\ z.path = p) /\ (\E z \in docs : z.id = y.id /\ z.path = p)
    BY <1>2 DEF PathUnique
<1> QED BY <1>1, <1>2, DocsFrom

\* Rows are those stored before and the new rows of the request.
LEMMA RowsFrom ==
    ASSUME TypeOK, NEW r \in Reqs, Step(r), NEW x \in table' \cup bm25'
    PROVE  \/ x \in table \cup bm25
           \/ /\ x \in NewRows(r) /\ pc[r] \in {"addVec", "addBm25"}
              /\ pc'[r] \in {"addBm25", "addDoc", "rbVec"}
<1> USE DEF TypeOK, Goto
<1>1. CASE table' \subseteq table /\ bm25' \subseteq bm25
    BY <1>1
<1>2. CASE AddVec(r) \/ AddBm25(r) \/ WriteFails(r)
    BY <1>2, RemovalType DEF AddVec, AddBm25, WriteFails, MayTake, WithNewVectors, WithNewEntries
<1>3. CASE DelVec(r) \/ DelBm25(r) \/ TeardownFails(r) \/ RbVec(r) \/ RbBm25(r) \/ RollbackFails(r)
  <2>1. /\ table' \in {table, WithoutOld(table, r), WithoutNew(table, r)}
        /\ bm25' \in {bm25, WithoutOld(bm25, r), WithoutNew(bm25, r)}
      BY <1>3 DEF DelVec, DelBm25, TeardownFails, RbVec, RbBm25, RollbackFails, MayTake
  <2>2. /\ WithoutOld(table, r) \subseteq table /\ WithoutNew(table, r) \subseteq table
        /\ WithoutOld(bm25, r) \subseteq bm25 /\ WithoutNew(bm25, r) \subseteq bm25
      BY RemovalType
  <2> QED BY <1>1, <2>1, <2>2
<1> QED BY <1>1, <1>2, <1>3
        DEF Step, LookupPath, LookupId, Prepare, PrepareFails, ReadOld, AcquireLock,
            DelChunks, DelDoc, AddDoc, AddChunks, SetSize, RbChunks, RbDoc, ScanNext, Count, stores

\* A rollback that ends without an error has removed all of the new version.
LEMMA RolledBack ==
    ASSUME DocInv, NEW r \in Reqs, Step(r), NEW d \in DocIds, job[r].doc = d,
           pc[r] \in Rolling, pc'[r] \notin Rolling, ~job'[r].orphan
    PROVE  Empty(d)'
<1> USE DEF DocInv, TypeOK, Goto
<1>1. ~job[r].orphan /\ AtBack(r, d)
    BY StepJob, AtHere
<1>2. ~RollbackFails(r)
  <2> SUFFICES ASSUME RollbackFails(r) PROVE FALSE
      OBVIOUS
  <2>1. job'[r].orphan
      BY DEF RollbackFails, Job
  <2> QED BY <2>1
<1>3. CASE RbBm25(r)
  <2>1. /\ pc[r] = "rbBm25" /\ ~job[r].meta /\ UNCHANGED <<table, docs, chunks>>
        /\ bm25' = WithoutNew(bm25, r)
      BY <1>3 DEF RbBm25, Rolling
  <2>2. Vec(d) = {} /\ ChunkIdx(d) = {} /\ ~Known(d)
      BY <1>1, <2>1 DEF AtBack
  <2>3. RowsOf(WithoutNew(bm25, r), d) = {}
      BY NewGone
  <2> QED BY <2>1, <2>2, <2>3 DEF Empty, Vec, Ent, ChunkIdx, Known
<1>4. CASE RbDoc(r)
  <2>1. /\ pc[r] = "rbDoc" /\ UNCHANGED <<table, bm25>>
        /\ chunks' = WithoutChunks(d) /\ docs' = WithoutDoc(d)
      BY <1>4 DEF RbDoc
  <2>2. Vec(d) = {} /\ Ent(d) = {}
      BY <1>1, <2>1 DEF AtBack
  <2>3. ChunkIdx(d)' = {} /\ ~Known(d)'
      BY <2>1, ChunksRemoved DEF WithoutDoc, Known
  <2> QED BY <2>1, <2>2, <2>3 DEF Empty, Vec, Ent
<1>5. CASE RbVec(r) \/ RbChunks(r)
    BY <1>5 DEF RbVec, RbChunks, Rolling
<1> QED BY <1>2, <1>3, <1>4, <1>5
        DEF Step, LookupPath, LookupId, Prepare, PrepareFails, ReadOld, AcquireLock, DelVec, DelBm25,
            DelChunks, DelDoc, TeardownFails, AddVec, AddBm25, AddDoc, AddChunks, SetSize,
            WriteFails, ScanNext, Count, Rolling

\* A teardown that fails, or a rollback that ends and leaves its document
\* listed, is on record as having done so.
LEMMA LeftBy ==
    ASSUME DocInv, NEW r \in Reqs, Step(r), NEW d \in DocIds, job[r].doc = d,
           NEW x \in docs', x.id = d,
           TeardownFails(r) \/ (pc[r] \in Rolling /\ pc'[r] \notin Rolling)
    PROVE  Blames(r, x)'
<1> USE DEF DocInv, TypeOK, Goto
<1>1. /\ job'[r].doc = d /\ job'[r].path = job[r].path /\ job'[r].from = job[r].from
  <2>1. pc[r] \notin {"lookup", "scan"}
      BY DEF TeardownFails, Rolling
  <2> QED BY <2>1, StepJob
<1>2. CASE TeardownFails(r)
  <2>1. pc'[r] = "failed" /\ docs' = docs /\ pc[r] \in Teardown
      BY <1>2 DEF TeardownFails, Teardown
  <2>2. PICK y \in docs : y.id = d /\ y.path = job[r].from
      BY <2>1, AtHere DEF AtOld, Kinds, Kind
  <2>3. x.path = job[r].from
      BY <2>1, <2>2 DEF Listed
  <2> QED BY <1>1, <2>1, <2>3 DEF Blames, Damaged, Touch
<1>3. CASE pc[r] \in Rolling /\ pc'[r] \notin Rolling
  <2>1. job'[r].orphan
      BY <1>3, RolledBack DEF Empty, Known
  <2>2. Stored(d, job[r].path, r, job[r].n)
      BY <1>3, AtHere DEF AtNew
  <2>3. x.path = job[r].path
      BY <2>2, DocsFrom DEF Stored, AddDoc
  <2> QED BY <1>1, <2>1, <2>3 DEF Blames, Damaged, Reported, Touch
<1> QED BY <1>2, <1>3

\* Rows stay those of the document of their writer.
LEMMA ByWriterStep ==
    ASSUME DocInv, NEW r \in Reqs, Step(r)
    PROVE  ByWriter'
<1> USE DEF DocInv
<1> SUFFICES ASSUME NEW x \in table' \cup bm25', x.by \in Reqs, job'[x.by].op # "scan"
             PROVE  x.doc = job'[x.by].doc /\ pc'[x.by] \in Wrote
    BY DEF ByWriter
<1>1. CASE x \in NewRows(r) /\ pc[r] \in {"addVec", "addBm25"} /\ pc'[r] \in {"addBm25", "addDoc", "rbVec"}
  <2>1. x.by = r /\ x.doc = job[r].doc
      BY <1>1, BatchRows DEF NewRows
  <2>2. job'[r].doc = job[r].doc
      BY <1>1, StepJob
  <2> QED BY <1>1, <2>1, <2>2 DEF Wrote, Adding, Rolling
<1>2. CASE x \in table \cup bm25 /\ x.by # r
    BY <1>2, StepFrame DEF ByWriter
<1>3. CASE x \in table \cup bm25 /\ x.by = r
  <2>1. job[r].op # "scan" /\ job'[r].op = job[r].op
      BY <1>3, StepJob
  <2>2. x.doc = job[r].doc /\ pc[r] \in Wrote /\ Active(r)
      BY <1>3, <2>1, StepPlace DEF ByWriter
  <2>3. pc[r] \in (Adding \ {"addVec"}) \cup Rolling \cup {"count"}
      BY <2>2 DEF Wrote, Active, Working
  <2>4. job'[r].doc = job[r].doc
      BY <2>3, StepJob DEF Adding, Rolling
  <2>5. CASE pc[r] \in Adding
      BY <1>3, <2>1, <2>2, <2>4, <2>5, StepGoes DEF Wrote, Adding, Rolling
  <2>6. CASE pc[r] \in Rolling
    <3>1. PICK d \in DocIds : d = job[r].doc
        BY JobFields
    <3>2. CASE pc'[r] = "failed"
      <4>1. Empty(d)'
          BY <2>1, <2>6, <3>1, <3>2, StepGoes, RolledBack DEF Rolling
      <4> QED BY <2>2, <3>1, <4>1 DEF Empty, Vec, Ent, RowsOf
    <3>3. CASE pc'[r] # "failed"
        BY <1>3, <2>1, <2>2, <2>4, <2>6, <3>3, StepGoes DEF Wrote, Adding, Rolling
    <3> QED BY <3>2, <3>3
  <2>7. CASE pc[r] = "count"
      BY <1>3, <2>2, <2>4, <2>7, StepGoes DEF Wrote
  <2> QED BY <2>3, <2>5, <2>6, <2>7
<1> QED BY <1>1, <1>2, <1>3, RowsFrom

\* A new document whose write failed stays gone.
LEMMA GoneStep ==
    ASSUME DocInv, NEW r \in Reqs, Step(r)
    PROVE  Gone'
<1> USE DEF DocInv
<1>1. \A q \in Reqs \ {r} : pc'[q] = pc[q] /\ job'[q] = job[q]
    BY StepFrame
<1>2. Active(r) /\ job'[r].op = job[r].op
    BY StepPlace, StepJob
<1> SUFFICES ASSUME NEW q \in Reqs, pc'[q] = "failed", job'[q].op \in {"ingest", "inline"},
                    ~job'[q].exists, NEW e \in DocIds, e = job'[q].doc
             PROVE  /\ ~Known(e)' /\ ChunkIdx(e)' = {}
                    /\ \A s \in Reqs : Active(s)' => job'[s].doc # e
  <2>1. ASSUME NEW q \in Reqs PROVE job'[q].doc \in DocIds
    <3>1. job[q].doc \in DocIds /\ job[r].doc \in DocIds
        BY JobFields
    <3>2. job'[r].doc \in DocIds
      <4>1. \A x \in docs : x.id \in DocIds
          BY DEF TypeOK, DocRow
      <4>2. \A p \in job[r].todo : <<r, p>> \in DocIds
          BY JobFields DEF DocIds, Writers
      <4>3. \/ job'[r].doc = job[r].doc
            \/ \E x \in docs : job'[r].doc = x.id
            \/ \E p \in job[r].todo : job'[r].doc = <<r, p>>
          BY DocOf
      <4> QED BY <3>1, <4>1, <4>2, <4>3
    <3> QED BY <1>1, <3>1, <3>2
  <2> QED BY <2>1 DEF Gone
<1>3. CASE q # r
  <2>1. ~Known(e) /\ ChunkIdx(e) = {} /\ \A s \in Reqs : Active(s) => job[s].doc # e
      BY <1>1, <1>3 DEF Gone
  <2>2. job[q].doc = <<q, job[q].path>>
      BY <1>1, <1>3 DEF Kinds, Kind
  <2>3. e # job[r].doc
      BY <1>2, <2>1
  <2>4. ~Known(e)' /\ ChunkIdx(e)' = {}
      BY <2>1, <2>3, Elsewhere DEF Known
  <2>5. job'[r].doc # e
    <3>1. \A x \in docs : x.id # e
        BY <2>1 DEF Known
    <3>2. \A p \in job[r].todo : <<r, p>> # e
        BY <1>1, <1>3, <2>2
    <3> QED BY <2>3, <3>1, <3>2, DocOf
  <2> QED BY <1>1, <2>1, <2>4, <2>5 DEF Active
<1>4. CASE q = r
  <2>1. pc[r] \notin {"lookup", "scan"} /\ job[r].op # "scan"
      BY <1>2, <1>4, StepPlace
  <2>2. job'[r].exists = job[r].exists /\ job'[r].doc = job[r].doc
      BY <2>1, StepJob
  <2>3. pc[r] \in Rolling
    <3>1. pc[r] # "prepare"
      <4>1. CASE PrepareFails(r)
          BY <1>2, <1>4, <2>1, <4>1 DEF PrepareFails, Goto, TypeOK
      <4>2. CASE Prepare(r)
          BY <1>4, <4>2 DEF Prepare, AfterPrepare, Goto, TypeOK
      <4> QED BY <4>1, <4>2 DEF Step, LookupPath, LookupId, ScanNext, ReadOld, AcquireLock,
         DelVec, DelBm25, DelChunks, DelDoc, TeardownFails, AddVec, AddBm25, AddDoc, AddChunks,
         SetSize, WriteFails, RbVec, RbBm25, RbChunks, RbDoc, RollbackFails, Count
    <3>2. pc[r] \notin Teardown
        BY <1>4, <2>2 DEF Kinds, Kind
    <3>3. pc[r] \notin Adding \cup {"count"}
        BY <1>4, <2>1, StepGoes DEF Adding, Rolling
    <3> QED BY <1>2, <2>1, <3>1, <3>2, <3>3 DEF Active, Working, Teardown, Adding, Rolling
  <2>4. pc'[r] \notin Rolling /\ ~job'[r].orphan
      BY <1>4, <2>1, <2>3, StepGoes DEF Rolling
  <2>5. Empty(e)'
      BY <1>4, <2>2, <2>3, <2>4, RolledBack
  <2>6. ASSUME NEW s \in Reqs, Active(s)' PROVE job'[s].doc # e
    <3>1. s # r
        BY <1>4, <2>6 DEF Active, Working
    <3>2. Active(s) /\ job'[s] = job[s]
        BY <1>1, <2>6, <3>1 DEF Active
    <3> QED BY <1>4, <3>1, <3>2, NoneTaken
  <2> QED BY <2>5, <2>6 DEF Empty
<1> QED BY <1>3, <1>4

\* No row is left behind unnoticed.
LEMMA NoOrphanStep ==
    ASSUME DocInv, NEW r \in Reqs, Step(r)
    PROVE  NoOrphanRows'
<1> USE DEF DocInv
<1>1. \A q \in Reqs \ {r} : pc'[q] = pc[q] /\ job'[q] = job[q]
    BY StepFrame
<1>2. Active(r) /\ (job[r].orphan => job'[r].orphan)
    BY StepPlace, StepJob
<1> SUFFICES ASSUME NEW x \in table' \cup bm25'
             PROVE  \/ Known(x.doc)'
                    \/ x.by \in Reqs /\ Reported(x.by)'
                    \/ x.by \in Reqs /\ Writing(x.by)' /\ job'[x.by].doc = x.doc
    BY DEF NoOrphanRows
<1>3. CASE x \in NewRows(r) /\ pc[r] \in {"addVec", "addBm25"} /\ pc'[r] \in {"addBm25", "addDoc", "rbVec"}
  <2>1. x.by = r /\ x.doc = job[r].doc
      BY <1>3, BatchRows DEF NewRows
  <2>2. job'[r].doc = job[r].doc
      BY <1>3, StepJob
  <2> QED BY <1>3, <2>1, <2>2 DEF Writing
<1>4. CASE x \in table \cup bm25
  <2>1. x.doc \in DocIds
      BY <1>4 DEF TypeOK, Row
  <2>2. CASE Known(x.doc)
    <3>1. CASE ~DelDoc(r) /\ ~RbDoc(r)
      <4>1. PICK y \in docs : y.id = x.doc
          BY <2>2 DEF Known
      <4>2. CASE AddDoc(r)
        <5>1. [id |-> job[r].doc, path |-> job[r].path, size |-> 0] \in docs'
            BY <4>2 DEF AddDoc
        <5>2. [id |-> job[r].doc, path |-> job[r].path, size |-> 0].id = job[r].doc
            OBVIOUS
        <5>3. y.id # job[r].doc => y \in docs'
            BY <4>2 DEF AddDoc, WithoutDoc
        <5> QED BY <4>1, <5>1, <5>2, <5>3 DEF Known
      <4>3. CASE ~AddDoc(r)
          BY <2>2, <3>1, <4>3, KnownKept
      <4> QED BY <4>2, <4>3
    <3>2. CASE x.doc # job[r].doc
        BY <2>1, <2>2, <3>2, Elsewhere DEF Known
    <3>3. CASE DelDoc(r) /\ x.doc = job[r].doc
      <4>1. UNCHANGED <<table, bm25>> /\ pc[r] = "delDoc"
          BY <3>3 DEF DelDoc
      <4>2. Vec(x.doc) = {} /\ Ent(x.doc) = {}
          BY <2>1, <3>3, <4>1, AtHere DEF AtCut
      <4> QED BY <4>1, <4>2 DEF Vec, Ent, RowsOf
    <3>4. CASE RbDoc(r) /\ x.doc = job[r].doc
      <4>1. UNCHANGED <<table, bm25>> /\ pc[r] = "rbDoc" /\ job' = job
          BY <3>4 DEF RbDoc
      <4>2. pc[r] \in Adding \cup Rolling
          BY <4>1 DEF Rolling
      <4>3. Stored(x.doc, job[r].path, r, job[r].n)
          BY <2>1, <3>4, <4>2, AtHere DEF AtNew
      <4>4. Vec(x.doc) # {} \/ Ent(x.doc) # {}
          BY <1>4 DEF Vec, Ent, RowsOf
      <4>5. job[r].orphan
          BY <2>1, <3>4, <4>1, <4>4, AtHere DEF AtBack
      <4>6. x.by = r
          BY <1>4, <4>3, BatchRows DEF Stored, Vec, Ent, RowsOf
      <4> QED BY <4>1, <4>5, <4>6 DEF Reported
    <3> QED BY <3>1, <3>2, <3>3, <3>4
  <2>3. CASE x.by \in Reqs /\ Reported(x.by)
    <3>1. CASE x.by = r
        BY <1>2, <2>3, <3>1 DEF Reported, Active, Working
    <3>2. CASE x.by # r
        BY <1>1, <2>3, <3>2 DEF Reported
    <3> QED BY <3>1, <3>2
  <2>4. CASE x.by \in Reqs \ {r} /\ Writing(x.by) /\ job[x.by].doc = x.doc
      BY <1>1, <2>4 DEF Writing
  <2>5. CASE x.by = r /\ Writing(r) /\ job[r].doc = x.doc
    <3>1. job'[r].doc = x.doc
        BY <2>5, StepJob DEF Writing
    <3>2. CASE pc[r] \in {"addBm25", "addDoc"}
      <4>1. CASE AddDoc(r)
        <5>1. [id |-> job[r].doc, path |-> job[r].path, size |-> 0] \in docs'
            BY <4>1 DEF AddDoc
        <5>2. [id |-> job[r].doc, path |-> job[r].path, size |-> 0].id = job[r].doc
            OBVIOUS
        <5> QED BY <2>5, <5>1, <5>2 DEF Known
      <4>2. CASE AddBm25(r) \/ WriteFails(r)
          BY <2>5, <3>1, <4>2 DEF AddBm25, WriteFails, Goto, TypeOK, Writing
      <4> QED BY <3>2, <4>1, <4>2 DEF Step, LookupPath, LookupId, ScanNext, Prepare, PrepareFails,
         ReadOld, AcquireLock, DelVec, DelBm25, DelChunks, DelDoc, TeardownFails, AddVec, AddChunks,
         SetSize, RbVec, RbBm25, RbChunks, RbDoc, RollbackFails, Count
    <3>3. CASE pc[r] \in Rolling
      <4>1. CASE pc'[r] \in Rolling
          BY <2>5, <3>1, <4>1 DEF Writing, Rolling
      <4>2. CASE pc'[r] \notin Rolling /\ ~job'[r].orphan
        <5>1. Empty(x.doc)'
            BY <2>1, <2>5, <3>3, <4>2, RolledBack
        <5> QED BY <5>1 DEF Empty, Vec, Ent, RowsOf
      <4>3. CASE job'[r].orphan
          BY <2>5, <4>3 DEF Reported
      <4> QED BY <4>1, <4>2, <4>3
    <3> QED BY <2>5, <3>2, <3>3 DEF Writing, Rolling
  <2> QED BY <1>4, <2>2, <2>3, <2>4, <2>5 DEF NoOrphanRows
<1> QED BY <1>3, <1>4, RowsFrom

\* A step on its own document, at the places where that is not being changed:
\* nothing is stored anew, a failure is put on record, or the size is set.
LEMMA OwnSteps ==
    ASSUME DocInv, NEW r \in Reqs, Step(r), NEW d \in DocIds, job[r].doc = d,
           NEW x \in docs', x.id = d
    PROVE  \/ UNCHANGED stores /\ pc[r] \notin Changing
           \/ pc'[r] \in Changing /\ job'[r].doc = d /\ UNCHANGED <<docs, chunks>> /\ pc[r] \in {"delVec", "delBm25"}
           \/ pc'[r] \in {"delDoc", "addChunks"} \cup Rolling /\ job'[r].doc = d
           \/ pc'[r] = "setSize" /\ job'[r].doc = d /\ AddChunks(r)
           \/ SetSize(r)
           \/ Blames(r, x)'
<1> USE DEF DocInv, TypeOK, Goto
<1>1. CASE TeardownFails(r) \/ (pc[r] \in Rolling /\ pc'[r] \notin Rolling)
    BY <1>1, LeftBy
<1>2. CASE DelVec(r) \/ DelBm25(r)
    BY <1>2 DEF DelVec, DelBm25, Changing
<1>3. CASE DelChunks(r) \/ AddChunks(r)
    BY <1>3 DEF DelChunks, AddChunks
<1>4. CASE AddDoc(r)
    BY <1>4 DEF AddDoc
<1>5. CASE DelDoc(r)
    BY <1>5 DEF DelDoc, WithoutDoc
<1>6. CASE AddVec(r) \/ AddBm25(r)
  <2>1. docs' = docs /\ pc[r] \in {"addVec", "addBm25"}
      BY <1>6 DEF AddVec, AddBm25
  <2>2. ~Known(d)
      BY <2>1, AtHere DEF AtCut
  <2> QED BY <2>1, <2>2 DEF Known
<1>7. CASE WriteFails(r)
  <2>1. pc'[r] = "rbVec" /\ pc[r] \in Adding
      BY <1>7 DEF WriteFails, Adding
  <2> QED BY <2>1, StepJob DEF Adding, Rolling
<1>8. CASE pc[r] \in Rolling /\ pc'[r] \in Rolling
    BY <1>8, StepJob DEF Rolling
<1>9. CASE \/ LookupPath(r) \/ LookupId(r) \/ Prepare(r) \/ PrepareFails(r) \/ ReadOld(r)
           \/ AcquireLock(r) \/ ScanNext(r) \/ Count(r)
    BY <1>9 DEF LookupPath, LookupId, Prepare, PrepareFails, ReadOld, AcquireLock,
                      ScanNext, Count, Changing, Rolling
<1> QED BY <1>1, <1>2, <1>3, <1>4, <1>5, <1>6, <1>7, <1>8, <1>9
        DEF Step, RbVec, RbBm25, RbChunks, RbDoc, RollbackFails, Rolling

\* At work on d there is one request.
LEMMA OneWorker ==
    ASSUME DocInv, NEW r \in Reqs, NEW q \in Reqs, Active(r), pc[q] \in Changing,
           job[q].doc = job[r].doc
    PROVE  q = r
<1>1. Active(q)
    BY DEF Changing, Rolling, Active, Working
<1> QED BY <1>1 DEF DocInv, Apart

\* A listed document stays whole unless it is being changed or damage is on record.
LEMMA WholeOrStep ==
    ASSUME DocInv, NEW r \in Reqs, Step(r)
    PROVE  WholeOr'
<1> USE DEF DocInv
<1>1. \A q \in Reqs \ {r} : pc'[q] = pc[q] /\ job'[q] = job[q]
    BY StepFrame
<1>2. Active(r) /\ \A p : Touched(p) => Touched(p)'
    BY StepPlace, TouchedKept
<1>3. PICK d \in DocIds : d = job[r].doc
    BY JobFields
<1> SUFFICES ASSUME NEW x \in docs'
             PROVE  Whole(x)' \/ Busy(x)' \/ Touched(x.path)'
    BY DEF WholeOr
<1>4. CASE x.id # d
  <2>1. PICK e \in DocIds : e = x.id
    <3>1. \E y \in docs : y.id = x.id
        BY <1>3, <1>4, DocsFrom
    <3> QED BY <3>1 DEF TypeOK, DocRow
  <2>2. /\ Spared(table, table', e) /\ Spared(bm25, bm25', e) /\ ChunkIdx(e)' = ChunkIdx(e)
        /\ x \in docs
      BY <1>3, <1>4, <2>1, Elsewhere
  <2>3. CASE Touched(x.path)
      BY <1>2, <2>3
  <2>4. CASE Busy(x)
    <3>1. PICK q \in Reqs : job[q].doc = e /\ pc[q] \in Changing
        BY <2>1, <2>4 DEF Busy
    <3> QED BY <1>1, <1>3, <1>4, <2>1, <3>1 DEF Busy
  <2>5. CASE Whole(x) /\ ~Touched(x.path)
    <3>1. PICK w \in Writers : Vec(e) = Batch(e, x.path, w, x.size)
        BY <2>1, <2>5 DEF Whole
    <3>2. x.size \in ChunkCounts /\ Ent(e) = Vec(e) /\ ChunkIdx(e) = 1..x.size
        BY <2>1, <2>5 DEF Whole
    <3>3. \E y \in Vec(e) : y.path = x.path
      <4>1. 1 \in 1..x.size
        <5>1. x.size \in Nat /\ x.size # 0
            BY <3>2, CountsAssumption
        <5> QED BY <5>1
      <4>2. [doc |-> e, idx |-> 1, path |-> x.path, by |-> w] \in Vec(e)
          BY <3>1, <4>1 DEF Batch
      <4> QED BY <4>2
    <3>4. Vec(e)' = Vec(e) /\ Ent(e)' = Ent(e)
        BY <2>2, <2>5, <3>2, <3>3 DEF Spared, Vec, Ent
    <3> QED BY <2>1, <2>2, <3>1, <3>2, <3>4 DEF Whole
  <2> QED BY <2>2, <2>3, <2>4, <2>5 DEF WholeOr
<1>5. CASE x.id = d
  <2>1. CASE UNCHANGED stores /\ pc[r] \notin Changing
    <3>1. x \in docs
        BY <2>1 DEF stores
    <3>2. ~Busy(x)
        BY <1>2, <1>3, <1>5, <2>1, OneWorker DEF Busy
    <3>3. Whole(x) => Whole(x)'
        BY <2>1 DEF stores, Whole, Vec, Ent, ChunkIdx
    <3> QED BY <1>2, <3>1, <3>2, <3>3 DEF WholeOr
  <2>2. CASE pc'[r] \in Changing /\ job'[r].doc = d
      BY <1>5, <2>2 DEF Busy
  <2>3. CASE SetSize(r)
    <3>1. /\ docs' = {IF y.id = d THEN [y EXCEPT !.size = job[r].n] ELSE y : y \in docs}
          /\ UNCHANGED <<table, bm25, chunks>> /\ pc[r] = "setSize"
        BY <1>3, <2>3 DEF SetSize
    <3>2. PICK p, n : p = job[r].path /\ n = job[r].n
        OBVIOUS
    <3>3. /\ n \in ChunkCounts /\ Stored(d, p, r, n) /\ ChunkIdx(d) = 1..n
          /\ Vec(d) = NewRows(r) \/ Touched(p)
          /\ Ent(d) = NewRows(r) \/ Touched(p)
        BY <1>3, <3>1, <3>2, AtHere DEF AtNew, Adding
    <3>4. x.size = n /\ x.path = p
      <4>1. \A y \in docs : [y EXCEPT !.size = job[r].n].id = y.id /\ [y EXCEPT !.size = job[r].n].path = y.path
                            /\ [y EXCEPT !.size = job[r].n].size = job[r].n
          BY DEF TypeOK, DocRow
      <4>2. PICK y \in docs : x = IF y.id = d THEN [y EXCEPT !.size = job[r].n] ELSE y
          BY <3>1
      <4>3. y.id = d /\ x.size = job[r].n /\ x.path = y.path
          BY <1>5, <4>1, <4>2
      <4>4. y.path = p
          BY <3>3, <4>3 DEF Stored
      <4> QED BY <3>2, <4>3, <4>4
    <3>5. CASE Touched(p)
        BY <1>2, <3>4, <3>5
    <3>6. CASE Vec(d) = NewRows(r) /\ Ent(d) = NewRows(r)
      <4>1. Vec(d)' = Batch(d, p, r, n) /\ Ent(d)' = Batch(d, p, r, n) /\ ChunkIdx(d)' = 1..n
          BY <1>3, <3>1, <3>2, <3>3, <3>6 DEF Vec, Ent, ChunkIdx, NewRows
      <4> QED BY <1>5, <3>3, <3>4, <4>1 DEF Whole, Writers
    <3> QED BY <3>3, <3>5, <3>6
  <2>4. CASE Blames(r, x)'
      BY <2>4 DEF Blames, Touched
  <2> QED BY <1>3, <1>5, <2>1, <2>2, <2>3, <2>4, OwnSteps DEF Changing
<1> QED BY <1>4, <1>5

\* Who is to blame for a document stays so.
LEMMA BlamesKept ==
    ASSUME DocInv, NEW r \in Reqs, Step(r), NEW q \in Reqs, NEW x, Blames(q, x)
    PROVE  Blames(q, x)'
<1> USE DEF DocInv
<1>1. Damaged(q)' /\ Touch(q) \subseteq Touch(q)'
    BY DamageKept DEF Blames
<1>2. CASE q # r
  <2>1. job'[q] = job[q]
      BY <1>2, StepFrame
  <2> QED BY <1>1, <2>1 DEF Blames
<1>3. CASE q = r
  <2>1. Active(r)
      BY StepPlace
  <2>2. job[r].orphan
      BY <1>3, <2>1 DEF Blames, Damaged, Reported, Active, Working
  <2>3. CASE job[r].op = "scan"
    <3>1. job[r].doc = <<r, job[r].path>>
        BY <2>3 DEF Kinds, Kind
    <3> QED BY <1>1, <1>3, <3>1 DEF Blames
  <2>4. CASE pc[r] \in {"rbChunks", "rbDoc"}
    <3>1. job'[r].doc = job[r].doc
        BY <2>4, StepJob
    <3> QED BY <1>1, <1>3, <3>1 DEF Blames
  <2> QED BY <2>1, <2>2, <2>3, <2>4 DEF Kinds, Kind, Active, Working
<1> QED BY <1>2, <1>3

\* A listed document loses its chunk rows only to a request on record.
LEMMA ChunklessStep ==
    ASSUME DocInv, NEW r \in Reqs, Step(r)
    PROVE  Chunkless'
<1> USE DEF DocInv
<1>1. \A q \in Reqs \ {r} : pc'[q] = pc[q] /\ job'[q] = job[q]
    BY StepFrame
<1>2. Active(r)
    BY StepPlace
<1>3. PICK d \in DocIds : d = job[r].doc
    BY JobFields
<1> SUFFICES ASSUME NEW x \in docs', ChunkIdx(x.id)' = {}
             PROVE  Cut(x)' \/ \E q \in Reqs : Blames(q, x)'
    BY DEF Chunkless
<1>4. ASSUME NEW q \in Reqs, Blames(q, x) PROVE Blames(q, x)'
    BY <1>4, BlamesKept
<1>5. CASE x.id # d
  <2>1. PICK e \in DocIds : e = x.id
    <3>1. \E y \in docs : y.id = x.id
        BY <1>3, <1>5, DocsFrom
    <3> QED BY <3>1 DEF TypeOK, DocRow
  <2>2. ChunkIdx(e)' = ChunkIdx(e) /\ x \in docs
      BY <1>3, <1>5, <2>1, Elsewhere
  <2>3. CASE Cut(x)
      BY <1>1, <1>3, <1>5, <2>3 DEF Cut
  <2> QED BY <1>4, <2>1, <2>2, <2>3 DEF Chunkless
<1>6. CASE x.id = d
  <2>1. CASE UNCHANGED <<docs, chunks>> /\ pc[r] \notin {"delDoc", "addChunks"} \cup Rolling
    <3>1. ~Cut(x)
        BY <1>2, <1>3, <1>6, <2>1, OneWorker DEF Cut, Changing
    <3>2. ChunkIdx(x.id) = {} /\ x \in docs
        BY <2>1 DEF ChunkIdx
    <3> QED BY <1>4, <3>1, <3>2 DEF Chunkless
  <2>2. CASE pc'[r] \in {"delDoc", "addChunks"} \cup Rolling /\ job'[r].doc = d
      BY <1>6, <2>2 DEF Cut
  <2>3. CASE AddChunks(r) \/ SetSize(r)
    <3>1. PICK n : n = job[r].n
        OBVIOUS
    <3>2. 1..n # {}
      <4>1. pc[r] \in Adding
          BY <2>3 DEF AddChunks, SetSize, Adding
      <4>2. n \in ChunkCounts
          BY <1>3, <3>1, <4>1, AtHere DEF AtNew
      <4>3. 1 \in 1..n
          BY <4>2, CountsAssumption
      <4> QED BY <4>3
    <3>3. CASE AddChunks(r)
      <4>1. chunks' = chunks \cup ({d} \X (1..n))
          BY <1>3, <3>1, <3>3 DEF AddChunks
      <4>2. ChunkIdx(d)' = ChunkIdx(d) \cup 1..n
          BY <4>1, ChunksAdded
      <4> QED BY <1>6, <3>2, <4>2
    <3>4. CASE SetSize(r)
      <4>1. pc[r] = "setSize" /\ chunks' = chunks
          BY <3>4 DEF SetSize
      <4>2. ChunkIdx(d)' = 1..n
          BY <1>3, <3>1, <4>1, AtHere DEF AtNew, ChunkIdx
      <4> QED BY <1>6, <3>2, <4>2
    <3> QED BY <2>3, <3>3, <3>4
  <2> QED BY <1>3, <1>6, <2>1, <2>2, <2>3, OwnSteps DEF Changing, stores, Rolling
<1> QED BY <1>5, <1>6

-----------------------------------------------------------------------------
(* The invariant when a request is submitted, at a crash, and at first.    *)

\* A request starts on a document that is not there yet, or that no request
\* at work has anything to do with.
LEMMA StartInv ==
    ASSUME DocInv, TypeOK', Exclusive, NEW r \in Reqs, NEW l, NEW j \in Job, Start(r, l, j),
           /\ j.op # "none" /\ ~j.exists /\ ~j.orphan /\ j.from = j.path
           /\ l = IF j.op = "scan" THEN "scan" ELSE IF j.op = "inline" THEN "prepare" ELSE "lookup",
           j.op \in {"ingest", "inline", "scan"} => j.doc = <<r, j.path>>,
           j.op \in {"delete", "replace"} =>
              \E x \in docs : x.id = j.doc /\ {x.path} \cap FilePaths \subseteq j.claim,
           /\ j.op = "ingest" => j.path \in FilePaths
           /\ j.op = "inline" => j.path \in InlinePaths
           /\ j.op \in {"ingest", "replace"} => j.path \in j.claim
           /\ j.todo \subseteq j.claim
    PROVE  DocInv'
<1> USE DEF DocInv
<1>1. /\ UNCHANGED <<table, bm25, docs, chunks>> /\ pc[r] = "idle" /\ pc'[r] = l /\ job'[r] = j
      /\ \A q \in Reqs \ {r} : pc'[q] = pc[q] /\ job'[q] = job[q]
    BY DEF Start, stores, Goto, TypeOK
<1>2. /\ job[r].op = "none" /\ job[r].claim = {} /\ ~job[r].orphan
      /\ ~Active(r) /\ ~Damaged(r) /\ pc[r] \notin Changing /\ pc[r] \notin Wrote
    BY <1>1 DEF Kinds, Kind, Active, Working, Damaged, Reported, Changing, Rolling, Wrote, Adding
<1>3. \A q \in Reqs : Active(q) => job[q].doc # j.doc /\ job[q].claim \cap j.claim = {}
    BY DEF Start, Overlap
<1>4. j.op \in AllOps /\ l \in {"scan", "prepare", "lookup"} /\ j.path \in Paths /\ j.doc \in DocIds
    BY DEF Job
<1>5. j.op \in {"ingest", "inline", "scan"} => Empty(j.doc)
  <2>1. \A p \in Paths : Empty(<<r, p>>)
      BY <1>1 DEF Fresh, Unmade
  <2> QED BY <1>4, <2>1
<1>6. \A q \in Reqs \ {r}, p \in Paths : Empty(<<q, p>>) => j.doc # <<q, p>>
  <2>1. j.op \in {"ingest", "inline", "scan", "delete", "replace"}
      BY <1>4 DEF AllOps
  <2> QED BY <2>1 DEF Empty, Known
<1>7. \A d : /\ Vec(d)' = Vec(d) /\ Ent(d)' = Ent(d)
             /\ ChunkIdx(d)' = ChunkIdx(d) /\ Known(d)' = Known(d)
    BY <1>1 DEF Vec, Ent, ChunkIdx, Known
<1>8. \A p : OnlyIngested(p)' => OnlyIngested(p)
    BY <1>1, <1>2 DEF OnlyIngested
<1>9. \A q \in Reqs : Damaged(q) => q # r /\ Damaged(q)' /\ Touch(q)' = Touch(q)
    BY <1>1, <1>2 DEF Damaged, Reported, Touch
<1>10. Kinds'
  <2>1. Kind(r)'
      BY <1>1, <1>4 DEF Kind, Teardown, Adding, Rolling, AllOps
  <2>2. ASSUME NEW q \in Reqs \ {r} PROVE Kind(q)'
    <3>1. Kind(q) /\ pc'[q] = pc[q] /\ job'[q] = job[q]
        BY <1>1 DEF Kinds
    <3> QED BY <3>1 DEF Kind
  <2> QED BY <2>1, <2>2 DEF Kinds
<1>11. Apart'
  <2>1. ASSUME NEW q \in Reqs, NEW s \in Reqs, q # s, Active(q)', Active(s)'
        PROVE  job'[q].doc # job'[s].doc /\ job'[q].claim \cap job'[s].claim = {}
    <3>1. \A u \in Reqs \ {r} : Active(u)' => Active(u)
        BY <1>1 DEF Active
    <3> QED BY <1>1, <1>3, <2>1, <3>1 DEF Apart
  <2> QED BY <2>1 DEF Apart
<1>12. Claims'
  <2>1. ASSUME NEW x \in docs, x.id = j.doc, x.path \in FilePaths \/ j.op = "scan"
        PROVE  x.path \in j.claim
    <3>1. j.op \in {"delete", "replace"}
        BY <1>4, <1>5, <2>1 DEF AllOps, Empty, Known
    <3>2. PICK y \in docs : y.id = j.doc /\ {y.path} \cap FilePaths \subseteq j.claim
        BY <3>1
    <3> QED BY <2>1, <3>1, <3>2 DEF Listed
  <2>2. \A q \in Reqs \ {r} : Active(q)' => Active(q)
      BY <1>1 DEF Active
  <2> QED BY <1>1, <2>1, <2>2 DEF Claims
<1>13. Fresh'
  <2>1. ASSUME NEW q \in Reqs, NEW p \in Paths, Unmade(q, p)'
        PROVE  Empty(<<q, p>>)' /\ \A s \in Reqs \ {q} : job'[s].doc # <<q, p>>
    <3>1. Unmade(q, p)
        BY <1>1, <2>1 DEF Unmade
    <3>2. Empty(<<q, p>>) /\ \A s \in Reqs \ {q} : job[s].doc # <<q, p>>
        BY <3>1 DEF Fresh
    <3> QED BY <1>1, <1>6, <1>7, <3>2 DEF Empty
  <2> QED BY <2>1 DEF Fresh
<1>14. OneVersion' /\ Listed'
    BY <1>1, <1>7 DEF OneVersion, Listed, Stored
<1>15. Progress'
  <2>1. At(r, j.doc)'
      BY <1>1, <1>4, <1>5, <1>7
         DEF At, AtOld, AtCut, AtNew, AtBack, Teardown, Adding, Rolling, Empty
  <2>2. ASSUME NEW q \in Reqs \ {r}, NEW d \in DocIds, job[q].doc = d PROVE At(q, d)'
    <3>1. At(q, d)
        BY <2>2 DEF Progress
    <3>2. pc'[q] = pc[q] /\ job'[q] = job[q] /\ NewRows(q)' = NewRows(q)
        BY <1>1 DEF NewRows
    <3>3. Touched(job[q].path) => Touched(job[q].path)'
      <4>1. PICK p : p = job[q].path
          OBVIOUS
      <4>2. Touched(p) => Touched(p)'
          BY <1>9 DEF Touched
      <4> QED BY <3>2, <4>1, <4>2
    <3>4. AtOld(q, d)' /\ AtCut(q, d)' /\ AtBack(q, d)'
        BY <1>1, <1>7, <3>1, <3>2 DEF At, AtOld, AtCut, AtBack, Empty
    <3>5. AtNew(q, d)'
        BY <1>1, <1>7, <3>1, <3>2, <3>3 DEF At, AtNew, Stored
    <3> QED BY <3>4, <3>5 DEF At
  <2> QED BY <1>1, <2>1, <2>2 DEF Progress
<1>16. ByWriter'
  <2>1. ASSUME NEW x \in table \cup bm25, x.by \in Reqs PROVE x.by # r
      BY <1>2, <2>1 DEF ByWriter
  <2> QED BY <1>1, <2>1 DEF ByWriter
<1>17. Gone'
  <2>1. ASSUME NEW q \in Reqs \ {r}, pc[q] = "failed", job[q].op \in {"ingest", "inline"}, ~job[q].exists
        PROVE  j.doc # job[q].doc
    <3>1. ~Known(job[q].doc) /\ job[q].doc = <<q, job[q].path>>
        BY <2>1 DEF Gone, Kinds, Kind
    <3> QED BY <1>4, <3>1 DEF Known, AllOps
  <2>2. pc'[r] # "failed"
      BY <1>1, <1>4
  <2>3. \A q \in Reqs \ {r} : Active(q)' => Active(q)
      BY <1>1 DEF Active
  <2> QED BY <1>1, <1>7, <2>1, <2>2, <2>3 DEF Gone
<1>18. WholeOr' /\ Chunkless'
  <2>1. ASSUME NEW x \in docs
        PROVE  /\ Whole(x) => Whole(x)'
               /\ Busy(x) => Busy(x)'
               /\ Cut(x) => Cut(x)'
               /\ Touched(x.path) => Touched(x.path)'
               /\ \A q \in Reqs : Blames(q, x) => Blames(q, x)'
    <3>1. Whole(x) => Whole(x)'
        BY <1>7 DEF Whole
    <3>2. (Busy(x) => Busy(x)') /\ (Cut(x) => Cut(x)')
        BY <1>1, <1>2 DEF Busy, Cut, Changing
    <3>3. Touched(x.path) => Touched(x.path)'
        BY <1>9 DEF Touched
    <3>4. \A q \in Reqs : Blames(q, x) => Blames(q, x)'
        BY <1>1, <1>9 DEF Blames
    <3> QED BY <3>1, <3>2, <3>3, <3>4
  <2>2. ASSUME NEW x \in docs PROVE Whole(x)' \/ Busy(x)' \/ Touched(x.path)'
      BY <2>1 DEF WholeOr
  <2>3. ASSUME NEW x \in docs, ChunkIdx(x.id) = {} PROVE Cut(x)' \/ \E q \in Reqs : Blames(q, x)'
      BY <2>1, <2>3 DEF Chunkless
  <2>4. WholeOr'
      BY <1>1, <2>2 DEF WholeOr
  <2>5. Chunkless'
    <3> SUFFICES ASSUME NEW x \in docs', ChunkIdx(x.id)' = {} PROVE Cut(x)' \/ \E q \in Reqs : Blames(q, x)'
        BY DEF Chunkless
    <3> QED BY <1>1, <1>7, <2>3
  <2> QED BY <2>4, <2>5
<1>19. Sole'
  <2>1. ASSUME NEW q \in Reqs, NEW x \in docs, Active(q)', job'[q].op = "ingest", pc'[q] # "lookup",
               NEW p, p = job'[q].path, OnlyIngested(p)', x.path = p
        PROVE  x.id = job'[q].doc
    <3>1. q # r
        BY <1>1, <2>1
    <3>2. Active(q) /\ job'[q] = job[q] /\ pc'[q] = pc[q] /\ OnlyIngested(p)
        BY <1>1, <1>8, <2>1, <3>1 DEF Active
    <3> QED BY <2>1, <3>2 DEF Sole
  <2> SUFFICES ASSUME NEW q \in Reqs, NEW x \in docs', Active(q)', job'[q].op = "ingest", pc'[q] # "lookup",
                      OnlyIngested(job[q].path)', x.path = job'[q].path
               PROVE  x.id = job'[q].doc
      BY DEF Sole
  <2>2. PICK p : p = job'[q].path
      OBVIOUS
  <2>3. OnlyIngested(p)'
      BY <2>2 DEF OnlyIngested
  <2> QED BY <1>1, <2>1, <2>2, <2>3
<1>20. NoOrphanRows'
  <2>1. \A q \in Reqs : Reported(q) \/ Writing(q) => q # r
      BY <1>1, <1>2 DEF Damaged, Reported, Writing
  <2> QED BY <1>1, <1>7, <2>1 DEF NoOrphanRows, Reported, Writing
<1>21. PathUnique'
    BY <1>1, <1>8 DEF PathUnique
<1> QED BY <1>10, <1>11, <1>12, <1>13, <1>14, <1>15, <1>16, <1>17, <1>18, <1>19, <1>20, <1>21

\* Each kind of request starts in the invariant.
LEMMA SubmitInv ==
    ASSUME DocInv, TypeOK', Exclusive, NEW r \in Reqs, Submit(r)
    PROVE  DocInv'
<1> USE DEF AllOps
<1>0. job[r].path \in Paths /\ job[r].doc \in DocIds /\ pc[r] = "idle"
    BY JobFields DEF DocInv, Submit, SubmitIngest, SubmitInline, SubmitScan, SubmitDelete, SubmitReplace, Start
<1>1. CASE SubmitIngest(r)
  <2>1. PICK p \in FilePaths : Start(r, "lookup", NewJob("ingest", p, <<r, p>>, {p}, {}))
      BY <1>1 DEF SubmitIngest
  <2> DEFINE j == NewJob("ingest", p, <<r, p>>, {p}, {})
  <2>2. j \in Job
      BY NewJobType DEF Paths, DocIds, Writers
  <2>3. /\ j.op = "ingest" /\ j.doc = <<r, p>> /\ j.path = p /\ j.from = p
        /\ j.claim = {p} /\ j.todo = {} /\ ~j.exists /\ ~j.orphan
      BY DEF NewJob
  <2> HIDE DEF j
  <2>4. Start(r, "lookup", j)
      BY <2>1 DEF j
  <2> QED BY <2>2, <2>3, <2>4, StartInv
<1>2. CASE SubmitInline(r)
  <2>1. PICK p \in InlinePaths : Start(r, "prepare", NewJob("inline", p, <<r, p>>, {}, {}))
      BY <1>2 DEF SubmitInline
  <2> DEFINE j == NewJob("inline", p, <<r, p>>, {}, {})
  <2>2. j \in Job
      BY NewJobType DEF Paths, DocIds, Writers
  <2>3. /\ j.op = "inline" /\ j.doc = <<r, p>> /\ j.path = p /\ j.from = p
        /\ j.claim = {} /\ j.todo = {} /\ ~j.exists /\ ~j.orphan
      BY DEF NewJob
  <2> HIDE DEF j
  <2>4. Start(r, "prepare", j)
      BY <2>1 DEF j
  <2> QED BY <2>2, <2>3, <2>4, StartInv
<1>3. CASE SubmitScan(r)
  <2>1. PICK T \in (SUBSET FilePaths) \ {{}} :
          Start(r, "scan", NewJob("scan", job[r].path, job[r].doc, T, T))
      BY <1>3 DEF SubmitScan
  <2> DEFINE j == NewJob("scan", job[r].path, job[r].doc, T, T)
  <2>2. j \in Job
      BY <1>0, NewJobType DEF Paths
  <2>3. /\ j.op = "scan" /\ j.doc = job[r].doc /\ j.path = job[r].path /\ j.from = j.path
        /\ j.claim = T /\ j.todo = T /\ ~j.exists /\ ~j.orphan
      BY DEF NewJob
  <2>4. j.doc = <<r, j.path>>
      BY <1>0, <2>3 DEF DocInv, Kinds, Kind
  <2>5. Start(r, "scan", j)
      BY <2>1
  <2> HIDE DEF j
  <2> QED BY <2>2, <2>3, <2>4, <2>5, StartInv
<1>4. CASE SubmitDelete(r)
  <2>1. PICK x \in docs : Start(r, "lookup", NewJob("delete", x.path, x.id, {x.path} \cap FilePaths, {}))
      BY <1>4 DEF SubmitDelete
  <2> DEFINE j == NewJob("delete", x.path, x.id, {x.path} \cap FilePaths, {})
  <2>2. j \in Job
    <3>1. x.path \in Paths /\ x.id \in DocIds
        BY DEF DocInv, TypeOK, DocRow
    <3> QED BY <3>1, NewJobType
  <2>3. /\ j.op = "delete" /\ j.doc = x.id /\ j.path = x.path /\ j.from = x.path
        /\ j.claim = {x.path} \cap FilePaths /\ j.todo = {} /\ ~j.exists /\ ~j.orphan
      BY DEF NewJob
  <2>4. Start(r, "lookup", j)
      BY <2>1
  <2> HIDE DEF j
  <2> QED BY <2>2, <2>3, <2>4, StartInv
<1>5. CASE SubmitReplace(r)
  <2>1. PICK x \in docs, p \in FilePaths :
          Start(r, "lookup", NewJob("replace", p, x.id, ({x.path} \cap FilePaths) \cup {p}, {}))
      BY <1>5 DEF SubmitReplace
  <2> DEFINE j == NewJob("replace", p, x.id, ({x.path} \cap FilePaths) \cup {p}, {})
  <2>2. j \in Job
    <3>1. p \in Paths /\ x.id \in DocIds
        BY DEF DocInv, TypeOK, DocRow, Paths
    <3> QED BY <3>1, NewJobType
  <2>3. /\ j.op = "replace" /\ j.doc = x.id /\ j.path = p /\ j.from = p
        /\ j.claim = ({x.path} \cap FilePaths) \cup {p} /\ j.todo = {} /\ ~j.exists /\ ~j.orphan
      BY DEF NewJob
  <2>4. Start(r, "lookup", j)
      BY <2>1
  <2> HIDE DEF j
  <2> QED BY <2>2, <2>3, <2>4, StartInv
<1> QED BY <1>1, <1>2, <1>3, <1>4, <1>5 DEF Submit

\* A crash leaves the stores as they are and everyone at work on record.
LEMMA CrashInv ==
    ASSUME DocInv, TypeOK', Crash
    PROVE  DocInv'
<1> USE DEF DocInv
<1>1. /\ UNCHANGED <<table, bm25, docs, chunks, job>>
      /\ \A q \in Reqs : /\ pc'[q] = IF Active(q) THEN "lost" ELSE pc[q]
                         /\ ~Active(q)' /\ pc'[q] \notin Placed
    BY DEF Crash, stores, Active, Working, Answered, TypeOK, Placed, Teardown, Adding, Rolling
<1>2. /\ \A d : /\ Vec(d)' = Vec(d) /\ Ent(d)' = Ent(d)
                /\ ChunkIdx(d)' = ChunkIdx(d) /\ Known(d)' = Known(d)
      /\ \A p : OnlyIngested(p)' = OnlyIngested(p)
    BY <1>1 DEF Vec, Ent, ChunkIdx, Known, OnlyIngested
<1>3. \A q \in Reqs : /\ Touch(q)' = Touch(q) /\ (Damaged(q) => Damaged(q)')
                      /\ (Active(q) => Damaged(q)')
    BY <1>1 DEF Damaged, Reported, Touch, Active, Working
<1>4. \A q \in Reqs : pc[q] \in Changing => Active(q)
    BY DEF Changing, Rolling, Active, Working
<1>5. ASSUME NEW x \in docs, NEW q \in Reqs, job[q].doc = x.id, pc[q] \in Changing \cup {"delDoc"}
      PROVE  x.path \in Touch(q)
  <2>1. PICK d \in DocIds : d = job[q].doc
      BY JobFields
  <2>2. CASE pc[q] \in Teardown
    <3>1. PICK y \in docs : y.id = d /\ y.path = job[q].from
        BY <2>1, <2>2, AtHere DEF AtOld, Kinds, Kind
    <3> QED BY <1>5, <2>1, <3>1 DEF Listed, Touch
  <2>3. CASE pc[q] \in Adding \cup Rolling
    <3>1. Stored(d, job[q].path, q, job[q].n)
        BY <2>1, <2>3, AtHere DEF AtNew
    <3> QED BY <1>5, <2>1, <3>1 DEF Stored, Touch
  <2> QED BY <1>5, <2>2, <2>3 DEF Changing, Teardown, Adding, Rolling
<1>6. Kinds'
  <2>1. ASSUME NEW q \in Reqs PROVE Kind(q)'
    <3>1. Kind(q)
        BY DEF Kinds
    <3>2. CASE Active(q)
        BY <1>1, <3>1, <3>2 DEF Kind, Active, Working, Teardown, Adding, Rolling
    <3>3. CASE ~Active(q)
        BY <1>1, <3>1, <3>3 DEF Kind
    <3> QED BY <3>2, <3>3
  <2> QED BY <2>1 DEF Kinds
<1>7. Apart' /\ Claims' /\ Sole'
    BY <1>1 DEF Apart, Claims, Sole
<1>8. Fresh'
  <2>1. \A q \in Reqs, p \in Paths : Unmade(q, p)' => Unmade(q, p)
      BY <1>1 DEF Unmade
  <2> QED BY <1>1, <1>2, <2>1 DEF Fresh, Empty
<1>9. OneVersion' /\ Listed'
    BY <1>1, <1>2 DEF OneVersion, Listed, Stored
<1>10. Progress'
  <2>1. ASSUME NEW q \in Reqs, NEW d \in DocIds PROVE At(q, d)'
      BY <1>1, AtEnd DEF At, AtOld, AtCut, AtNew, AtBack, Placed, Teardown, Adding, Rolling
  <2> QED BY <2>1 DEF Progress
<1>11. ByWriter'
    BY <1>1 DEF ByWriter, Wrote
<1>12. Gone'
    BY <1>1, <1>2 DEF Gone
<1>13. WholeOr'
  <2>1. ASSUME NEW x \in docs PROVE Whole(x)' \/ Touched(x.path)'
    <3>1. Whole(x) => Whole(x)'
        BY <1>1, <1>2 DEF Whole
    <3>2. Touched(x.path) => Touched(x.path)'
        BY <1>3 DEF Touched
    <3>3. Busy(x) => Touched(x.path)'
        BY <1>3, <1>4, <1>5 DEF Busy, Touched
    <3> QED BY <3>1, <3>2, <3>3 DEF WholeOr
  <2> QED BY <1>1, <2>1 DEF WholeOr
<1>14. Chunkless'
  <2>1. ASSUME NEW x \in docs, ChunkIdx(x.id) = {} PROVE \E q \in Reqs : Blames(q, x)'
    <3>1. \A q \in Reqs : Blames(q, x) => Blames(q, x)'
        BY <1>1, <1>3 DEF Blames
    <3>2. ASSUME NEW q \in Reqs, job[q].doc = x.id, pc[q] \in {"delDoc", "addChunks"} \cup Rolling
          PROVE  Blames(q, x)'
      <4>1. x.path \in Touch(q) /\ Active(q)
          BY <1>4, <1>5, <3>2 DEF Changing
      <4> QED BY <1>1, <1>3, <3>2, <4>1 DEF Blames
    <3> QED BY <2>1, <3>1, <3>2 DEF Chunkless, Cut
  <2> SUFFICES ASSUME NEW x \in docs', ChunkIdx(x.id)' = {} PROVE \E q \in Reqs : Blames(q, x)'
      BY DEF Chunkless
  <2> QED BY <1>1, <1>2, <2>1
<1>15. NoOrphanRows'
  <2>1. \A q \in Reqs : Reported(q) \/ Writing(q) => Reported(q)'
      BY <1>1 DEF Reported, Writing, Active, Working
  <2> QED BY <1>1, <1>2, <2>1 DEF NoOrphanRows
<1>16. PathUnique'
    BY <1>1, <1>2 DEF PathUnique
<1> QED BY <1>6, <1>7, <1>8, <1>9, <1>10, <1>11, <1>12, <1>13, <1>14, <1>15, <1>16

\* At first a document is empty or one of the seed, whole.
LEMMA SeedStored ==
    ASSUME Init, NEW d \in DocIds
    PROVE  \/ Empty(d)
           \/ \E p \in SeedPaths : /\ d = <<Seed, p>> /\ ChunkIdx(d) = 1..SeedSize
                                   /\ Vec(d) = Batch(d, p, Seed, SeedSize) /\ Ent(d) = Vec(d)
<1>1. bm25 = table /\ Ent(d) = Vec(d)
    BY DEF Init, Vec, Ent
<1>2. table = UNION {Batch(<<Seed, p>>, p, Seed, SeedSize) : p \in SeedPaths}
    BY DEF Init
<1>3. \A x \in docs : \E p \in SeedPaths : x = [id |-> <<Seed, p>>, path |-> p, size |-> SeedSize]
    BY DEF Init
<1>4. \A c : c \in chunks <=> \E p \in SeedPaths, i \in 1..SeedSize : c = <<<<Seed, p>>, i>>
    BY DEF Init
<1>5. \A x : x \in table <=> \E p \in SeedPaths : x \in Batch(<<Seed, p>>, p, Seed, SeedSize)
    BY <1>2
<1>6. CASE \E p \in SeedPaths : d = <<Seed, p>>
  <2>1. PICK p \in SeedPaths : d = <<Seed, p>>
      BY <1>6
  <2>2. \A q \in SeedPaths : \A x \in Batch(<<Seed, q>>, q, Seed, SeedSize) : x.doc = <<Seed, q>>
      BY BatchRows
  <2>3. \A q : <<Seed, q>> = d => q = p
      BY <2>1
  <2>4. Vec(d) \subseteq Batch(d, p, Seed, SeedSize)
    <3> SUFFICES ASSUME NEW x \in table, x.doc = d PROVE x \in Batch(d, p, Seed, SeedSize)
        BY DEF Vec, RowsOf
    <3>1. PICK q \in SeedPaths : x \in Batch(<<Seed, q>>, q, Seed, SeedSize)
        BY <1>5
    <3> QED BY <2>1, <2>2, <2>3, <3>1
  <2>5. Batch(d, p, Seed, SeedSize) \subseteq Vec(d)
      BY <1>5, <2>1, <2>2 DEF Vec, RowsOf
  <2>6. ChunkIdx(d) = 1..SeedSize
    <3>1. \A i \in 1..SeedSize : <<d, i>> \in chunks /\ <<d, i>>[1] = d /\ <<d, i>>[2] = i
        BY <1>4, <2>1
    <3>2. \A c \in chunks : c[2] \in 1..SeedSize
        BY <1>4
    <3> QED BY <3>1, <3>2 DEF ChunkIdx
  <2>7. Vec(d) = Batch(d, p, Seed, SeedSize)
      BY <2>4, <2>5
  <2> QED BY <1>1, <2>1, <2>6, <2>7
<1>7. CASE \A p \in SeedPaths : d # <<Seed, p>>
  <2>1. Vec(d) = {}
    <3>1. \A q \in SeedPaths : \A x \in Batch(<<Seed, q>>, q, Seed, SeedSize) : x.doc = <<Seed, q>>
        BY BatchRows
    <3> QED BY <1>5, <1>7, <3>1 DEF Vec, RowsOf
  <2>2. ~Known(d)
      BY <1>3, <1>7 DEF Known
  <2>3. ChunkIdx(d) = {}
      BY <1>4, <1>7 DEF ChunkIdx
  <2> QED BY <1>1, <2>1, <2>2, <2>3 DEF Empty
<1> QED BY <1>6, <1>7

\* The invariant at first,
LEMMA InitInv == Init => DocInv
<1> SUFFICES ASSUME Init PROVE DocInv
    OBVIOUS
<1> USE DEF Init
<1>0. TypeOK /\ SeedSize \in ChunkCounts /\ 1..SeedSize # {}
  <2>1. TypeOK
      BY InitTypeInv DEF TypeInv
  <2>2. SeedSize \in ChunkCounts
      BY CountsAssumption DEF SeedSize
  <2>3. SeedSize \in Nat /\ SeedSize # 0
      BY <2>2, CountsAssumption
  <2>4. 1 \in 1..SeedSize
      BY <2>3
  <2> QED BY <2>1, <2>2, <2>4
<1>1. PICK p0 \in Paths : p0 = CHOOSE p \in Paths : TRUE
    BY PathsAssumption DEF Paths
<1>2. \A r \in Reqs : /\ pc[r] = "idle" /\ ~Active(r) /\ ~Damaged(r)
                      /\ job[r] = NewJob("none", p0, <<r, p0>>, {}, {})
    BY <1>1 DEF Active, Working, Damaged, Reported, NewJob
<1>3. \A r \in Reqs : /\ job[r].op = "none" /\ job[r].path = p0 /\ job[r].doc = <<r, p0>>
                      /\ job[r].claim = {} /\ job[r].todo = {} /\ ~job[r].exists /\ ~job[r].orphan
    BY <1>2 DEF NewJob
<1>4. Kinds
    BY <1>2, <1>3 DEF Kinds, Kind, Working, Teardown, Adding, Rolling
<1>5. Apart /\ Claims /\ Gone /\ Sole
    BY <1>2 DEF Apart, Claims, Gone, Sole
<1>6. ASSUME NEW d \in DocIds
      PROVE  Empty(d) \/ \E p \in SeedPaths :
                /\ d = <<Seed, p>> /\ ChunkIdx(d) = 1..SeedSize
                /\ Vec(d) = Batch(d, p, Seed, SeedSize) /\ Ent(d) = Vec(d)
    BY SeedStored
<1>7. \A x \in docs : \E p \in SeedPaths : x = [id |-> <<Seed, p>>, path |-> p, size |-> SeedSize]
    OBVIOUS
<1>8. Fresh
  <2>1. ASSUME NEW r \in Reqs, NEW p \in Paths
        PROVE  Empty(<<r, p>>) /\ \A q \in Reqs \ {r} : job[q].doc # <<r, p>>
    <3>1. <<r, p>> \in DocIds /\ r # Seed
        BY ReqsAssumption DEF DocIds, Writers
    <3>2. \A s : <<r, p>> # <<Seed, s>>
        BY <3>1
    <3>3. Empty(<<r, p>>)
        BY <1>6, <3>1, <3>2
    <3> QED BY <1>3, <3>3
  <2> QED BY <2>1 DEF Fresh
<1>9. OneVersion
  <2>1. ASSUME NEW d \in DocIds
        PROVE  \E p \in Paths, w \in Writers, n \in ChunkCounts : Stored(d, p, w, n)
    <3>1. CASE Empty(d)
      <4>1. Seed \in Writers /\ Stored(d, p0, Seed, SeedSize)
          BY <3>1 DEF Empty, Stored, Known, Writers
      <4> QED BY <1>0, <4>1
    <3>2. CASE \E p \in SeedPaths : /\ d = <<Seed, p>> /\ ChunkIdx(d) = 1..SeedSize
                /\ Vec(d) = Batch(d, p, Seed, SeedSize) /\ Ent(d) = Vec(d)
      <4>1. PICK p \in SeedPaths : /\ d = <<Seed, p>> /\ ChunkIdx(d) = 1..SeedSize
                /\ Vec(d) = Batch(d, p, Seed, SeedSize) /\ Ent(d) = Vec(d)
          BY <3>2
      <4>2. \A x \in docs : x.id = d => x.path = p
          BY <1>7, <4>1
      <4>3. Stored(d, p, Seed, SeedSize) /\ Seed \in Writers /\ p \in Paths
          BY <4>1, <4>2, PathsAssumption DEF Stored, Writers, Paths
      <4> QED BY <1>0, <4>3
    <3> QED BY <1>6, <3>1, <3>2
  <2> QED BY <2>1 DEF OneVersion
<1>10. Listed
  <2>1. ASSUME NEW d \in DocIds, ChunkIdx(d) # {} PROVE Known(d)
    <3>1. PICK p \in SeedPaths : d = <<Seed, p>>
        BY <1>6, <2>1 DEF Empty
    <3>2. [id |-> <<Seed, p>>, path |-> p, size |-> SeedSize] \in docs
        OBVIOUS
    <3>3. [id |-> <<Seed, p>>, path |-> p, size |-> SeedSize].id = d
        BY <3>1
    <3> QED BY <3>2, <3>3 DEF Known
  <2>2. ASSUME NEW x \in docs, NEW y \in docs, x.id = y.id PROVE x = y
      BY <1>7, <2>2
  <2> QED BY <2>1, <2>2 DEF Listed
<1>11. Progress
  <2>1. ASSUME NEW r \in Reqs, NEW d \in DocIds PROVE At(r, d)
    <3>1. pc[r] \notin Placed
        BY <1>2 DEF Placed, Teardown, Adding, Rolling
    <3> QED BY <3>1, AtEnd
  <2> QED BY <2>1 DEF Progress
<1>12. ByWriter
  <2>1. \A x \in table \cup bm25 : \E p \in SeedPaths : x \in Batch(<<Seed, p>>, p, Seed, SeedSize)
      OBVIOUS
  <2>2. \A p \in SeedPaths : \A x \in Batch(<<Seed, p>>, p, Seed, SeedSize) : x.by = Seed
      BY BatchRows
  <2>3. \A x \in table \cup bm25 : x.by = Seed
      BY <2>1, <2>2
  <2> QED BY <2>3, ReqsAssumption DEF ByWriter
<1>13. \A x \in docs : Whole(x)
  <2> SUFFICES ASSUME NEW x \in docs PROVE Whole(x)
      OBVIOUS
  <2>1. PICK p \in SeedPaths : x = [id |-> <<Seed, p>>, path |-> p, size |-> SeedSize]
      BY <1>7
  <2>2. x.id = <<Seed, p>> /\ x.path = p /\ x.size = SeedSize /\ x.id \in DocIds /\ Known(x.id)
      BY <2>1, PathsAssumption DEF DocIds, Writers, Paths, Known
  <2>3. /\ ChunkIdx(x.id) = 1..SeedSize /\ Vec(x.id) = Batch(x.id, p, Seed, SeedSize)
        /\ Ent(x.id) = Vec(x.id)
      BY <1>6, <2>2 DEF Empty
  <2> QED BY <1>0, <2>2, <2>3 DEF Whole, Writers
<1>14. WholeOr /\ Chunkless
    BY <1>0, <1>7, <1>13 DEF WholeOr, Chunkless, Whole
<1>15. NoOrphanRows
  <2>1. ASSUME NEW x \in table \cup bm25 PROVE Known(x.doc)
    <3>1. x.doc \in DocIds /\ x \in table /\ bm25 = table
        BY <1>0, <2>1 DEF TypeOK, Row
    <3>2. Vec(x.doc) # {}
        BY <3>1 DEF Vec, RowsOf
    <3>3. ChunkIdx(x.doc) # {}
        BY <1>0, <1>6, <3>1, <3>2 DEF Empty
    <3> QED BY <1>10, <3>1, <3>3 DEF Listed
  <2> QED BY <2>1 DEF NoOrphanRows
<1>16. PathUnique
    BY <1>7 DEF PathUnique
<1> HIDE DEF Init
<1> QED BY <1>0, <1>4, <1>5, <1>8, <1>9, <1>10, <1>11, <1>12, <1>14, <1>15, <1>16 DEF DocInv

\* ... over a step of a request,
LEMMA StepInv ==
    ASSUME DocInv, TypeOK', NEW r \in Reqs, Step(r)
    PROVE  DocInv'
<1>1. Progress' /\ Listed'
    BY ProgressStep, ListedStep
<1> QED BY <1>1, KindsStep, ApartStep, ClaimsStep, FreshStep, OneVersionStep, ByWriterStep,
           GoneStep, WholeOrStep, ChunklessStep, SoleStep, NoOrphanStep, PathUniqueStep
        DEF DocInv

\* ... and over no change at all.
LEMMA StutterInv ==
    ASSUME DocInv, UNCHANGED vars
    PROVE  DocInv'
<1>1. /\ UNCHANGED <<table, bm25, docs, chunks, pc, job>>
      /\ UNCHANGED <<fileCount, chunkCount, lock, faults, crashes>>
    BY DEF vars
<1>2. TypeOK' /\ Kinds' /\ Apart' /\ Claims'
    BY <1>1 DEF DocInv, TypeOK, Kinds, Kind, Apart, Claims, Active
<1>3. /\ \A d : /\ Vec(d)' = Vec(d) /\ Ent(d)' = Ent(d)
                /\ ChunkIdx(d)' = ChunkIdx(d) /\ Known(d)' = Known(d)
      /\ \A p : OnlyIngested(p)' = OnlyIngested(p)
      /\ \A q \in Reqs : /\ Damaged(q)' = Damaged(q) /\ Touch(q)' = Touch(q) /\ NewRows(q)' = NewRows(q)
                         /\ Active(q)' = Active(q)
    BY <1>1 DEF Vec, Ent, ChunkIdx, Known, OnlyIngested, Damaged, Reported, Touch, NewRows, Active
<1>4. Fresh' /\ OneVersion' /\ Listed'
    BY <1>1, <1>3 DEF DocInv, Fresh, Unmade, Empty, OneVersion, Stored, Listed
<1>5. Progress'
  <2>1. ASSUME NEW q \in Reqs, NEW d \in DocIds, job[q].doc = d PROVE At(q, d)'
    <3>1. At(q, d)
        BY <2>1 DEF DocInv, Progress
    <3>2. Touched(job[q].path) => Touched(job[q].path)'
      <4>1. PICK p : p = job[q].path
          OBVIOUS
      <4>2. Touched(p) => Touched(p)'
          BY <1>3 DEF Touched
      <4> QED BY <1>1, <4>1, <4>2
    <3>3. AtOld(q, d)' /\ AtCut(q, d)' /\ AtBack(q, d)'
        BY <1>1, <1>3, <3>1 DEF At, AtOld, AtCut, AtBack, Empty
    <3>4. AtNew(q, d)'
        BY <1>1, <1>3, <3>1, <3>2 DEF At, AtNew, Stored
    <3> QED BY <3>3, <3>4 DEF At
  <2> QED BY <1>1, <2>1 DEF Progress
<1>6. ByWriter' /\ Gone' /\ WholeOr' /\ Chunkless'
  <2>1. ASSUME NEW x \in docs
        PROVE  /\ Whole(x)' = Whole(x) /\ Busy(x)' = Busy(x) /\ Cut(x)' = Cut(x)
               /\ \A q \in Reqs : Blames(q, x)' = Blames(q, x)
               /\ Touched(x.path)' = Touched(x.path)
    <3>1. Whole(x)' = Whole(x)
        BY <1>3 DEF Whole
    <3>2. Busy(x)' = Busy(x) /\ Cut(x)' = Cut(x)
        BY <1>1 DEF Busy, Cut
    <3>3. \A q \in Reqs : Blames(q, x)' = Blames(q, x)
        BY <1>1, <1>3 DEF Blames
    <3>4. Touched(x.path)' = Touched(x.path)
        BY <1>3 DEF Touched
    <3> QED BY <3>1, <3>2, <3>3, <3>4
  <2>2. ByWriter' /\ Gone'
      BY <1>1, <1>3 DEF DocInv, ByWriter, Gone
  <2>3. ASSUME NEW x \in docs PROVE Whole(x)' \/ Busy(x)' \/ Touched(x.path)'
      BY <2>1 DEF DocInv, WholeOr
  <2>4. ASSUME NEW x \in docs, ChunkIdx(x.id) = {} PROVE Cut(x)' \/ \E q \in Reqs : Blames(q, x)'
      BY <2>1, <2>4 DEF DocInv, Chunkless
  <2>5. WholeOr'
      BY <1>1, <2>3 DEF WholeOr
  <2>6. Chunkless'
    <3> SUFFICES ASSUME NEW x \in docs', ChunkIdx(x.id)' = {} PROVE Cut(x)' \/ \E q \in Reqs : Blames(q, x)'
        BY DEF Chunkless
    <3> QED BY <1>1, <1>3, <2>4
  <2> QED BY <2>2, <2>5, <2>6
<1>7. Sole' /\ NoOrphanRows' /\ PathUnique'
    BY <1>1, <1>3 DEF DocInv, Sole, NoOrphanRows, Reported, Writing, PathUnique
<1> QED BY <1>2, <1>4, <1>5, <1>6, <1>7 DEF DocInv

\* The documents, their rows and the requests at work on them agree, always.
THEOREM DocInvariant ==
    ASSUME Exclusive
    PROVE  Spec => []DocInv
<1>1. Init => DocInv
    BY InitInv
<1>2. DocInv /\ TypeOK' /\ [Next]_vars => DocInv'
  <2> SUFFICES ASSUME DocInv, TypeOK', [Next]_vars PROVE DocInv'
      OBVIOUS
  <2>1. CASE Crash
      BY <2>1, CrashInv
  <2>2. CASE Waiting \/ UNCHANGED vars
      BY <2>2, StutterInv DEF Waiting
  <2>3. ASSUME NEW r \in Reqs, Submit(r) PROVE DocInv'
      BY <2>3, SubmitInv
  <2>4. ASSUME NEW r \in Reqs, Step(r) PROVE DocInv'
      BY <2>4, StepInv
  <2> QED BY <2>1, <2>2, <2>3, <2>4 DEF Next
<1> QED BY <1>1, <1>2, TypeCorrect, PTL DEF Spec

-----------------------------------------------------------------------------
(* What follows from it.                                                   *)

\* No row of either index outlives its document unnoticed.
THEOREM NoOrphanRowsCorrect ==
    ASSUME Exclusive
    PROVE  Spec => []NoOrphanRows
<1>1. DocInv => NoOrphanRows
    BY DEF DocInv
<1> QED BY <1>1, DocInvariant, PTL

\* Indexing and removing a file keeps one document per file.
THEOREM PathUniqueCorrect ==
    ASSUME Exclusive
    PROVE  Spec => []PathUnique
<1>1. DocInv => PathUnique
    BY DEF DocInv
<1> QED BY <1>1, DocInvariant, PTL

\* A write answered 500 has left nothing of what it wrote.
THEOREM CleanFailureCorrect ==
    ASSUME Exclusive
    PROVE  Spec => []CleanFailure
<1>1. DocInv => CleanFailure
  <2> SUFFICES ASSUME DocInv, NEW r \in Reqs, pc[r] = "failed", job[r].op # "scan"
               PROVE  /\ \A x \in table \cup bm25 : x.by # r
                      /\ job[r].op \in {"ingest", "inline"} /\ ~job[r].exists =>
                            ~Known(job[r].doc) /\ ChunkIdx(job[r].doc) = {}
      BY DEF CleanFailure
  <2>1. \A x \in table \cup bm25 : x.by # r
      BY DEF DocInv, ByWriter, Wrote, Adding, Rolling
  <2> QED BY <2>1 DEF DocInv, Gone
<1> QED BY <1>1, DocInvariant, PTL

\* A listed document nobody works on or left half done is one whole version.
THEOREM DocWholeCorrect ==
    ASSUME Exclusive
    PROVE  Spec => []DocWhole
<1>1. DocInv => DocWhole
  <2> SUFFICES ASSUME DocInv, NEW x \in docs, Settled(x) PROVE Whole(x)
      BY DEF DocWhole, Whole, Vec, Ent, RowsOf
  <2>1. ~Busy(x)
      BY DEF Busy, Changing, Rolling, Settled, Active, Working
  <2>2. ~Touched(x.path)
      BY DEF Touched, Touch, Settled
  <2> QED BY <2>1, <2>2 DEF DocInv, WholeOr
<1> QED BY <1>1, DocInvariant, PTL

\* The vectors that go when an old version goes are its own, unless a failure
\* had left its document without chunk rows.
THEOREM BystanderCorrect ==
    ASSUME Exclusive
    PROVE  Spec => BystanderKept
<1> DEFINE Own(r) ==
      pc[r] = "delVec" /\ pc'[r] # "delVec" =>
          \A x \in table \ table' :
             \/ x.doc = job[r].doc
             \/ \E q \in Reqs \ {r} :
                  Damaged(q) /\ (job[q].doc = job[r].doc \/ job[r].doc[1] = q)
<1>1. ASSUME DocInv, [Next]_vars, NEW r \in Reqs, pc[r] = "delVec", pc'[r] # "delVec",
             NEW x \in table \ table', x.doc # job[r].doc
      PROVE  \E q \in Reqs \ {r} :
                  Damaged(q) /\ (job[q].doc = job[r].doc \/ job[r].doc[1] = q)
  <2>1. ~Crash /\ ~Waiting /\ ~UNCHANGED vars /\ \A q \in Reqs : ~Submit(q)
      BY <1>1 DEF Crash, Waiting, vars, stores, Submit, SubmitIngest, SubmitInline, SubmitScan,
                  SubmitDelete, SubmitReplace, Start
  <2>2. Step(r)
    <3>1. PICK q \in Reqs : Step(q)
        BY <1>1, <2>1 DEF Next
    <3>2. q = r
        BY <1>1, <3>1, StepFrame DEF DocInv
    <3> QED BY <3>1, <3>2
  <2>3. DelVec(r) \/ TeardownFails(r)
      BY <1>1, <2>2 DEF Step, LookupPath, LookupId, ScanNext, Prepare, PrepareFails, ReadOld,
         AcquireLock, DelBm25, DelChunks, DelDoc, AddVec, AddBm25, AddDoc, AddChunks,
         SetSize, WriteFails, RbVec, RbBm25, RbChunks, RbDoc, RollbackFails, Count
  <2>4. x \notin WithoutOld(table, r)
      BY <1>1, <2>3 DEF DelVec, TeardownFails, MayTake
  <2>5. job[r].old = {}
      BY <1>1, <2>4 DEF WithoutOld, WithoutIds
  <2>6. PICK y \in docs, q \in Reqs \ {r} : y.id = job[r].doc /\ Blames(q, y)
      BY <1>1, <2>5, ByPathBlamed
  <2> QED BY <2>6 DEF Blames
<1>2. DocInv /\ [Next]_vars => [\A r \in Reqs : Own(r)]_vars
    BY <1>1
<1> QED BY <1>2, DocInvariant, PTL DEF Spec, BystanderKept

-----------------------------------------------------------------------------
(* Searches see whole versions.                                            *)

\* A step withdraws whole versions, or publishes one where nothing was shown.
LEMMA StepShows ==
    ASSUME DocInv, NEW r \in Reqs, Step(r), NEW d \in DocIds, job[r].doc = d
    PROVE  /\ \A e \in DocIds : e # d => Vec(e)' \in {Vec(e), {}}
           /\ \/ Vec(d)' \in {Vec(d), {}}
              \/ /\ Vec(d) = {} /\ job[r].n \in ChunkCounts
                 /\ \A e \in DocIds : e # d => Vec(e)' = Vec(e)
                 /\ Vec(d)' = Batch(d, job[r].path, r, job[r].n)
<1>1. ASSUME NEW e \in DocIds, e # d PROVE Vec(e)' \in {Vec(e), {}}
    BY <1>1, Elsewhere DEF Spared, Vec
<1>2. CASE table' = table
    BY <1>1, <1>2 DEF Vec
<1>3. CASE DelVec(r) \/ TeardownFails(r)
  <2>1. pc'[r] \notin Adding \cup Rolling
      BY <1>3 DEF DelVec, TeardownFails, Goto, DocInv, TypeOK, Adding, Rolling
  <2> QED BY <1>1, <2>1, Takes
<1>4. CASE RbVec(r) \/ RollbackFails(r)
  <2>1. pc[r] \in Rolling /\ table' \in {table, WithoutNew(table, r)}
      BY <1>4 DEF RbVec, RollbackFails, MayTake, Rolling
  <2>2. RowsOf(WithoutNew(table, r), d) = {}
      BY <2>1, NewGone
  <2> QED BY <1>1, <2>1, <2>2 DEF Vec
<1>5. CASE (AddVec(r) \/ WriteFails(r)) /\ table' # table
  <2>1. pc[r] = "addVec" /\ table' = table \cup NewRows(r)
      BY <1>5 DEF AddVec, WriteFails, MayTake, WithNewVectors
  <2>2. Vec(d) = {} /\ job[r].n \in ChunkCounts
      BY <2>1, AtHere DEF AtCut, AtNew, Adding
  <2>3. Vec(d)' = NewRows(r)
      BY <2>1, <2>2, NewAdded DEF Vec
  <2>4. ASSUME NEW e \in DocIds, e # d PROVE Vec(e)' = Vec(e)
    <3>1. \A y \in NewRows(r) : y.doc = d
        BY BatchRows DEF NewRows
    <3> QED BY <2>1, <2>4, <3>1 DEF Vec, RowsOf
  <2> QED BY <1>1, <2>2, <2>3, <2>4 DEF NewRows
<1> QED BY <1>2, <1>3, <1>4, <1>5
        DEF Step, LookupPath, LookupId, ScanNext, Prepare, PrepareFails, ReadOld,
            AcquireLock, DelBm25, DelChunks, DelDoc, AddVec, AddBm25, AddDoc, AddChunks,
            SetSize, WriteFails, RbBm25, RbChunks, RbDoc, Count, stores

\* The write path keeps the promise of the catalog.
THEOREM RefinesCatalog ==
    ASSUME Exclusive
    PROVE  Spec => ShowsWholeVersions
<1> DEFINE S == [d \in DocIds |-> {x \in table : x.doc = d}]
<1>0. /\ DOMAIN S = DocIds /\ DOMAIN S' = DocIds
      /\ \A d \in DocIds : S[d] = Vec(d) /\ S'[d] = Vec(d)'
    BY DEF Vec, RowsOf
<1>1. Init => Catalog!Init
  <2> SUFFICES ASSUME Init PROVE Catalog!Init
      OBVIOUS
  <2>1. SeedSize \in ChunkCounts
      BY CountsAssumption DEF SeedSize
  <2>2. ASSUME NEW d \in DocIds PROVE S[d] = {} \/ Catalog!Whole(d, S[d])
    <3>1. CASE Vec(d) = {}
        BY <1>0, <3>1
    <3>2. CASE \E p \in SeedPaths : Vec(d) = Batch(d, p, Seed, SeedSize)
        BY <1>0, <2>1, <3>2, PathsAssumption DEF Batch, Catalog!Whole, Catalog!Version, Writers, Paths
    <3> QED BY <3>1, <3>2, SeedStored DEF Empty
  <2> QED BY <1>0, <2>2 DEF Catalog!Init
<1>2. DocInv /\ [Next]_vars => [Catalog!Next]_S
  <2> SUFFICES ASSUME DocInv, [Next]_vars, S' # S PROVE Catalog!Next
      OBVIOUS
  <2>1. table' # table
      BY DEF S
  <2>2. PICK r \in Reqs : Step(r)
      BY <2>1 DEF Next, Crash, Waiting, vars, stores, Submit, SubmitIngest, SubmitInline, SubmitScan,
                  SubmitDelete, SubmitReplace, Start
  <2>3. PICK d \in DocIds : d = job[r].doc
      BY JobFields DEF DocInv
  <2>4. CASE \A e \in DocIds : Vec(e)' \in {Vec(e), {}}
    <3>1. Catalog!Withdraw
        BY <1>0, <2>4 DEF Catalog!Withdraw
    <3> QED BY <3>1 DEF Catalog!Next
  <2>5. CASE /\ Vec(d) = {} /\ job[r].n \in ChunkCounts
             /\ \A e \in DocIds : e # d => Vec(e)' = Vec(e)
             /\ Vec(d)' = Batch(d, job[r].path, r, job[r].n)
    <3>1. job[r].path \in Paths /\ r \in Writers
        BY JobFields DEF DocInv, Writers
    <3>2. Vec(d)' = Catalog!Version(d, r, job[r].path, job[r].n)
        BY <2>5 DEF Batch, Catalog!Version
    <3>3. S' = [S EXCEPT ![d] = Catalog!Version(d, r, job[r].path, job[r].n)]
        BY <1>0, <2>5, <3>2
    <3>4. Catalog!Publish(d)
        BY <1>0, <2>5, <3>1, <3>3 DEF Catalog!Publish
    <3> QED BY <3>4 DEF Catalog!Next
  <2> QED BY <2>2, <2>3, <2>4, <2>5, StepShows
<1> QED BY <1>1, <1>2, DocInvariant, PTL DEF Spec, ShowsWholeVersions, Catalog!Spec

-----------------------------------------------------------------------------
(* The counters.  A request counts once, at its end.  Until then they have *)
(* the old version of the documents it deals with, and of all others what  *)
(* is stored (Books).  A scan carries what it has finished in its own      *)
(* tally (Tally), and what a request subtracts or adds at its end is what  *)
(* it found and what is stored then (Found, AtCount).                      *)

\* A request that knows its document deals with it until its answer, and a scan
\* with all that it makes.
Deals(r, d) == /\ Active(r) /\ pc[r] # "lookup"
               /\ IF job[r].op = "scan" THEN d[1] = r ELSE job[r].doc = d
Dealt(d)    == \E r \in Reqs : Deals(r, d)

\* The chunk rows of the old version, read or to be read.
OldRows(r) == IF pc[r] \in {"prepare", "readOld"} THEN ChunkIdx(job[r].doc) ELSE job[r].old

\* What the counters have of a document: the old version as long as a request
\* deals with it, else what is stored.
DocBooked(d) == IF Dealt(d) THEN \E r \in Reqs : Deals(r, d) /\ job[r].exists ELSE Known(d)
IdxBooked(d) == IF Dealt(d)
                THEN {i \in Nat : \E r \in Reqs : Deals(r, d) /\ job[r].exists /\ i \in OldRows(r)}
                ELSE ChunkIdx(d)
BookedDocs == {d \in DocIds : DocBooked(d)}
BookedRows == {c \in ChunkRow : c[2] \in IdxBooked(c[1])}

\* What a scan has finished.
Finished(r, d) == d[1] = r /\ (d = job[r].doc => pc[r] \in {"scan", "count"})
ScanDocs(r) == {d \in DocIds : Known(d) /\ Finished(r, d)}
ScanRows(r) == {c \in ChunkRow : c[2] \in ChunkIdx(c[1]) /\ Finished(r, c[1])}
Tally(r) == /\ IsFiniteSet(ScanDocs(r)) /\ job[r].files = Cardinality(ScanDocs(r))
            /\ IsFiniteSet(ScanRows(r)) /\ job[r].total = Cardinality(ScanRows(r))

\* The documents of a scan at work are its own, under the paths it is about.
ScanOwns == \A r \in Reqs : Active(r) /\ job[r].op = "scan" =>
    /\ \A q \in Reqs \ {r} : Active(q) => job[q].doc[1] # r
    /\ \A x \in docs : x.id[1] = r => x.path \in job[r].claim

\* What is stored when a request comes to count.
AtCount == \A r \in Reqs : pc[r] = "count" =>
    /\ job[r].op = "delete" => ~Known(job[r].doc) /\ ChunkIdx(job[r].doc) = {}
    /\ job[r].op \notin {"delete", "scan"} =>
         Known(job[r].doc) /\ ChunkIdx(job[r].doc) = 1..job[r].n

\* What is deleted or replaced was found.
Found == \A r \in Reqs : Active(r) /\ pc[r] # "lookup" /\ job[r].op \in {"delete", "replace"}
                            => job[r].exists

Unharmed == \A r \in Reqs : /\ ~Reported(r)
                            /\ pc[r] = "failed" => job[r].op # "scan" /\ ~job[r].exists
Books == Unharmed =>
    /\ IsFiniteSet(BookedDocs) /\ fileCount = Cardinality(BookedDocs)
    /\ IsFiniteSet(BookedRows) /\ chunkCount = Cardinality(BookedRows)
    /\ \A r \in Reqs : Active(r) /\ job[r].op = "scan" => Tally(r)
CountInv == ScanOwns /\ AtCount /\ Found /\ Books

-----------------------------------------------------------------------------
(* What a step leaves of the documents that a request does not deal with.  *)

\* The fields of the other requests, and what they deal with.
LEMMA OthersDeal ==
    ASSUME TypeOK, NEW r \in Reqs, Step(r), NEW q \in Reqs \ {r}
    PROVE  /\ pc'[q] = pc[q] /\ job'[q] = job[q] /\ Active(q)' = Active(q)
           /\ \A d : Deals(q, d)' = Deals(q, d)
<1>1. pc'[q] = pc[q] /\ job'[q] = job[q]
    BY StepFrame
<1> QED BY <1>1 DEF Active, Deals

\* No two requests deal with one document.
LEMMA OneDealer ==
    ASSUME DocInv, ScanOwns, NEW r \in Reqs, NEW d, Deals(r, d), NEW q \in Reqs \ {r}
    PROVE  ~Deals(q, d)
<1>1. CASE job[r].op = "scan"
    BY <1>1 DEF Deals, ScanOwns
<1>2. CASE job[q].op = "scan"
    BY <1>2 DEF Deals, ScanOwns
<1>3. CASE job[r].op # "scan" /\ job[q].op # "scan"
    BY <1>3 DEF Deals, DocInv, Apart
<1> QED BY <1>1, <1>2, <1>3

\* A request that is at work past its look-up deals with its document.
LEMMA DealsWithDoc ==
    ASSUME DocInv, NEW r \in Reqs, Active(r), pc[r] # "lookup"
    PROVE  Deals(r, job[r].doc)
<1>1. job[r].op = "scan" => job[r].doc[1] = r
    BY DEF DocInv, Kinds, Kind
<1> QED BY <1>1 DEF Deals

\* Looking up changes no store.
LEMMA LookupReads ==
    ASSUME NEW r \in Reqs, Step(r), pc[r] \in {"lookup", "prepare", "readOld", "scan", "count"}
    PROVE  docs' = docs /\ chunks' = chunks
BY DEF Step, stores, LookupPath, LookupId, Prepare, PrepareFails, ReadOld, AcquireLock,
   DelVec, DelBm25, DelChunks, DelDoc, TeardownFails, AddVec, AddBm25, AddDoc, AddChunks,
   SetSize, WriteFails, RbVec, RbBm25, RbChunks, RbDoc, RollbackFails, ScanNext, Count

\* A document that the request does not deal with stays as it is.
LEMMA LeftAlone ==
    ASSUME DocInv, NEW r \in Reqs, Step(r), NEW d \in DocIds, ~Deals(r, d) \/ d # job[r].doc
    PROVE  Known(d)' = Known(d) /\ ChunkIdx(d)' = ChunkIdx(d)
<1>1. CASE d # job[r].doc
    BY <1>1, Elsewhere DEF Known
<1>2. CASE d = job[r].doc /\ ~Deals(r, d)
  <2>1. pc[r] = "lookup"
      BY <1>2, DealsWithDoc, StepPlace DEF DocInv
  <2> QED BY <2>1, LookupReads DEF Known, ChunkIdx
<1> QED BY <1>1, <1>2

\* What the counters have of a document, given the one request that deals with it.
LEMMA BookedBy ==
    ASSUME NEW r \in Reqs, NEW d, Deals(r, d), \A q \in Reqs \ {r} : ~Deals(q, d)
    PROVE  /\ DocBooked(d) <=> job[r].exists
           /\ job[r].exists => IdxBooked(d) = {i \in Nat : i \in OldRows(r)}
           /\ ~job[r].exists => IdxBooked(d) = {}
BY DEF DocBooked, IdxBooked, Dealt

\* Of a document that no request deals with, they have what is stored.
LEMMA BookedIdle ==
    ASSUME NEW d, \A q \in Reqs : ~Deals(q, d)
    PROVE  (DocBooked(d) <=> Known(d)) /\ IdxBooked(d) = ChunkIdx(d)
BY DEF DocBooked, IdxBooked, Dealt

\* No step leads back to the preparation or to the reading of the old version.
LEMMA StepBack ==
    ASSUME DocInv, NEW r \in Reqs, Step(r), pc[r] \notin {"lookup", "scan", "prepare"}
    PROVE  pc'[r] \notin {"prepare", "readOld"}
<1> USE DEF DocInv, TypeOK, Goto
<1>1. CASE ReadOld(r) \/ AcquireLock(r) \/ Count(r) \/ LookupPath(r) \/ LookupId(r)
           \/ Prepare(r) \/ PrepareFails(r) \/ ScanNext(r)
    BY <1>1 DEF ReadOld, AcquireLock, Count, LookupPath, LookupId, Prepare, PrepareFails, ScanNext
<1>2. CASE DelVec(r) \/ DelBm25(r) \/ DelChunks(r) \/ DelDoc(r) \/ TeardownFails(r)
    BY <1>2 DEF DelVec, DelBm25, DelChunks, DelDoc, TeardownFails
<1>3. CASE AddVec(r) \/ AddBm25(r) \/ AddDoc(r) \/ AddChunks(r) \/ SetSize(r) \/ WriteFails(r)
    BY <1>3 DEF AddVec, AddBm25, AddDoc, AddChunks, SetSize, WriteFails
<1>4. CASE RbVec(r) \/ RbBm25(r) \/ RbChunks(r) \/ RbDoc(r) \/ RollbackFails(r)
    BY <1>4 DEF RbVec, RbBm25, RbChunks, RbDoc, RollbackFails, Failure
<1> QED BY <1>1, <1>2, <1>3, <1>4 DEF Step

\* No step leads back to the look-up.
LEMMA StepNoLookup ==
    ASSUME DocInv, NEW r \in Reqs, Step(r)
    PROVE  pc'[r] # "lookup"
<1>1. pc[r] \in {"lookup", "scan"} => pc'[r] # "lookup"
    BY StepPlace DEF DocInv
<1>2. pc[r] \in {"prepare", "count"} => pc'[r] # "lookup"
    BY StepGoes DEF DocInv
<1>3. pc[r] \in Teardown \cup Adding \cup Rolling => pc'[r] # "lookup"
    BY StepGoes DEF DocInv, Teardown, Adding, Rolling
<1>4. Active(r)
    BY StepPlace DEF DocInv
<1> QED BY <1>1, <1>2, <1>3, <1>4 DEF Active, Working, Teardown, Adding, Rolling

-----------------------------------------------------------------------------
(* What the counters have changes when they are written, and only then.    *)

\* A document that the request deals with on neither side of the step.
LEMMA BookedElsewhere ==
    ASSUME DocInv, DocInv', ScanOwns, NEW r \in Reqs, Step(r), NEW d \in DocIds,
           ~Deals(r, d), ~Deals(r, d)'
    PROVE  (DocBooked(d)' <=> DocBooked(d)) /\ IdxBooked(d)' = IdxBooked(d)
<1>1. Known(d)' = Known(d) /\ ChunkIdx(d)' = ChunkIdx(d)
    BY LeftAlone
<1>2. \A q \in Reqs : Deals(q, d)' <=> Deals(q, d)
    BY OthersDeal DEF DocInv
<1>3. Dealt(d)' = Dealt(d)
    BY <1>2 DEF Dealt
<1>4. \A q \in Reqs : Deals(q, d) => job'[q].exists = job[q].exists
    BY OthersDeal DEF DocInv
<1>5. ASSUME NEW q \in Reqs, Deals(q, d), job[q].exists
      PROVE  OldRows(q)' = OldRows(q)
  <2>1. q # r /\ pc'[q] = pc[q] /\ job'[q] = job[q]
      BY <1>5, OthersDeal DEF DocInv
  <2>2. job[q].doc = d
      BY <1>5 DEF Deals, DocInv, Kinds, Kind
  <2>3. ChunkIdx(job[q].doc)' = ChunkIdx(job[q].doc)
      BY <1>1, <2>1, <2>2 DEF ChunkIdx
  <2> QED BY <2>1, <2>3 DEF OldRows
<1>6. (DocBooked(d)' <=> DocBooked(d))
    BY <1>1, <1>2, <1>3, <1>4 DEF DocBooked
<1>7. \A i \in Nat : (\E q \in Reqs : Deals(q, d)' /\ job'[q].exists /\ i \in OldRows(q)')
                     <=> (\E q \in Reqs : Deals(q, d) /\ job[q].exists /\ i \in OldRows(q))
    BY <1>2, <1>4, <1>5
<1>8. IdxBooked(d)' = IdxBooked(d)
    BY <1>1, <1>3, <1>7 DEF IdxBooked
<1> QED BY <1>6, <1>8

\* One that it deals with before and after.
LEMMA BookedHeld ==
    ASSUME DocInv, DocInv', ScanOwns, NEW r \in Reqs, Step(r), NEW d \in DocIds,
           Deals(r, d), Deals(r, d)'
    PROVE  (DocBooked(d)' <=> DocBooked(d)) /\ IdxBooked(d)' = IdxBooked(d)
<1>1. \A q \in Reqs \ {r} : ~Deals(q, d) /\ ~Deals(q, d)'
    BY OneDealer, OthersDeal DEF DocInv
<1>2. pc[r] # "lookup" /\ job'[r].exists = job[r].exists
  <2>1. pc[r] # "lookup"
      BY DEF Deals
  <2>2. pc[r] = "scan" => job'[r].exists = job[r].exists
      BY StepJob DEF DocInv
  <2>3. pc[r] \notin {"lookup", "scan"} => job'[r].exists = job[r].exists
      BY StepJob DEF DocInv
  <2> QED BY <2>1, <2>2, <2>3
<1>3. ASSUME job[r].exists PROVE OldRows(r)' = OldRows(r)
  <2>1. job[r].op # "scan" /\ pc[r] # "scan"
      BY <1>3 DEF DocInv, Kinds, Kind
  <2>2. job'[r].doc = job[r].doc
      BY <1>2, <2>1, StepJob DEF DocInv
  <2>3. CASE pc[r] = "prepare"
    <3>1. pc'[r] = "readOld"
        BY <1>3, <2>1, <2>3, StepGoes DEF DocInv, Deals, Active, Working
    <3>2. ChunkIdx(job[r].doc)' = ChunkIdx(job[r].doc)
        BY <2>2, <2>3, LookupReads DEF ChunkIdx
    <3> QED BY <2>3, <3>1, <3>2 DEF OldRows
  <2>4. CASE pc[r] = "readOld"
    <3>1. ReadOld(r) \/ TeardownFails(r)
        BY <2>4 DEF Step, LookupPath, LookupId, Prepare, PrepareFails, AcquireLock,
           DelVec, DelBm25, DelChunks, DelDoc, AddVec, AddBm25, AddDoc, AddChunks,
           SetSize, WriteFails, RbVec, RbBm25, RbChunks, RbDoc, RollbackFails, ScanNext, Count
    <3>2. ~TeardownFails(r)
        BY DEF TeardownFails, Deals, Active, Working, Goto, DocInv, TypeOK
    <3>3. job'[r].old = ChunkIdx(job[r].doc) /\ pc'[r] \in {"waitLock", "delVec"}
        BY <3>1, <3>2 DEF ReadOld, Goto, DocInv, TypeOK, Job
    <3> QED BY <2>4, <3>3 DEF OldRows
  <2>5. CASE pc[r] \notin {"prepare", "readOld"}
    <3>1. job'[r].old = job[r].old
        BY <1>2, <2>1, <2>5, StepJob DEF DocInv
    <3>2. pc'[r] \notin {"prepare", "readOld"}
        BY <1>2, <2>1, <2>5, StepBack
    <3> QED BY <2>5, <3>1, <3>2 DEF OldRows
  <2> QED BY <2>3, <2>4, <2>5
<1>4. (DocBooked(d) <=> job[r].exists) /\ (job[r].exists => IdxBooked(d) = {i \in Nat : i \in OldRows(r)})
      /\ (~job[r].exists => IdxBooked(d) = {})
    BY <1>1, BookedBy
<1>5. (DocBooked(d)' <=> job'[r].exists)
      /\ (job'[r].exists => IdxBooked(d)' = {i \in Nat : i \in OldRows(r)'})
      /\ (~job'[r].exists => IdxBooked(d)' = {})
    BY <1>1 DEF DocBooked, IdxBooked, Dealt
<1> QED BY <1>2, <1>3, <1>4, <1>5

\* One that it has just found, or is about to make.
LEMMA BookedBegun ==
    ASSUME DocInv, DocInv', ScanOwns, ScanOwns', NEW r \in Reqs, Step(r), NEW d \in DocIds,
           ~Deals(r, d), Deals(r, d)'
    PROVE  (DocBooked(d)' <=> DocBooked(d)) /\ IdxBooked(d)' = IdxBooked(d)
<1>1. pc[r] = "lookup" /\ job'[r].op = job[r].op /\ job[r].op \in {"ingest", "delete", "replace"}
  <2>1. Active(r) /\ job'[r].op = job[r].op
      BY StepPlace, StepFrame DEF DocInv
  <2>2. CASE job[r].op = "scan"
      BY <2>1, <2>2 DEF Deals, DocInv, Kinds, Kind
  <2>3. CASE job[r].op # "scan" /\ pc[r] # "lookup"
    <3>1. pc[r] # "scan"
        BY <2>3 DEF DocInv, Kinds, Kind
    <3>2. job'[r].doc = job[r].doc
        BY <2>3, <3>1, StepJob DEF DocInv
    <3> QED BY <2>1, <2>3, <3>2 DEF Deals
  <2>4. pc[r] = "lookup" => job[r].op \in {"ingest", "delete", "replace"}
      BY DEF DocInv, Kinds, Kind
  <2> QED BY <2>1, <2>2, <2>3, <2>4
<1>2. job'[r].doc = d /\ pc'[r] \in {"prepare", "readOld"} /\ Active(r)'
    BY <1>1, StepPlace DEF Deals, DocInv, Active, Working
<1>3. \A q \in Reqs \ {r} : ~Deals(q, d)'
  <2>1. ASSUME NEW q \in Reqs \ {r}, Deals(q, d)' PROVE FALSE
    <3>1. CASE job'[q].op = "scan"
        BY <1>2, <2>1, <3>1 DEF Deals, ScanOwns
    <3>2. CASE job'[q].op # "scan"
        BY <1>2, <2>1, <3>2 DEF Deals, DocInv, Apart
    <3> QED BY <3>1, <3>2
  <2> QED BY <2>1
<1>4. \A q \in Reqs : ~Deals(q, d)
    BY <1>3, OthersDeal DEF DocInv
<1>5. Known(d)' = Known(d) /\ ChunkIdx(d)' = ChunkIdx(d)
    BY LeftAlone
<1>6. (DocBooked(d) <=> Known(d)) /\ IdxBooked(d) = ChunkIdx(d)
    BY <1>4, BookedIdle
<1>7. AtOld(r, d)'
    BY <1>2 DEF DocInv, Progress, At
<1>8. Kind(r)'
    BY DEF DocInv, Kinds
<1>9. CASE job'[r].exists
  <2>1. Known(d)'
    <3>1. pc'[r] \in Teardown \cup {"prepare"}
        BY <1>2 DEF Teardown
    <3> QED BY <1>7, <1>9, <3>1 DEF AtOld, Known
  <2>2. OldRows(r)' = ChunkIdx(d)' /\ ChunkIdx(d) \subseteq Nat
    <3>1. chunks \subseteq ChunkRow
        BY DEF DocInv, TypeOK
    <3> QED BY <1>2, <3>1 DEF OldRows, ChunkIdx, ChunkRow
  <2>3. DocBooked(d)' /\ IdxBooked(d)' = {i \in Nat : i \in OldRows(r)'}
      BY <1>3, <1>9 DEF DocBooked, IdxBooked, Dealt
  <2>4. IdxBooked(d)' = ChunkIdx(d)
      BY <1>5, <2>2, <2>3
  <2> QED BY <1>5, <1>6, <2>1, <2>3, <2>4
<1>10. CASE ~job'[r].exists
  <2>1. ~Known(d)' /\ ChunkIdx(d)' = {}
    <3>1. job'[r].op = "ingest" /\ pc'[r] = "prepare"
      <4>1. pc'[r] = "readOld" => job'[r].exists
          BY <1>8 DEF Kind, Teardown
      <4>2. pc'[r] = "prepare" => job'[r].op # "delete" /\ (job'[r].op = "replace" => job'[r].exists)
          BY <1>8 DEF Kind
      <4> QED BY <1>1, <1>2, <1>10, <4>1, <4>2
    <3> QED BY <1>7, <1>10, <3>1 DEF AtOld, Empty
  <2>2. ~DocBooked(d)' /\ IdxBooked(d)' = {}
      BY <1>3, <1>10 DEF DocBooked, IdxBooked, Dealt
  <2> QED BY <1>5, <1>6, <2>1, <2>2
<1> QED BY <1>9, <1>10

\* One that it is done with, without an answer that counts and without harm.
LEMMA BookedEnded ==
    ASSUME DocInv, DocInv', ScanOwns, Found, Unharmed', NEW r \in Reqs, Step(r), pc[r] # "count",
           NEW d \in DocIds, Deals(r, d), ~Deals(r, d)'
    PROVE  (DocBooked(d)' <=> DocBooked(d)) /\ IdxBooked(d)' = IdxBooked(d)
<1>1. /\ pc[r] # "lookup" /\ Active(r) /\ job'[r].op = job[r].op
      /\ pc[r] = "scan" => job[r].op = "scan"
    BY StepFrame DEF Deals, DocInv, Kinds, Kind
<1>2. ~Active(r)' /\ pc[r] # "scan"
  <2>1. pc'[r] # "lookup"
      BY <1>1, StepNoLookup
  <2>2. CASE job[r].op = "scan"
      BY <1>1, <2>1, <2>2, StepPlace DEF Deals, DocInv, Active, Working
  <2>3. CASE job[r].op # "scan"
    <3>1. job'[r].doc = job[r].doc
        BY <1>1, <2>3, StepJob DEF DocInv
    <3> QED BY <1>1, <2>1, <2>3, <3>1 DEF Deals
  <2> QED BY <2>2, <2>3
<1>3. /\ ~job'[r].orphan /\ pc'[r] # "lost"
      /\ pc'[r] = "failed" => job[r].op # "scan" /\ ~job'[r].exists
      /\ job'[r].exists = job[r].exists /\ job'[r].doc = job[r].doc
    BY <1>1, <1>2, StepJob DEF Unharmed, Reported, DocInv
<1>4. pc[r] \in {"prepare"} \cup Teardown \cup Adding \cup Rolling
    BY <1>1, <1>2 DEF Active, Working, Teardown, Adding, Rolling
<1>5. \/ pc[r] = "prepare" /\ pc'[r] \in {"rejected", "failed"}
      \/ pc[r] \in Teardown /\ pc'[r] = "failed"
      \/ pc[r] \in Rolling /\ pc'[r] = "failed"
  <2>1. pc'[r] \notin Working
      BY <1>2 DEF Active
  <2> QED BY <1>3, <1>4, <2>1, StepGoes DEF DocInv, Working, Teardown, Adding, Rolling
<1>6. pc[r] \notin Teardown
  <2>1. pc[r] \in Teardown => job[r].exists
      BY DEF DocInv, Kinds, Kind
  <2>2. pc[r] \in Teardown => pc'[r] = "failed"
      BY <1>5 DEF Teardown, Rolling
  <2> QED BY <1>3, <2>1, <2>2
<1>7. job[r].op # "scan"
  <2>1. CASE pc[r] = "prepare"
    <3>1. Prepare(r) \/ PrepareFails(r)
        BY <2>1 DEF Step, LookupPath, LookupId, ReadOld, AcquireLock, TeardownFails,
           DelVec, DelBm25, DelChunks, DelDoc, AddVec, AddBm25, AddDoc, AddChunks,
           SetSize, WriteFails, RbVec, RbBm25, RbChunks, RbDoc, RollbackFails, ScanNext, Count
    <3>2. PrepareFails(r)
        BY <1>5, <3>1, <2>1 DEF Prepare, AfterPrepare, Goto, DocInv, TypeOK, Teardown, Rolling
    <3>3. pc'[r] = "rejected" => job[r].op # "scan"
        BY <3>2 DEF PrepareFails, Goto, DocInv, TypeOK
    <3> QED BY <1>3, <1>5, <2>1, <3>3 DEF Teardown, Rolling
  <2>2. CASE pc[r] # "prepare"
      BY <1>3, <1>5, <1>6, <2>2
  <2> QED BY <2>1, <2>2
<1>8. job[r].doc = d
    BY <1>7 DEF Deals
<1>9. \A q \in Reqs \ {r} : ~Deals(q, d) /\ ~Deals(q, d)'
    BY OneDealer, OthersDeal DEF DocInv
<1>10. (DocBooked(d)' <=> Known(d)') /\ IdxBooked(d)' = ChunkIdx(d)'
  <2>1. ~Dealt(d)'
      BY <1>9 DEF Dealt
  <2> QED BY <2>1 DEF DocBooked, IdxBooked
<1>11. /\ DocBooked(d) <=> job[r].exists
       /\ job[r].exists => IdxBooked(d) = {i \in Nat : i \in OldRows(r)}
       /\ ~job[r].exists => IdxBooked(d) = {}
    BY <1>9, BookedBy
<1>12. CASE job[r].exists
  <2>1. pc[r] = "prepare"
      BY <1>3, <1>5, <1>6, <1>12
  <2>2. Known(d)' = Known(d) /\ ChunkIdx(d)' = ChunkIdx(d)
      BY <2>1, LookupReads DEF Known, ChunkIdx
  <2>3. Known(d)
      BY <1>8, <1>12, <2>1, AtHere DEF AtOld, Known
  <2>4. OldRows(r) = ChunkIdx(d) /\ ChunkIdx(d) \subseteq Nat
    <3>1. chunks \subseteq ChunkRow
        BY DEF DocInv, TypeOK
    <3> QED BY <1>8, <2>1, <3>1 DEF OldRows, ChunkIdx, ChunkRow
  <2>5. IdxBooked(d) = ChunkIdx(d)
      BY <1>11, <1>12, <2>4
  <2> QED BY <1>10, <1>11, <1>12, <2>2, <2>3, <2>5
<1>13. CASE ~job[r].exists
  <2>1. job[r].op \in {"ingest", "inline"}
    <3>1. job[r].op \in AllOps \cup {"none"} /\ job[r].op # "none"
        BY <1>1, JobFields DEF DocInv, Kinds, Kind, Active, Working
    <3>2. job[r].op \notin {"delete", "replace"}
        BY <1>1, <1>13 DEF Found
    <3> QED BY <1>7, <3>1, <3>2 DEF AllOps
  <2>2. ~Known(d)' /\ ChunkIdx(d)' = {}
    <3>1. CASE pc[r] = "prepare"
      <4>1. ~Known(d) /\ ChunkIdx(d) = {}
          BY <1>8, <1>13, <2>1, <3>1, AtHere DEF AtOld, Empty
      <4> QED BY <3>1, <4>1, LookupReads DEF Known, ChunkIdx
    <3>2. CASE pc[r] # "prepare"
      <4>1. pc'[r] = "failed"
          BY <1>5, <3>2
      <4>2. ~job'[r].exists /\ job'[r].doc = d
          BY <1>3, <1>8, <1>13
      <4> QED BY <1>1, <2>1, <4>1, <4>2 DEF DocInv, Gone
    <3> QED BY <3>1, <3>2
  <2> QED BY <1>10, <1>11, <1>13, <2>2
<1> QED BY <1>12, <1>13

\* Every step but that of counting leaves what the counters are to have.
LEMMA BookedSame ==
    ASSUME DocInv, DocInv', ScanOwns, ScanOwns', Found, Unharmed', NEW r \in Reqs, Step(r),
           pc[r] # "count"
    PROVE  BookedDocs' = BookedDocs /\ BookedRows' = BookedRows
<1>1. ASSUME NEW d \in DocIds
      PROVE  (DocBooked(d)' <=> DocBooked(d)) /\ IdxBooked(d)' = IdxBooked(d)
  <2>1. CASE ~Deals(r, d) /\ ~Deals(r, d)'
      BY <2>1, BookedElsewhere
  <2>2. CASE Deals(r, d) /\ Deals(r, d)'
      BY <2>2, BookedHeld
  <2>3. CASE ~Deals(r, d) /\ Deals(r, d)'
      BY <2>3, BookedBegun
  <2>4. CASE Deals(r, d) /\ ~Deals(r, d)'
      BY <2>4, BookedEnded
  <2> QED BY <2>1, <2>2, <2>3, <2>4
<1> QED BY <1>1 DEF BookedDocs, BookedRows, ChunkRow

-----------------------------------------------------------------------------
(* The documents of a scan, and what is stored when a request counts.      *)

\* A scan keeps its documents to itself.
LEMMA ScanOwnsStep ==
    ASSUME DocInv, ScanOwns, NEW r \in Reqs, Step(r)
    PROVE  ScanOwns'
<1> SUFFICES ASSUME NEW s \in Reqs, Active(s)', job'[s].op = "scan"
             PROVE  /\ \A q \in Reqs \ {s} : Active(q)' => job'[q].doc[1] # s
                    /\ \A x \in docs' : x.id[1] = s => x.path \in job'[s].claim
    BY DEF ScanOwns
<1>1. /\ Active(s) /\ job[s].op = "scan" /\ job'[s].claim = job[s].claim
      /\ \A q \in Reqs : Active(q)' => Active(q)
  <2>1. \A q \in Reqs \ {r} : Active(q)' = Active(q) /\ job'[q] = job[q]
      BY OthersDeal DEF DocInv
  <2>2. Active(r) /\ job'[r].op = job[r].op /\ job'[r].claim = job[r].claim
      BY StepPlace, StepJob DEF DocInv
  <2> QED BY <2>1, <2>2
<1>2. /\ \A q \in Reqs \ {s} : Active(q) => job[q].doc[1] # s
      /\ \A x \in docs : x.id[1] = s => x.path \in job[s].claim
    BY <1>1 DEF ScanOwns
<1>3. ASSUME NEW q \in Reqs \ {s}, Active(q)' PROVE job'[q].doc[1] # s
  <2>1. CASE q # r
      BY <1>1, <1>2, <1>3, <2>1, OthersDeal DEF DocInv
  <2>2. CASE q = r
    <3>1. CASE job'[r].doc = job[r].doc
        BY <1>1, <1>2, <1>3, <2>2, <3>1
    <3>2. CASE \E p \in job[r].todo : job'[r].doc = <<r, p>>
        BY <1>3, <2>2, <3>2
    <3>3. CASE job[r].op = "ingest" /\ \E x \in docs : x.path = job[r].path /\ job'[r].doc = x.id
      <4>1. PICK x \in docs : x.path = job[r].path /\ job'[r].doc = x.id
          BY <3>3
      <4>2. job[r].path \in job[r].claim /\ job[r].claim \cap job[s].claim = {}
          BY <1>1, <1>3, <2>2, <3>3 DEF DocInv, Kinds, Kind, Apart
      <4> QED BY <1>2, <2>2, <4>1, <4>2
    <3> QED BY <3>1, <3>2, <3>3, DocOf
  <2> QED BY <2>1, <2>2
<1>4. ASSUME NEW x \in docs', x.id[1] = s PROVE x.path \in job'[s].claim
  <2>1. CASE \E y \in docs : y.id = x.id /\ y.path = x.path
      BY <1>1, <1>2, <1>4, <2>1
  <2>2. CASE AddDoc(r) /\ x.id = job[r].doc /\ x.path = job[r].path
    <3>1. r = s /\ pc[r] = "addDoc"
        BY <1>1, <1>2, <1>4, <2>2, StepPlace DEF AddDoc, DocInv
    <3>2. job[r].path \in job[r].claim
        BY <1>1, <3>1 DEF DocInv, Kinds, Kind, Working
    <3> QED BY <1>1, <2>2, <3>1, <3>2
  <2> QED BY <2>1, <2>2, DocsFrom
<1> QED BY <1>3, <1>4

\* A delete or a replacement goes on only when its document was found.
LEMMA FoundStep ==
    ASSUME DocInv, Found, NEW r \in Reqs, Step(r)
    PROVE  Found'
<1> SUFFICES ASSUME NEW q \in Reqs, Active(q)', pc'[q] # "lookup", job'[q].op \in {"delete", "replace"}
             PROVE  job'[q].exists
    BY DEF Found
<1>1. CASE q # r
    BY <1>1, OthersDeal DEF Found, DocInv
<1>2. CASE q = r /\ pc[r] # "lookup"
  <2>1. Active(r) /\ job[r].op \in {"delete", "replace"} /\ pc[r] # "scan"
      BY <1>2, StepPlace, StepFrame DEF DocInv, Kinds, Kind
  <2> QED BY <1>2, <2>1, StepJob DEF Found, DocInv
<1>3. CASE q = r /\ pc[r] = "lookup"
  <2>1. LookupId(r)
    <3>1. job[r].op \in {"delete", "replace"}
        BY <1>3, StepFrame DEF DocInv
    <3> QED BY <1>3, <3>1 DEF Step, LookupPath, Prepare, PrepareFails, ReadOld, AcquireLock, TeardownFails,
           DelVec, DelBm25, DelChunks, DelDoc, AddVec, AddBm25, AddDoc, AddChunks,
           SetSize, WriteFails, RbVec, RbBm25, RbChunks, RbDoc, RollbackFails, ScanNext, Count
  <2>2. pc'[r] # "notFound"
      BY <1>3 DEF Active, Working
  <2>3. PICK x \in docs : job' = [job EXCEPT ![r].from = x.path, ![r].exists = TRUE]
      BY <2>1, <2>2 DEF LookupId, Goto, DocInv, TypeOK
  <2> QED BY <1>3, <2>3 DEF DocInv, TypeOK, Job
<1> QED BY <1>1, <1>2, <1>3

\* A request comes to count when its document is removed or complete.
LEMMA AtCountStep ==
    ASSUME DocInv, DocInv', AtCount, NEW r \in Reqs, Step(r)
    PROVE  AtCount'
<1> SUFFICES ASSUME NEW q \in Reqs, pc'[q] = "count", NEW d \in DocIds, job'[q].doc = d
             PROVE  /\ job'[q].op = "delete" => ~Known(d)' /\ ChunkIdx(d)' = {}
                    /\ job'[q].op \notin {"delete", "scan"} =>
                         Known(d)' /\ ChunkIdx(d)' = 1..job'[q].n
  <2>1. \A q \in Reqs : job'[q].doc \in DocIds
      BY DEF DocInv, TypeOK, Job
  <2> QED BY <2>1 DEF AtCount, Known, ChunkIdx
<1>1. CASE q # r
  <2>1. pc[q] = "count" /\ job'[q] = job[q] /\ d = job[q].doc
      BY <1>1, OthersDeal DEF DocInv
  <2>2. d \in DocIds /\ d # job[r].doc
    <3>1. Active(q) /\ Active(r)
        BY <2>1, StepPlace DEF Active, Working, DocInv
    <3> QED BY <1>1, <2>1, <3>1, JobFields DEF DocInv, Apart
  <2>3. Known(d)' = Known(d) /\ ChunkIdx(d)' = ChunkIdx(d)
      BY <2>2, LeftAlone
  <2>4. /\ job[q].op = "delete" => ~Known(d) /\ ChunkIdx(d) = {}
        /\ job[q].op \notin {"delete", "scan"} => Known(d) /\ ChunkIdx(d) = 1..job[q].n
      BY <2>1 DEF AtCount
  <2> QED BY <2>1, <2>3, <2>4
<1>2. CASE q = r
  <2>1. job'[r].op = job[r].op
      BY StepFrame DEF DocInv
  <2>2. CASE job[r].op = "scan"
      BY <1>2, <2>1, <2>2
  <2>3. CASE job[r].op # "scan"
    <3>1. DelDoc(r) \/ SetSize(r)
      <4>1. CASE \/ LookupPath(r) \/ LookupId(r) \/ Prepare(r) \/ PrepareFails(r) \/ ReadOld(r)
                 \/ AcquireLock(r) \/ ScanNext(r) \/ Count(r)
          BY <1>2, <2>3, <4>1 DEF LookupPath, LookupId, Prepare, PrepareFails, AfterPrepare,
             ReadOld, AcquireLock, ScanNext, Count, Goto, DocInv, TypeOK, Kinds, Kind
      <4>2. CASE DelVec(r) \/ DelBm25(r) \/ DelChunks(r) \/ TeardownFails(r)
          BY <1>2, <4>2 DEF DelVec, DelBm25, DelChunks, TeardownFails, Goto, DocInv, TypeOK
      <4>3. CASE AddVec(r) \/ AddBm25(r) \/ AddDoc(r) \/ AddChunks(r) \/ WriteFails(r)
          BY <1>2, <4>3 DEF AddVec, AddBm25, AddDoc, AddChunks, WriteFails, Goto, DocInv, TypeOK
      <4>4. CASE RbVec(r) \/ RbBm25(r) \/ RbChunks(r) \/ RbDoc(r) \/ RollbackFails(r)
          BY <1>2, <4>4 DEF RbVec, RbBm25, RbChunks, RbDoc, RollbackFails, Failure, Goto, DocInv, TypeOK
      <4> QED BY <4>1, <4>2, <4>3, <4>4 DEF Step
    <3>2. CASE DelDoc(r)
      <4>1. d = job[r].doc /\ job[r].op = "delete"
          BY <1>2, <3>2 DEF DelDoc, Goto, DocInv, TypeOK
      <4>2. ~Known(d)' /\ ChunkIdx(d)' = {}
          BY <3>2, <4>1, ChunksRemoved DEF DelDoc, WithoutDoc, Known
      <4> QED BY <1>2, <2>1, <4>1, <4>2
    <3>3. CASE SetSize(r)
      <4>1. /\ d = job[r].doc /\ job'[r].n = job[r].n /\ chunks' = chunks /\ pc[r] = "setSize"
            /\ docs' = {IF x.id = job[r].doc THEN [x EXCEPT !.size = job[r].n] ELSE x : x \in docs}
          BY <1>2, <2>3, <3>3 DEF SetSize
      <4>2. ChunkIdx(d) = 1..job[r].n /\ Known(d) /\ d \in DocIds
          BY <4>1, AtHere, JobFields DEF AtNew, DocInv
      <4>3. Known(d)'
        <5>1. \A x \in docs : [x EXCEPT !.size = job[r].n].id = x.id
            BY DEF DocInv, TypeOK, DocRow
        <5> QED BY <4>1, <4>2, <5>1 DEF Known
      <4>4. job[r].op # "delete"
          BY <4>1 DEF DocInv, Kinds, Kind, Adding
      <4> QED BY <1>2, <2>1, <4>1, <4>2, <4>3, <4>4 DEF ChunkIdx
    <3> QED BY <3>1, <3>2, <3>3
  <2> QED BY <2>2, <2>3
<1> QED BY <1>1, <1>2

\* A set of rows of one document has as many as there are indices.
LEMMA RowsOfOne ==
    ASSUME NEW d, NEW I, IsFiniteSet({d} \X I)
    PROVE  IsFiniteSet(I) /\ Cardinality({d} \X I) = Cardinality(I)
<1> DEFINE f == [c \in {d} \X I |-> c[2]]
<1>1. f \in Bijection({d} \X I, I)
  <2>1. f \in [{d} \X I -> I]
      OBVIOUS
  <2>2. \A a, b \in {d} \X I : f[a] = f[b] => a = b
      OBVIOUS
  <2>3. \A i \in I : f[<<d, i>>] = i
      OBVIOUS
  <2> QED BY <2>1, <2>2, <2>3 DEF Bijection, Injection, Surjection, IsInjective
<1> QED BY <1>1, FS_Bijection DEF ExistsBijection

\* The rows 1 to n of a document are added to others.
LEMMA RowsAdd ==
    ASSUME NEW S, IsFiniteSet(S), NEW d, NEW n \in Nat, S \cap ({d} \X (1..n)) = {}
    PROVE  /\ IsFiniteSet(S \cup ({d} \X (1..n)))
           /\ Cardinality(S \cup ({d} \X (1..n))) = Cardinality(S) + n
<1> DEFINE T == {d} \X (1..n)
<1>1. IsFiniteSet(T)
  <2>1. IsFiniteSet({d})
      BY FS_Singleton
  <2>2. IsFiniteSet(1..n)
      BY FS_Interval
  <2> QED BY <2>1, <2>2, FS_Product
<1>2. Cardinality({d} \X (1..n)) = n
  <2>1. Cardinality(1..n) = n
      BY FS_Interval
  <2> QED BY <1>1, <2>1, RowsOfOne
<1>3. Cardinality(S \cap T) = 0
    BY FS_EmptySet
<1>4. Cardinality(S) \in Nat
    BY FS_CardinalityType
<1> HIDE DEF T
<1>5. /\ IsFiniteSet(S \cup T)
      /\ Cardinality(S \cup T) = Cardinality(S) + Cardinality(T) - Cardinality(S \cap T)
    BY <1>1, FS_Union
<1>6. IsFiniteSet(S \cup T) /\ Cardinality(S \cup T) = Cardinality(S) + n
    BY <1>2, <1>3, <1>4, <1>5 DEF T
<1> QED BY <1>6 DEF T

\* Only the end of a file changes the tally.
LEMMA TallyFields ==
    ASSUME TypeOK, NEW r \in Reqs, Step(r), ~SetSize(r)
    PROVE  job'[r].files = job[r].files /\ job'[r].total = job[r].total
<1> USE DEF TypeOK, Goto
<1>0. job[r] \in Job
    OBVIOUS
<1>1. CASE LookupPath(r)
  <2>1. CASE \E x \in docs : job' = [job EXCEPT ![r].doc = x.id, ![r].exists = TRUE]
      BY <1>0, <2>1 DEF Job
  <2> QED BY <1>1, <2>1 DEF LookupPath
<1>2. CASE LookupId(r)
  <2>1. CASE \E x \in docs : job' = [job EXCEPT ![r].from = x.path, ![r].exists = TRUE]
      BY <1>0, <2>1 DEF Job
  <2> QED BY <1>2, <2>1 DEF LookupId
<1>3. CASE Prepare(r)
    BY <1>0, <1>3 DEF Prepare, Job
<1>5. CASE ReadOld(r)
    BY <1>0, <1>5 DEF ReadOld, Job
<1>6. CASE WriteFails(r)
    BY <1>0, <1>6 DEF WriteFails, Job
<1>7. CASE RollbackFails(r)
    BY <1>0, <1>7 DEF RollbackFails, Job
<1>4. CASE ScanNext(r)
  <2>1. CASE \E p \in job[r].todo :
               job' = [job EXCEPT ![r].todo = @ \ {p}, ![r].path = p, ![r].doc = <<r, p>>]
      BY <1>0, <2>1 DEF Job
  <2> QED BY <1>4, <2>1 DEF ScanNext
<1> QED BY <1>1, <1>2, <1>3, <1>4, <1>5, <1>6, <1>7 DEF Step, PrepareFails, AcquireLock, TeardownFails,
       DelVec, DelBm25, DelChunks, DelDoc, AddVec, AddBm25, AddDoc, AddChunks,
       RbVec, RbBm25, RbChunks, RbDoc, Count

\* A file that a scan gives up leaves no row, unless that is on record.
LEMMA ScanCleared ==
    ASSUME DocInv, Unharmed', NEW r \in Reqs, Step(r), ~SetSize(r), job[r].op = "scan",
           pc[r] \notin {"scan", "count"}, pc'[r] \in {"scan", "count"},
           NEW d \in DocIds, d = job[r].doc
    PROVE  ~Known(d)' /\ ChunkIdx(d)' = {}
<1> USE DEF DocInv, TypeOK, Goto
<1>1. ~job[r].exists /\ pc'[r] = "scan"
  <2>1. ~job[r].exists
      BY DEF Kinds, Kind
  <2>2. pc'[r] # "count"
    <3>1. Active(r) /\ pc[r] # "lookup"
        BY StepPlace DEF Kinds, Kind
    <3>2. pc[r] \notin Teardown
        BY <2>1 DEF Kinds, Kind
    <3> QED BY <3>1, <3>2, StepGoes DEF Active, Working, Teardown, Adding, Rolling
  <2> QED BY <2>1, <2>2
<1>2. CASE PrepareFails(r)
  <2>1. Empty(d)
      BY <1>1, <1>2, AtHere DEF PrepareFails, AtOld
  <2> QED BY <1>2, <2>1, LookupReads DEF PrepareFails, Empty, Known, ChunkIdx
<1>3. CASE RbBm25(r)
  <2>1. ~job[r].meta /\ pc[r] = "rbBm25" /\ UNCHANGED <<docs, chunks>>
      BY <1>1, <1>3 DEF RbBm25
  <2> QED BY <2>1, AtHere DEF AtBack, Known, ChunkIdx
<1>4. CASE RbDoc(r)
    BY <1>4, ChunksRemoved DEF RbDoc, WithoutDoc, Known
<1>5. CASE RollbackFails(r)
    BY <1>5 DEF RollbackFails, Job, Unharmed, Reported
<1>6. CASE \/ LookupPath(r) \/ LookupId(r) \/ Prepare(r) \/ ReadOld(r) \/ AcquireLock(r)
           \/ ScanNext(r) \/ Count(r)
    BY <1>1, <1>6 DEF LookupPath, LookupId, Prepare, AfterPrepare, ReadOld, AcquireLock, ScanNext, Count
<1>7. CASE DelVec(r) \/ DelBm25(r) \/ DelChunks(r) \/ DelDoc(r) \/ TeardownFails(r)
    BY <1>1, <1>7 DEF DelVec, DelBm25, DelChunks, DelDoc, TeardownFails
<1>8. CASE AddVec(r) \/ AddBm25(r) \/ AddDoc(r) \/ AddChunks(r) \/ WriteFails(r)
           \/ RbVec(r) \/ RbChunks(r)
    BY <1>1, <1>8 DEF AddVec, AddBm25, AddDoc, AddChunks, WriteFails, RbVec, RbChunks
<1> QED BY <1>2, <1>3, <1>4, <1>5, <1>6, <1>7, <1>8 DEF Step

-----------------------------------------------------------------------------
(* The tally of a scan.                                                    *)

\* Steps of another request leave it alone.
LEMMA TallySpared ==
    ASSUME DocInv, ScanOwns, NEW r \in Reqs, Step(r), NEW s \in Reqs \ {r},
           Active(s), job[s].op = "scan", Tally(s)
    PROVE  Tally(s)'
<1>1. pc'[s] = pc[s] /\ job'[s] = job[s]
    BY OthersDeal DEF DocInv
<1>2. \A d : Finished(s, d)' <=> Finished(s, d)
    BY <1>1 DEF Finished
<1>3. ASSUME NEW d \in DocIds, Finished(s, d)
      PROVE  Known(d)' = Known(d) /\ ChunkIdx(d)' = ChunkIdx(d)
  <2>1. Active(r)
      BY StepPlace DEF DocInv
  <2>2. d # job[r].doc
      BY <1>3, <2>1 DEF ScanOwns, Finished
  <2> QED BY <2>2, LeftAlone
<1>4. ScanDocs(s)' = ScanDocs(s)
    BY <1>2, <1>3 DEF ScanDocs
<1>5. ScanRows(s)' = ScanRows(s)
  <2>1. \A c \in ChunkRow : c[1] \in DocIds
      BY DEF ChunkRow
  <2> QED BY <1>2, <1>3, <2>1 DEF ScanRows
<1> QED BY <1>1, <1>4, <1>5 DEF Tally

\* A file that a scan has finished is one more document, and its chunks.
LEMMA TallyFile ==
    ASSUME DocInv, ScanOwns, NEW r \in Reqs, SetSize(r), job[r].op = "scan", Tally(r)
    PROVE  Tally(r)'
<1> USE DEF DocInv
<1>1. PICK d \in DocIds : d = job[r].doc
    BY JobFields
<1>2. PICK n \in Nat : n = job[r].n
    BY JobFields
<1>3. /\ pc[r] = "setSize" /\ pc'[r] = "scan" /\ chunks' = chunks
      /\ docs' = {IF x.id = d THEN [x EXCEPT !.size = n] ELSE x : x \in docs}
      /\ job'[r].doc = d /\ job'[r].files = job[r].files + 1 /\ job'[r].total = job[r].total + n
    BY <1>1, <1>2 DEF SetSize, Goto, TypeOK, Job
<1>4. job[r].files \in Nat /\ job[r].total \in Nat /\ d[1] = r
    BY <1>1 DEF TypeOK, Job, Kinds, Kind
<1>5. Known(d) /\ ChunkIdx(d) = 1..n
    BY <1>1, <1>2, <1>3, AtHere DEF AtNew
<1>6. \A e : Known(e)' <=> Known(e)
  <2>1. \A x \in docs : [x EXCEPT !.size = n].id = x.id
      BY DEF TypeOK, DocRow
  <2> QED BY <1>3, <2>1 DEF Known
<1>7. \A e : ChunkIdx(e)' = ChunkIdx(e)
    BY <1>3 DEF ChunkIdx
<1>8. \A e : /\ Finished(r, e)' <=> e[1] = r
             /\ Finished(r, e) <=> e[1] = r /\ e # d
    BY <1>1, <1>3 DEF Finished
<1>9. ScanDocs(r)' = ScanDocs(r) \cup {d} /\ d \notin ScanDocs(r)
    BY <1>4, <1>5, <1>6, <1>8 DEF ScanDocs
<1>10. ScanRows(r)' = ScanRows(r) \cup ({d} \X (1..n)) /\ ScanRows(r) \cap ({d} \X (1..n)) = {}
  <2>1. \A c : c \in ScanRows(r)' <=> c \in ChunkRow /\ c[2] \in ChunkIdx(c[1]) /\ c[1][1] = r
      BY <1>7, <1>8 DEF ScanRows
  <2>2. \A c : c \in ScanRows(r) <=> c \in ChunkRow /\ c[2] \in ChunkIdx(c[1]) /\ c[1][1] = r /\ c[1] # d
      BY <1>8 DEF ScanRows
  <2>3. {d} \X (1..n) \subseteq ChunkRow
      BY DEF ChunkRow
  <2>4. \A c \in ChunkRow : c \in {d} \X (1..n) <=> c[1] = d /\ c[2] \in 1..n
      BY DEF ChunkRow
  <2> QED BY <1>4, <1>5, <2>1, <2>2, <2>3, <2>4
<1>11. IsFiniteSet(ScanDocs(r)') /\ Cardinality(ScanDocs(r)') = Cardinality(ScanDocs(r)) + 1
    BY <1>9, FS_AddElement DEF Tally
<1>12. IsFiniteSet(ScanRows(r)') /\ Cardinality(ScanRows(r)') = Cardinality(ScanRows(r)) + n
  <2>1. IsFiniteSet(ScanRows(r))
      BY DEF Tally
  <2>2. /\ IsFiniteSet(ScanRows(r) \cup ({d} \X (1..n)))
        /\ Cardinality(ScanRows(r) \cup ({d} \X (1..n))) = Cardinality(ScanRows(r)) + n
      BY <1>10, <2>1, RowsAdd
  <2> QED BY <1>10, <2>2
<1> QED BY <1>3, <1>11, <1>12 DEF Tally

\* The steps of the scan itself, as long as nothing is left behind.
LEMMA TallyOwn ==
    ASSUME DocInv, ScanOwns, Unharmed', NEW r \in Reqs, Step(r),
           job[r].op = "scan", Active(r)', Tally(r)
    PROVE  Tally(r)'
<1> USE DEF DocInv
<1>1. CASE SetSize(r)
    BY <1>1, TallyFile
<1>2. CASE ~SetSize(r)
  <2>1. job'[r].files = job[r].files /\ job'[r].total = job[r].total
      BY <1>2, TallyFields
  <2>2. ASSUME NEW d \in DocIds
        PROVE  /\ Known(d)' /\ Finished(r, d)' <=> Known(d) /\ Finished(r, d)
               /\ \A i : i \in ChunkIdx(d)' /\ Finished(r, d)' <=> i \in ChunkIdx(d) /\ Finished(r, d)
    <3>1. CASE pc[r] = "scan"
      <4>1. Known(d)' = Known(d) /\ ChunkIdx(d)' = ChunkIdx(d)
          BY <3>1, LookupReads DEF Known, ChunkIdx
      <4>2. \/ pc'[r] = "count" /\ job'[r].doc = job[r].doc
            \/ pc'[r] = "prepare" /\ ~Known(job'[r].doc) /\ ChunkIdx(job'[r].doc) = {}
        <5>1. ScanNext(r)
            BY <3>1 DEF Step, LookupPath, LookupId, Prepare, PrepareFails, ReadOld, AcquireLock, TeardownFails,
               DelVec, DelBm25, DelChunks, DelDoc, AddVec, AddBm25, AddDoc, AddChunks,
               SetSize, WriteFails, RbVec, RbBm25, RbChunks, RbDoc, RollbackFails, Count
        <5>2. CASE job' = job /\ Goto(r, "count")
            BY <5>2 DEF Goto, TypeOK
        <5>3. CASE /\ Goto(r, "prepare")
                   /\ \E p \in job[r].todo :
                        job' = [job EXCEPT ![r].todo = @ \ {p}, ![r].path = p, ![r].doc = <<r, p>>]
          <6>1. PICK p \in job[r].todo :
                   job' = [job EXCEPT ![r].todo = @ \ {p}, ![r].path = p, ![r].doc = <<r, p>>]
              BY <5>3
          <6>2. job'[r].doc = <<r, p>> /\ p \in Paths
              BY <6>1 DEF TypeOK, Job
          <6>3. Empty(<<r, p>>)
              BY <6>2 DEF Fresh, Unmade
          <6> QED BY <5>3, <6>2, <6>3 DEF Empty, Goto, TypeOK
        <5> QED BY <5>1, <5>2, <5>3 DEF ScanNext
      <4> QED BY <3>1, <4>1, <4>2 DEF Finished
    <3>2. CASE pc[r] # "scan"
      <4>1. pc[r] \notin {"lookup", "count"} /\ Active(r)
        <5>1. pc[r] = "count" => ~Active(r)'
            BY StepGoes DEF Active, Working
        <5> QED BY <5>1, StepPlace DEF Kinds, Kind
      <4>2. job'[r].doc = job[r].doc
          BY <3>2, <4>1, StepJob
      <4>3. CASE d # job[r].doc
          BY <4>2, <4>3, LeftAlone DEF Finished
      <4>4. CASE d = job[r].doc /\ pc'[r] \notin {"scan", "count"}
          BY <3>2, <4>1, <4>2, <4>4 DEF Finished
      <4>5. CASE d = job[r].doc /\ pc'[r] \in {"scan", "count"}
        <5>1. ~Known(d)' /\ ChunkIdx(d)' = {}
            BY <1>2, <3>2, <4>1, <4>5, ScanCleared
        <5>2. ~Finished(r, d)
            BY <3>2, <4>1, <4>5 DEF Finished
        <5> QED BY <5>1, <5>2
      <4> QED BY <4>3, <4>4, <4>5
    <3> QED BY <3>1, <3>2
  <2>3. ScanDocs(r)' = ScanDocs(r)
      BY <2>2 DEF ScanDocs
  <2>4. ScanRows(r)' = ScanRows(r)
    <3>1. \A c \in ChunkRow : c[1] \in DocIds
        BY DEF ChunkRow
    <3> QED BY <2>2, <3>1 DEF ScanRows
  <2> QED BY <2>1, <2>3, <2>4 DEF Tally
<1> QED BY <1>1, <1>2

\* Sets with nothing in common add up.
LEMMA CardDisjoint ==
    ASSUME NEW S, NEW T, IsFiniteSet(S), IsFiniteSet(T), S \cap T = {}
    PROVE  IsFiniteSet(S \cup T) /\ Cardinality(S \cup T) = Cardinality(S) + Cardinality(T)
<1>1. Cardinality(S \cap T) = 0
    BY FS_EmptySet
<1>2. Cardinality(S) \in Nat /\ Cardinality(T) \in Nat
    BY FS_CardinalityType
<1>3. IsFiniteSet(S \cup T) /\ Cardinality(S \cup T) = Cardinality(S) + Cardinality(T) - Cardinality(S \cap T)
    BY FS_Union
<1> QED BY <1>1, <1>2, <1>3

-----------------------------------------------------------------------------
(* Counting.                                                               *)

\* What the counters are to have, when a request counts.
LEMMA CountBooks ==
    ASSUME DocInv, DocInv', ScanOwns, NEW r \in Reqs, Count(r)
    PROVE  /\ BookedDocs' = {d \in BookedDocs : ~Deals(r, d)} \cup {d \in DocIds : Deals(r, d) /\ Known(d)}
           /\ BookedRows' = {c \in BookedRows : ~Deals(r, c[1])}
                            \cup {c \in ChunkRow : Deals(r, c[1]) /\ c[2] \in ChunkIdx(c[1])}
<1> USE DEF DocInv
<1>1. Step(r) /\ docs' = docs /\ chunks' = chunks /\ pc'[r] = "ok"
    BY DEF Count, Step, stores, Goto, TypeOK
<1>2. \A d : ~Deals(r, d)'
    BY <1>1 DEF Deals, Active, Working
<1>3. ASSUME NEW d \in DocIds, ~Deals(r, d)
      PROVE  (DocBooked(d)' <=> DocBooked(d)) /\ IdxBooked(d)' = IdxBooked(d)
    BY <1>1, <1>2, <1>3, BookedElsewhere
<1>4. ASSUME NEW d \in DocIds, Deals(r, d)
      PROVE  (DocBooked(d)' <=> Known(d)) /\ IdxBooked(d)' = ChunkIdx(d)
  <2>1. \A q \in Reqs : ~Deals(q, d)'
      BY <1>1, <1>2, <1>4, OneDealer, OthersDeal
  <2>2. ~Dealt(d)'
      BY <2>1 DEF Dealt
  <2>3. Known(d)' = Known(d) /\ ChunkIdx(d)' = ChunkIdx(d)
      BY <1>1 DEF Known, ChunkIdx
  <2> QED BY <2>2, <2>3 DEF DocBooked, IdxBooked
<1>5. BookedDocs' = {d \in BookedDocs : ~Deals(r, d)} \cup {d \in DocIds : Deals(r, d) /\ Known(d)}
    BY <1>3, <1>4 DEF BookedDocs
<1>6. \A c \in ChunkRow : c[1] \in DocIds
    BY DEF ChunkRow
<1>7. \A c \in ChunkRow : ~Deals(r, c[1]) => IdxBooked(c[1])' = IdxBooked(c[1])
    BY <1>3, <1>6
<1>8. \A c \in ChunkRow : Deals(r, c[1]) => IdxBooked(c[1])' = ChunkIdx(c[1])
    BY <1>4, <1>6
<1>9. BookedRows' = {c \in BookedRows : ~Deals(r, c[1])}
                    \cup {c \in ChunkRow : Deals(r, c[1]) /\ c[2] \in ChunkIdx(c[1])}
  <2>1. BookedRows' = {c \in ChunkRow : c[2] \in IdxBooked(c[1])'}
      BY DEF BookedRows
  <2> QED BY <1>7, <1>8, <2>1 DEF BookedRows
<1> QED BY <1>5, <1>9

\* A scan adds what it has finished.
LEMMA CountScan ==
    ASSUME DocInv, DocInv', ScanOwns, NEW r \in Reqs, Count(r), job[r].op = "scan", Tally(r),
           IsFiniteSet(BookedDocs), fileCount = Cardinality(BookedDocs),
           IsFiniteSet(BookedRows), chunkCount = Cardinality(BookedRows)
    PROVE  /\ IsFiniteSet(BookedDocs') /\ fileCount' = Cardinality(BookedDocs')
           /\ IsFiniteSet(BookedRows') /\ chunkCount' = Cardinality(BookedRows')
<1> USE DEF DocInv
<1>1. fileCount' = fileCount + job[r].files /\ chunkCount' = chunkCount + job[r].total
    BY DEF Count, FilesAfter, ChunksAfter
<1>2. pc[r] = "count" /\ Active(r) /\ ~job[r].exists
    BY DEF Count, Active, Working, Kinds, Kind
<1>3. \A d : (Deals(r, d) <=> d[1] = r) /\ (Finished(r, d) <=> d[1] = r)
    BY <1>2 DEF Deals, Finished
<1>4. ASSUME NEW d \in DocIds, Deals(r, d) PROVE ~DocBooked(d) /\ IdxBooked(d) = {}
    BY <1>2, <1>4, OneDealer, BookedBy
<1>5. BookedDocs' = BookedDocs \cup ScanDocs(r) /\ BookedDocs \cap ScanDocs(r) = {}
  <2>1. \A d \in BookedDocs : ~Deals(r, d)
      BY <1>4 DEF BookedDocs
  <2>2. ScanDocs(r) = {d \in DocIds : Deals(r, d) /\ Known(d)}
      BY <1>3 DEF ScanDocs
  <2> QED BY <2>1, <2>2, CountBooks
<1>6. BookedRows' = BookedRows \cup ScanRows(r) /\ BookedRows \cap ScanRows(r) = {}
  <2>1. \A c \in BookedRows : ~Deals(r, c[1])
    <3>1. \A c \in ChunkRow : c[1] \in DocIds
        BY DEF ChunkRow
    <3> QED BY <1>4, <3>1 DEF BookedRows
  <2>2. ScanRows(r) = {c \in ChunkRow : Deals(r, c[1]) /\ c[2] \in ChunkIdx(c[1])}
      BY <1>3 DEF ScanRows
  <2> QED BY <2>1, <2>2, CountBooks
<1>7. \A S, T : IsFiniteSet(S) /\ IsFiniteSet(T) /\ S \cap T = {} =>
         IsFiniteSet(S \cup T) /\ Cardinality(S \cup T) = Cardinality(S) + Cardinality(T)
    BY CardDisjoint
<1>8. /\ IsFiniteSet(BookedDocs \cup ScanDocs(r))
      /\ Cardinality(BookedDocs \cup ScanDocs(r)) = fileCount + job[r].files
    BY <1>5, <1>7 DEF Tally
<1>9. /\ IsFiniteSet(BookedRows \cup ScanRows(r))
      /\ Cardinality(BookedRows \cup ScanRows(r)) = chunkCount + job[r].total
    BY <1>6, <1>7 DEF Tally
<1> QED BY <1>1, <1>5, <1>6, <1>8, <1>9

\* Any other request gives up its old rows for its new ones.
LEMMA CountOther ==
    ASSUME DocInv, DocInv', ScanOwns, AtCount, Found, NEW r \in Reqs, Count(r), job[r].op # "scan",
           IsFiniteSet(BookedDocs), fileCount = Cardinality(BookedDocs),
           IsFiniteSet(BookedRows), chunkCount = Cardinality(BookedRows)
    PROVE  /\ IsFiniteSet(BookedDocs') /\ fileCount' = Cardinality(BookedDocs')
           /\ IsFiniteSet(BookedRows') /\ chunkCount' = Cardinality(BookedRows')
<1> USE DEF DocInv
<1>1. PICK d \in DocIds : d = job[r].doc
    BY JobFields
<1>2. PICK n \in Nat : n = job[r].n
    BY JobFields
<1>3. PICK old \in SUBSET Nat : old = job[r].old
    BY JobFields
<1>4. pc[r] = "count" /\ Active(r) /\ fileCount' = FilesAfter(r) /\ chunkCount' = ChunksAfter(r)
    BY DEF Count, Active, Working
<1>5. \A e : Deals(r, e) <=> e = d
    BY <1>1, <1>4 DEF Deals
<1>6. fileCount \in Nat /\ chunkCount \in Nat
    BY DEF TypeOK
<1>7. /\ DocBooked(d) <=> job[r].exists
      /\ job[r].exists => IdxBooked(d) = old
      /\ ~job[r].exists => IdxBooked(d) = {}
  <2>1. \A q \in Reqs \ {r} : ~Deals(q, d)
      BY <1>5, OneDealer
  <2>2. OldRows(r) = old
      BY <1>3, <1>4 DEF OldRows
  <2>3. {i \in Nat : i \in old} = old
      OBVIOUS
  <2> QED BY <1>5, <2>1, <2>2, <2>3, BookedBy
<1>8. /\ BookedDocs' = (BookedDocs \ {d}) \cup (IF Known(d) THEN {d} ELSE {})
      /\ BookedRows' = {c \in BookedRows : c[1] # d} \cup ({d} \X ChunkIdx(d))
  <2>1. BookedDocs' = {e \in BookedDocs : e # d} \cup {e \in DocIds : e = d /\ Known(e)}
      BY <1>5, CountBooks
  <2>2. BookedRows' = {c \in BookedRows : c[1] # d}
                      \cup {c \in ChunkRow : c[1] = d /\ c[2] \in ChunkIdx(c[1])}
      BY <1>5, CountBooks
  <2>3. {c \in ChunkRow : c[1] = d /\ c[2] \in ChunkIdx(c[1])} = {d} \X ChunkIdx(d)
    <3>1. ChunkIdx(d) \subseteq Nat
        BY DEF TypeOK, ChunkIdx, ChunkRow
    <3> QED BY <3>1 DEF ChunkRow
  <2> QED BY <2>1, <2>2, <2>3
<1> DEFINE Kept == {c \in BookedRows : c[1] # d}
<1>9. /\ IsFiniteSet(Kept) /\ Cardinality(Kept) \in Nat
      /\ job[r].exists => Cardinality(old) \in Nat /\ chunkCount = Cardinality(Kept) + Cardinality(old)
      /\ ~job[r].exists => chunkCount = Cardinality(Kept)
  <2>1. IsFiniteSet(Kept) /\ Cardinality(Kept) \in Nat
      BY FS_Subset, FS_CardinalityType
  <2>2. CASE ~job[r].exists
    <3>1. BookedRows \subseteq Kept
        BY <1>7, <2>2 DEF BookedRows
    <3> QED BY <2>1, <2>2, <3>1
  <2>3. CASE job[r].exists
    <3> DEFINE Gone0 == {d} \X old
    <3>1. BookedRows = Kept \cup Gone0 /\ Kept \cap Gone0 = {}
      <4>1. Gone0 \subseteq BookedRows
          BY <1>7, <2>3 DEF BookedRows, ChunkRow
      <4>2. \A c \in BookedRows : c[1] = d => c \in Gone0
          BY <1>7, <2>3 DEF BookedRows, ChunkRow
      <4>3. \A c \in Gone0 : c[1] = d
          OBVIOUS
      <4> QED BY <4>1, <4>2, <4>3
    <3>2. IsFiniteSet(Gone0)
        BY <3>1, FS_Subset
    <3>3. IsFiniteSet(old) /\ Cardinality(Gone0) = Cardinality(old)
        BY <3>2, RowsOfOne
    <3>4. Cardinality(old) \in Nat
        BY <3>3, FS_CardinalityType
    <3> HIDE DEF Gone0, Kept
    <3>5. Cardinality(Kept \cup Gone0) = Cardinality(Kept) + Cardinality(Gone0)
        BY <2>1, <3>1, <3>2, CardDisjoint
    <3> QED BY <2>1, <2>3, <3>1, <3>3, <3>4, <3>5
  <2> QED BY <2>1, <2>2, <2>3
<1>10. Kept \cap ({d} \X ChunkIdx(d)) = {}
    OBVIOUS
<1>11. d \in BookedDocs <=> job[r].exists
    BY <1>7 DEF BookedDocs
<1> HIDE DEF Kept
<1>12. BookedRows' = Kept \cup ({d} \X ChunkIdx(d))
    BY <1>8 DEF Kept
<1>13. CASE job[r].op = "delete"
  <2>1. job[r].exists /\ ~Known(d) /\ ChunkIdx(d) = {}
      BY <1>1, <1>4, <1>13 DEF Found, AtCount
  <2>2. fileCount' = Max0(fileCount - 1) /\ chunkCount' = Max0(chunkCount - Cardinality(old))
      BY <1>3, <1>4, <1>13 DEF FilesAfter, ChunksAfter
  <2>3. BookedDocs' = BookedDocs \ {d} /\ BookedRows' = Kept
      BY <1>8, <1>12, <2>1
  <2>4. IsFiniteSet(BookedDocs \ {d}) /\ Cardinality(BookedDocs \ {d}) = fileCount - 1
      BY <1>11, <2>1, FS_RemoveElement
  <2>5. Cardinality(BookedDocs \ {d}) \in Nat
      BY <2>4, FS_CardinalityType
  <2>6. fileCount' = fileCount - 1
      BY <1>6, <2>2, <2>4, <2>5 DEF Max0
  <2>7. chunkCount' = Cardinality(Kept)
      BY <1>6, <1>9, <2>1, <2>2 DEF Max0
  <2> QED BY <1>9, <2>3, <2>4, <2>6, <2>7
<1>14. CASE job[r].op # "delete"
  <2>1. Known(d) /\ ChunkIdx(d) = 1..n
      BY <1>1, <1>2, <1>4, <1>14 DEF AtCount
  <2>2. IsFiniteSet(BookedRows') /\ Cardinality(BookedRows') = Cardinality(Kept) + n
    <3>1. BookedRows' = Kept \cup ({d} \X (1..n)) /\ Kept \cap ({d} \X (1..n)) = {}
        BY <1>10, <1>12, <2>1
    <3>2. \A S : IsFiniteSet(S) /\ S \cap ({d} \X (1..n)) = {} =>
              /\ IsFiniteSet(S \cup ({d} \X (1..n)))
              /\ Cardinality(S \cup ({d} \X (1..n))) = Cardinality(S) + n
        BY RowsAdd
    <3> QED BY <1>9, <3>1, <3>2
  <2>3. BookedDocs' = BookedDocs \cup {d}
      BY <1>8, <2>1
  <2>4. IsFiniteSet(BookedDocs \cup {d})
        /\ Cardinality(BookedDocs \cup {d}) = IF job[r].exists THEN fileCount ELSE fileCount + 1
      BY <1>11, FS_AddElement
  <2>5. CASE job[r].exists
    <3>1. fileCount' = fileCount /\ chunkCount' = Max0(chunkCount - Cardinality(old) + n)
        BY <1>2, <1>3, <1>4, <1>14, <2>5 DEF FilesAfter, ChunksAfter
    <3>2. chunkCount' = Cardinality(Kept) + n
        BY <1>6, <1>9, <2>5, <3>1 DEF Max0
    <3> QED BY <2>2, <2>3, <2>4, <2>5, <3>1, <3>2
  <2>6. CASE ~job[r].exists
    <3>1. fileCount' = fileCount + 1 /\ chunkCount' = chunkCount + n
        BY <1>2, <1>4, <1>14, <2>6 DEF FilesAfter, ChunksAfter
    <3> QED BY <1>9, <2>2, <2>3, <2>4, <2>6, <3>1
  <2> QED BY <2>5, <2>6
<1> QED BY <1>13, <1>14

\* Only counting changes the counters.
LEMMA CountersKept ==
    ASSUME NEW r \in Reqs, Step(r), pc[r] # "count"
    PROVE  fileCount' = fileCount /\ chunkCount' = chunkCount
BY DEF Step, counts, LookupPath, LookupId, Prepare, PrepareFails, ReadOld, AcquireLock,
   DelVec, DelBm25, DelChunks, DelDoc, TeardownFails, AddVec, AddBm25, AddDoc, AddChunks,
   SetSize, WriteFails, RbVec, RbBm25, RbChunks, RbDoc, RollbackFails, ScanNext, Count

\* How a request begins.
LEMMA SubmitShape ==
    ASSUME DocInv, NEW r \in Reqs, Submit(r)
    PROVE  /\ docs' = docs /\ chunks' = chunks /\ fileCount' = fileCount /\ chunkCount' = chunkCount
           /\ pc[r] = "idle" /\ \A q \in Reqs \ {r} : pc'[q] = pc[q] /\ job'[q] = job[q]
           /\ ~job'[r].exists /\ job'[r].files = 0 /\ job'[r].total = 0
           /\ pc'[r] \in {"lookup", "prepare", "scan"}
           /\ pc'[r] # "lookup" => job'[r].op \in {"inline", "scan"} /\ job'[r].doc[1] = r
           /\ \/ job'[r].doc[1] = r
              \/ \E x \in docs : x.id = job'[r].doc /\ {x.path} \cap FilePaths \subseteq job'[r].claim
<1>1. ASSUME NEW l, NEW j, Start(r, l, j)
      PROVE  /\ docs' = docs /\ chunks' = chunks /\ fileCount' = fileCount /\ chunkCount' = chunkCount
             /\ pc[r] = "idle" /\ \A q \in Reqs \ {r} : pc'[q] = pc[q] /\ job'[q] = job[q]
             /\ pc'[r] = l /\ job'[r] = j
    BY <1>1 DEF Start, stores, counts, Goto, DocInv, TypeOK
<1>2. \A op, p, d, claim, todo :
        LET j == NewJob(op, p, d, claim, todo)
        IN  j.op = op /\ j.doc = d /\ j.claim = claim /\ ~j.exists /\ j.files = 0 /\ j.total = 0
    BY DEF NewJob
<1>3. CASE SubmitIngest(r)
  <2>1. PICK p \in FilePaths : Start(r, "lookup", NewJob("ingest", p, <<r, p>>, {p}, {}))
      BY <1>3 DEF SubmitIngest
  <2> QED BY <1>1, <1>2, <2>1
<1>4. CASE SubmitInline(r)
  <2>1. PICK p \in InlinePaths : Start(r, "prepare", NewJob("inline", p, <<r, p>>, {}, {}))
      BY <1>4 DEF SubmitInline
  <2> QED BY <1>1, <1>2, <2>1
<1>5. CASE SubmitScan(r)
  <2>1. PICK T \in (SUBSET FilePaths) \ {{}} :
          Start(r, "scan", NewJob("scan", job[r].path, job[r].doc, T, T))
      BY <1>5 DEF SubmitScan
  <2>2. job[r].doc[1] = r
      BY <1>1, <2>1 DEF DocInv, Kinds, Kind
  <2> QED BY <1>1, <1>2, <2>1, <2>2
<1>6. CASE SubmitDelete(r)
  <2>1. PICK x \in docs : Start(r, "lookup", NewJob("delete", x.path, x.id, {x.path} \cap FilePaths, {}))
      BY <1>6 DEF SubmitDelete
  <2> QED BY <1>1, <1>2, <2>1
<1>7. CASE SubmitReplace(r)
  <2>1. PICK x \in docs, p \in FilePaths :
          Start(r, "lookup", NewJob("replace", p, x.id, ({x.path} \cap FilePaths) \cup {p}, {}))
      BY <1>7 DEF SubmitReplace
  <2> QED BY <1>1, <1>2, <2>1
<1> QED BY <1>3, <1>4, <1>5, <1>6, <1>7 DEF Submit

-----------------------------------------------------------------------------
(* The invariant of the counters.                                          *)

\* A step of a request,
LEMMA CountStepInv ==
    ASSUME DocInv, DocInv', CountInv, NEW r \in Reqs, Step(r)
    PROVE  CountInv'
<1> USE DEF CountInv
<1>1. ScanOwns' /\ AtCount' /\ Found'
    BY ScanOwnsStep, AtCountStep, FoundStep
<1>2. ASSUME Unharmed' PROVE Unharmed
  <2>1. ASSUME NEW q \in Reqs \ {r}
        PROVE  ~Reported(q) /\ (pc[q] = "failed" => job[q].op # "scan" /\ ~job[q].exists)
    <3>1. pc'[q] = pc[q] /\ job'[q] = job[q]
        BY OthersDeal DEF DocInv
    <3> QED BY <1>2, <3>1 DEF Unharmed, Reported
  <2>2. ~Reported(r) /\ pc[r] # "failed"
    <3>1. pc[r] \notin {"lost", "failed"} /\ (job[r].orphan => job'[r].orphan)
        BY StepPlace, StepJob DEF Active, Working, DocInv
    <3> QED BY <1>2, <3>1 DEF Unharmed, Reported
  <2> QED BY <2>1, <2>2 DEF Unharmed
<1>3. ASSUME Unharmed'
      PROVE  /\ IsFiniteSet(BookedDocs') /\ fileCount' = Cardinality(BookedDocs')
             /\ IsFiniteSet(BookedRows') /\ chunkCount' = Cardinality(BookedRows')
  <2>1. /\ IsFiniteSet(BookedDocs) /\ fileCount = Cardinality(BookedDocs)
        /\ IsFiniteSet(BookedRows) /\ chunkCount = Cardinality(BookedRows)
        /\ \A s \in Reqs : Active(s) /\ job[s].op = "scan" => Tally(s)
      BY <1>2, <1>3 DEF Books
  <2>2. CASE pc[r] = "count"
    <3>1. Count(r) /\ Active(r)
        BY <2>2 DEF Active, Working, Step, LookupPath, LookupId, Prepare, PrepareFails, ReadOld, AcquireLock,
           TeardownFails, DelVec, DelBm25, DelChunks, DelDoc, AddVec, AddBm25, AddDoc, AddChunks,
           SetSize, WriteFails, RbVec, RbBm25, RbChunks, RbDoc, RollbackFails, ScanNext
    <3>2. CASE job[r].op = "scan"
        BY <2>1, <3>1, <3>2, CountScan
    <3>3. CASE job[r].op # "scan"
        BY <2>1, <3>1, <3>3, CountOther
    <3> QED BY <3>2, <3>3
  <2>3. CASE pc[r] # "count"
    <3>1. BookedDocs' = BookedDocs /\ BookedRows' = BookedRows
        BY <1>1, <1>3, <2>3, BookedSame
    <3>2. fileCount' = fileCount /\ chunkCount' = chunkCount
        BY <2>3, CountersKept
    <3> QED BY <2>1, <3>1, <3>2
  <2> QED BY <2>2, <2>3
<1>4. ASSUME Unharmed', NEW s \in Reqs, Active(s)', job'[s].op = "scan" PROVE Tally(s)'
  <2>1. \A q \in Reqs : Active(q) /\ job[q].op = "scan" => Tally(q)
      BY <1>2, <1>4 DEF Books
  <2>2. CASE s = r
    <3>1. Active(r) /\ job[r].op = "scan"
        BY <1>4, <2>2, StepPlace, StepFrame DEF DocInv
    <3> QED BY <1>4, <2>1, <2>2, <3>1, TallyOwn
  <2>3. CASE s # r
    <3>1. Active(s) /\ job[s].op = "scan"
        BY <1>4, <2>3, OthersDeal DEF DocInv
    <3> QED BY <2>1, <2>3, <3>1, TallySpared
  <2> QED BY <2>2, <2>3
<1>5. Books'
    BY <1>3, <1>4 DEF Books
<1> QED BY <1>1, <1>5

\* a request that begins,
LEMMA CountSubmitInv ==
    ASSUME DocInv, DocInv', CountInv, NEW r \in Reqs, Submit(r)
    PROVE  CountInv'
<1> USE DEF CountInv, DocInv
<1>1. /\ docs' = docs /\ chunks' = chunks /\ fileCount' = fileCount /\ chunkCount' = chunkCount
      /\ pc[r] = "idle" /\ \A q \in Reqs \ {r} : pc'[q] = pc[q] /\ job'[q] = job[q]
    BY SubmitShape
<1>2. /\ ~job'[r].exists /\ job'[r].files = 0 /\ job'[r].total = 0
      /\ pc'[r] \in {"lookup", "prepare", "scan"}
      /\ pc'[r] # "lookup" => job'[r].op \in {"inline", "scan"} /\ job'[r].doc[1] = r
      /\ \/ job'[r].doc[1] = r
         \/ \E x \in docs : x.id = job'[r].doc /\ {x.path} \cap FilePaths \subseteq job'[r].claim
    BY SubmitShape
<1>3. ~Active(r) /\ Active(r)' /\ ~job[r].orphan
    BY <1>1, <1>2 DEF Active, Working, Kinds, Kind
<1>4. \A q \in Reqs \ {r} : Active(q)' = Active(q)
    BY <1>1 DEF Active
<1>5. \A d : Known(d)' = Known(d) /\ ChunkIdx(d)' = ChunkIdx(d)
    BY <1>1 DEF Known, ChunkIdx
<1>6. ASSUME NEW d \in DocIds, d[1] = r
      PROVE  ~Known(d) /\ ChunkIdx(d) = {} /\ \A q \in Reqs \ {r} : job[q].doc # d
  <2>1. PICK p \in Paths : d = <<r, p>>
      BY <1>6 DEF DocIds
  <2> QED BY <1>1, <2>1 DEF Fresh, Unmade, Empty
<1>7. ScanOwns'
  <2> SUFFICES ASSUME NEW s \in Reqs, Active(s)', job'[s].op = "scan"
               PROVE  /\ \A q \in Reqs \ {s} : Active(q)' => job'[q].doc[1] # s
                      /\ \A x \in docs' : x.id[1] = s => x.path \in job'[s].claim
      BY DEF ScanOwns
  <2>1. CASE s = r
    <3>1. \A q \in Reqs : job[q].doc \in DocIds
        BY JobFields
    <3>2. \A x \in docs : x.id \in DocIds /\ Known(x.id)
        BY DEF TypeOK, DocRow, Known
    <3> QED BY <1>1, <1>6, <2>1, <3>1, <3>2
  <2>2. CASE s # r
    <3>1. /\ \A q \in Reqs \ {s} : Active(q) => job[q].doc[1] # s
          /\ \A x \in docs : x.id[1] = s => x.path \in job[s].claim
        BY <1>1, <1>4, <2>2 DEF ScanOwns
    <3>2. job'[r].doc[1] # s
      <4>1. CASE job'[r].doc[1] = r
          BY <2>2, <4>1
      <4>2. ASSUME NEW x \in docs, x.id = job'[r].doc, {x.path} \cap FilePaths \subseteq job'[r].claim,
                   x.id[1] = s
            PROVE  FALSE
        <5>1. x.path \in job[s].claim /\ job[s].claim \subseteq FilePaths
            BY <3>1, <4>2, JobFields
        <5>2. job'[r].claim \cap job'[s].claim = {}
            BY <1>3, <2>2 DEF Apart
        <5> QED BY <1>1, <2>2, <4>2, <5>1, <5>2
      <4> QED BY <1>2, <4>1, <4>2
    <3> QED BY <1>1, <1>4, <2>2, <3>1, <3>2
  <2> QED BY <2>1, <2>2
<1>8. AtCount'
  <2>1. ASSUME NEW q \in Reqs, pc'[q] = "count"
        PROVE  pc[q] = "count" /\ job'[q] = job[q]
      BY <1>1, <1>2, <2>1
  <2> QED BY <1>1, <1>5, <2>1 DEF AtCount, Known, ChunkIdx
<1>9. Found'
    BY <1>1, <1>2, <1>4 DEF Found
<1>10. Unharmed' => Unharmed
    BY <1>1, <1>3 DEF Unharmed, Reported
<1>11. \A q \in Reqs \ {r} : \A d : Deals(q, d)' <=> Deals(q, d)
    BY <1>1, <1>4 DEF Deals
<1>12. \A d : ~Deals(r, d)
    BY <1>3 DEF Deals
<1>13. ASSUME NEW d \in DocIds
       PROVE  (DocBooked(d)' <=> DocBooked(d)) /\ IdxBooked(d)' = IdxBooked(d)
  <2>1. CASE Deals(r, d)'
    <3>1. d[1] = r
        BY <1>2, <2>1 DEF Deals
    <3>2. \A q \in Reqs \ {r} : ~Deals(q, d)
        BY <1>6, <3>1 DEF Deals
    <3>3. ~DocBooked(d) /\ IdxBooked(d) = {}
        BY <1>6, <1>12, <3>1, <3>2, BookedIdle
    <3>4. ~DocBooked(d)' /\ IdxBooked(d)' = {}
      <4>1. \A q \in Reqs : ~(Deals(q, d)' /\ job'[q].exists)
          BY <1>2, <1>11, <3>2
      <4>2. Dealt(d)'
          BY <2>1 DEF Dealt
      <4> QED BY <4>1, <4>2 DEF DocBooked, IdxBooked
    <3> QED BY <3>3, <3>4
  <2>2. CASE ~Deals(r, d)'
    <3>1. \A q \in Reqs : Deals(q, d)' <=> Deals(q, d)
        BY <1>11, <1>12, <2>2
    <3>2. \A q \in Reqs : Deals(q, d) => job'[q] = job[q] /\ OldRows(q)' = OldRows(q)
        BY <1>1, <1>12 DEF OldRows, ChunkIdx
    <3> QED BY <1>5, <3>1, <3>2 DEF DocBooked, IdxBooked, Dealt
  <2> QED BY <2>1, <2>2
<1>14. BookedDocs' = BookedDocs /\ BookedRows' = BookedRows
    BY <1>13 DEF BookedDocs, BookedRows, ChunkRow
<1>15. ASSUME Unharmed, NEW s \in Reqs, Active(s)', job'[s].op = "scan" PROVE Tally(s)'
  <2>1. CASE s = r
    <3>1. ScanDocs(r)' = {} /\ ScanRows(r)' = {}
      <4>1. \A d \in DocIds : Finished(r, d)' => ~Known(d)' /\ ChunkIdx(d)' = {}
          BY <1>5, <1>6 DEF Finished
      <4> QED BY <4>1 DEF ScanDocs, ScanRows, ChunkRow
    <3> QED BY <1>2, <2>1, <3>1, FS_EmptySet DEF Tally
  <2>2. CASE s # r
    <3>1. Tally(s)
        BY <1>1, <1>4, <1>15, <2>2 DEF Books
    <3>2. \A d : Finished(s, d)' <=> Finished(s, d)
        BY <1>1, <2>2 DEF Finished
    <3>3. ScanDocs(s)' = ScanDocs(s) /\ ScanRows(s)' = ScanRows(s)
        BY <1>5, <3>2 DEF ScanDocs, ScanRows
    <3> QED BY <1>1, <2>2, <3>1, <3>3 DEF Tally
  <2> QED BY <2>1, <2>2
<1>16. Books'
    BY <1>1, <1>10, <1>14, <1>15 DEF Books
<1> QED BY <1>7, <1>8, <1>9, <1>16

\* the process that dies,
LEMMA CountCrashInv ==
    ASSUME DocInv, Crash
    PROVE  CountInv'
<1>1. \A q \in Reqs : pc'[q] = IF Active(q) THEN "lost" ELSE pc[q]
    BY DEF Crash, DocInv, TypeOK
<1>2. \A q \in Reqs : ~Active(q)' /\ pc'[q] # "count"
    BY <1>1 DEF Active, Working
<1>3. ~Unharmed'
  <2>1. PICK r \in Reqs : Active(r)
      BY DEF Crash
  <2>2. Reported(r)'
      BY <1>1, <2>1 DEF Reported
  <2> QED BY <2>2 DEF Unharmed
<1> QED BY <1>2, <1>3 DEF CountInv, ScanOwns, AtCount, Found, Books

\* a step that changes nothing,
LEMMA CountStutterInv ==
    ASSUME CountInv, UNCHANGED vars
    PROVE  CountInv'
<1>1. UNCHANGED <<docs, chunks, fileCount, chunkCount, pc, job>>
    BY DEF vars
<1>2. /\ \A q : Active(q)' = Active(q) /\ Reported(q)' = Reported(q) /\ OldRows(q)' = OldRows(q)
      /\ \A d : Known(d)' = Known(d) /\ ChunkIdx(d)' = ChunkIdx(d)
      /\ \A q, d : Deals(q, d)' = Deals(q, d) /\ Finished(q, d)' = Finished(q, d)
    BY <1>1 DEF Active, Reported, OldRows, Known, ChunkIdx, Deals, Finished
<1>3. BookedDocs' = BookedDocs /\ BookedRows' = BookedRows
    BY <1>1, <1>2 DEF BookedDocs, BookedRows, DocBooked, IdxBooked, Dealt
<1>4. \A q : Tally(q)' = Tally(q)
    BY <1>1, <1>2 DEF Tally, ScanDocs, ScanRows
<1>5. ScanOwns' /\ AtCount' /\ Found' /\ (Unharmed' => Unharmed)
    BY <1>1, <1>2 DEF CountInv, ScanOwns, AtCount, Found, Unharmed
<1> QED BY <1>1, <1>2, <1>3, <1>4, <1>5 DEF CountInv, Books

\* What is booked when no request is at work is what is stored.
LEMMA BookedAtRest ==
    ASSUME TypeOK, Quiet
    PROVE  BookedDocs = {d \in DocIds : Known(d)} /\ BookedRows = chunks
<1>1. \A q \in Reqs : \A d : ~Deals(q, d)
    BY DEF Quiet, Deals
<1>2. \A d : (DocBooked(d) <=> Known(d)) /\ IdxBooked(d) = ChunkIdx(d)
    BY <1>1, BookedIdle
<1>3. \A c \in ChunkRow : c = <<c[1], c[2]>> /\ (c[2] \in ChunkIdx(c[1]) <=> c \in chunks)
  <2> SUFFICES ASSUME NEW d \in DocIds, NEW i \in Nat
               PROVE  i \in ChunkIdx(d) <=> <<d, i>> \in chunks
      BY DEF ChunkRow
  <2>1. \A x \in chunks : x = <<x[1], x[2]>>
      BY DEF TypeOK, ChunkRow
  <2> QED BY <2>1 DEF ChunkIdx
<1> QED BY <1>2, <1>3 DEF BookedDocs, BookedRows, TypeOK

\* and the first state.
LEMMA CountInit ==
    ASSUME Init, DocInv
    PROVE  CountInv
<1>1. Quiet /\ \A q \in Reqs : ~Active(q) /\ pc[q] # "count"
    BY DEF Init, Quiet, Active, Working
<1>2. SeedSize \in Nat
    BY CountsAssumption DEF SeedSize
<1>3. BookedDocs = {Seed} \X SeedPaths
  <2>1. \A d : Known(d) <=> d \in {Seed} \X SeedPaths
    <3>1. docs = {[id |-> <<Seed, p>>, path |-> p, size |-> SeedSize] : p \in SeedPaths}
        BY DEF Init
    <3>2. \A x \in docs : \E p \in SeedPaths : x.id = <<Seed, p>>
        BY <3>1
    <3>3. ASSUME NEW p \in SeedPaths PROVE \E x \in docs : x.id = <<Seed, p>>
      <4>1. [id |-> <<Seed, p>>, path |-> p, size |-> SeedSize] \in docs
          BY <3>1
      <4> QED BY <4>1
    <3>4. \A d \in {Seed} \X SeedPaths : \E p \in SeedPaths : d = <<Seed, p>>
        OBVIOUS
    <3> QED BY <3>2, <3>3, <3>4 DEF Known
  <2>2. {Seed} \X SeedPaths \subseteq DocIds
      BY PathsAssumption DEF DocIds, Writers, Paths
  <2> QED BY <1>1, <2>1, <2>2, BookedAtRest DEF DocInv
<1>4. BookedRows = ({Seed} \X SeedPaths) \X (1..SeedSize)
    BY <1>1, BookedAtRest DEF DocInv, Init
<1>5. /\ IsFiniteSet({Seed} \X SeedPaths)
      /\ Cardinality({Seed} \X SeedPaths) = Cardinality(SeedPaths)
      /\ Cardinality(SeedPaths) \in Nat
  <2>1. IsFiniteSet({Seed}) /\ Cardinality({Seed}) = 1
      BY FS_Singleton
  <2>2. IsFiniteSet(SeedPaths) /\ Cardinality(SeedPaths) \in Nat
      BY PathsAssumption, FS_CardinalityType
  <2>3. /\ IsFiniteSet({Seed} \X SeedPaths)
        /\ Cardinality({Seed} \X SeedPaths) = Cardinality({Seed}) * Cardinality(SeedPaths)
      BY <2>1, <2>2, FS_Product
  <2> QED BY <2>1, <2>2, <2>3
<1>6. /\ IsFiniteSet(({Seed} \X SeedPaths) \X (1..SeedSize))
      /\ Cardinality(({Seed} \X SeedPaths) \X (1..SeedSize)) = SeedSize * Cardinality(SeedPaths)
  <2>1. IsFiniteSet(1..SeedSize) /\ Cardinality(1..SeedSize) = SeedSize
    <3>1. Cardinality(1..SeedSize) = IF 1 > SeedSize THEN 0 ELSE SeedSize - 1 + 1
        BY <1>2, FS_Interval
    <3>2. IsFiniteSet(1..SeedSize)
        BY <1>2, FS_Interval
    <3> QED BY <1>2, <3>1, <3>2
  <2>2. /\ IsFiniteSet(({Seed} \X SeedPaths) \X (1..SeedSize))
        /\ Cardinality(({Seed} \X SeedPaths) \X (1..SeedSize))
             = Cardinality({Seed} \X SeedPaths) * Cardinality(1..SeedSize)
      BY <1>5, <2>1, FS_Product
  <2> QED BY <1>2, <1>5, <2>1, <2>2
<1>7. fileCount = Cardinality(SeedPaths) /\ chunkCount = SeedSize * Cardinality(SeedPaths)
    BY DEF Init
<1>8. Books
    BY <1>1, <1>3, <1>4, <1>5, <1>6, <1>7 DEF Books
<1> QED BY <1>1, <1>8 DEF CountInv, ScanOwns, AtCount, Found

\* The invariant holds in every reachable state.
THEOREM CountInvariant ==
    ASSUME Exclusive
    PROVE  Spec => []CountInv
<1>1. Init /\ DocInv => CountInv
    BY CountInit
<1>2. DocInv /\ DocInv' /\ CountInv /\ [Next]_vars => CountInv'
  <2> SUFFICES ASSUME DocInv, DocInv', CountInv, [Next]_vars PROVE CountInv'
      OBVIOUS
  <2>1. CASE Crash
      BY <2>1, CountCrashInv
  <2>2. CASE Waiting \/ UNCHANGED vars
      BY <2>2, CountStutterInv DEF Waiting
  <2>3. ASSUME NEW r \in Reqs, Submit(r) PROVE CountInv'
      BY <2>3, CountSubmitInv
  <2>4. ASSUME NEW r \in Reqs, Step(r) PROVE CountInv'
      BY <2>4, CountStepInv
  <2> QED BY <2>1, <2>2, <2>3, <2>4 DEF Next
<1> QED BY <1>1, <1>2, DocInvariant, PTL DEF Spec

\* The counters agree with the metadata when nothing went wrong unreported.
THEOREM CountsAccountedCorrect ==
    ASSUME Exclusive
    PROVE  Spec => []CountsAccounted
<1>1. DocInv /\ CountInv => CountsAccounted
  <2> SUFFICES ASSUME DocInv, CountInv, Quiet, Unharmed PROVE CountsExact
      BY DEF CountsAccounted, Unharmed
  <2>1. /\ IsFiniteSet(BookedDocs) /\ fileCount = Cardinality(BookedDocs)
        /\ chunkCount = Cardinality(BookedRows)
      BY DEF CountInv, Books
  <2>2. BookedDocs = {d \in DocIds : Known(d)} /\ BookedRows = chunks
      BY BookedAtRest DEF DocInv
  <2>3. Cardinality(docs) = Cardinality(BookedDocs)
    <3> DEFINE f == [d \in BookedDocs |-> CHOOSE x \in docs : x.id = d]
    <3>1. \A d \in BookedDocs : f[d] \in docs /\ f[d].id = d
        BY <2>2 DEF Known
    <3>2. \A x \in docs : x.id \in BookedDocs /\ f[x.id] = x
      <4>1. \A x \in docs : x.id \in BookedDocs
          BY <2>2 DEF DocInv, TypeOK, DocRow, Known
      <4>2. \A x, y \in docs : x.id = y.id => x = y
          BY DEF DocInv, Listed
      <4> QED BY <3>1, <4>1, <4>2
    <3>3. f \in [BookedDocs -> docs]
        BY <3>1
    <3> HIDE DEF f
    <3>4. f \in Bijection(BookedDocs, docs)
        BY <3>1, <3>2, <3>3 DEF Bijection, Injection, Surjection, IsInjective
    <3> QED BY <2>1, <3>4, FS_Bijection DEF ExistsBijection
  <2> QED BY <2>1, <2>2, <2>3 DEF CountsExact
<1> QED BY <1>1, CountInvariant, DocInvariant, PTL

=============================================================================
