------------------------------ MODULE DocWrite ------------------------------
(***************************************************************************)
(* The document write path of one knowledge base (api/routes_docs.py): the *)
(* requests that index, replace and delete documents, stepping between the *)
(* stores they write to.  Every store call of the code is awaited in a     *)
(* thread pool, so each call is one step here and requests interleave      *)
(* between calls.                                                          *)
(*                                                                         *)
(*   table   rows of the LanceDB vector table (append-only on add: a       *)
(*           second add of an id makes a second row)                       *)
(*   bm25    entries of the BM25 index (an add of a known id replaces it)  *)
(*   docs    rows of the SQLite "documents" table, keyed by id             *)
(*   chunks  rows of the SQLite "chunks" table, keyed by (doc, index)      *)
(*   fileCount, chunkCount   the counters kept in the knowledge base       *)
(*   lock    the per-knowledge-base asyncio.Lock                           *)
(*                                                                         *)
(* Texts, vectors and names are abstracted away; a row remembers in "by"   *)
(* the request that wrote it, which tells one version from another.        *)
(***************************************************************************)
EXTENDS Integers, FiniteSets

CONSTANTS
    Reqs,         \* the HTTP requests (and watch-loop calls) of a behaviour
    Seed,         \* stands for the requests that built the initial index
    Free,         \* "nobody holds the lock"
    FilePaths,    \* paths of files on disk
    InlinePaths,  \* the inline://<doc_name> paths of inline content
    SeedPaths,    \* paths indexed before the behaviour starts
    ChunkCounts,  \* how many chunks a document may be cut into
    Ops,          \* the operations requests may ask for
    Exclusive,    \* TRUE: clients never overlap requests on one document
    MaxFaults,    \* bound: store calls that fail
    MaxCrashes    \* bound: crashes of the process

AllOps == {"ingest", "inline", "scan", "replace", "delete"}

ASSUME ReqsAssumption   == Free \notin Reqs /\ Seed \notin Reqs
ASSUME PathsAssumption  == /\ FilePaths \cap InlinePaths = {}
                           /\ FilePaths \cup InlinePaths # {}
                           /\ SeedPaths \subseteq FilePaths \cup InlinePaths
                           /\ IsFiniteSet(SeedPaths)
ASSUME CountsAssumption == ChunkCounts \subseteq Nat \ {0} /\ ChunkCounts # {}
ASSUME OpsAssumption    == Ops \subseteq AllOps /\ Exclusive \in BOOLEAN
ASSUME BoundAssumption  == MaxFaults \in Nat /\ MaxCrashes \in Nat

VARIABLES table, bm25, docs, chunks, fileCount, chunkCount, lock,
          pc, job, faults, crashes

stores == <<table, bm25, docs, chunks>>
counts == <<fileCount, chunkCount>>
vars   == <<table, bm25, docs, chunks, fileCount, chunkCount, lock,
            pc, job, faults, crashes>>

-----------------------------------------------------------------------------
(* Rows and identifiers.                                                   *)

Paths   == FilePaths \cup InlinePaths
Writers == Reqs \cup {Seed}

\* uuid4 ids are fresh, so a new document is named by the request that makes
\* it and the path it makes it for.
DocIds == Writers \X Paths

Row      == [doc : DocIds, idx : Nat, path : Paths, by : Writers]
DocRow   == [id : DocIds, path : Paths, size : Nat]
ChunkRow == DocIds \X Nat

Batch(d, p, r, n) ==
    {[doc |-> d, idx |-> i, path |-> p, by |-> r] : i \in 1..n}

ChunkIdx(d) == {c[2] : c \in {x \in chunks : x[1] = d}}
Known(d)    == \E x \in docs : x.id = d

Working  == {"lookup", "prepare", "readOld", "waitLock", "delVec", "delBm25",
             "delChunks", "delDoc", "addVec", "addBm25", "addDoc",
             "addChunks", "setSize", "rbVec", "rbBm25", "rbChunks", "rbDoc",
             "scan", "count"}
Answered == {"ok", "rejected", "notFound", "failed", "orphan", "lost"}
Active(r) == pc[r] \in Working

Job == [op     : AllOps \cup {"none"},
        path   : Paths,              \* the path the new version is stored under
        doc    : DocIds,             \* the document worked on
        n      : Nat,                \* len(chunks) of the new version
        exists : BOOLEAN,            \* the new version replaces an indexed one
        old    : SUBSET Nat,         \* chunk rows read for the old version
        from   : Paths,              \* file_path of the old version
        claim  : SUBSET FilePaths,   \* file paths the request was sent about
        meta   : BOOLEAN,            \* the rollback covers the metadata too
        orphan : BOOLEAN,            \* rollback_failed
        todo   : SUBSET Paths,       \* scan: files still to index
        files  : Nat,                \* scan: file_count
        total  : Nat]                \* scan: total_chunks

NewJob(op, p, d, claim, todo) ==
    [op |-> op, path |-> p, doc |-> d, n |-> 0, exists |-> FALSE, old |-> {},
     from |-> p, claim |-> claim, meta |-> FALSE, orphan |-> FALSE,
     todo |-> todo, files |-> 0, total |-> 0]

SeedSize == CHOOSE n \in ChunkCounts : TRUE

Init ==
    /\ table = UNION {Batch(<<Seed, p>>, p, Seed, SeedSize) : p \in SeedPaths}
    /\ bm25 = table
    /\ docs = {[id |-> <<Seed, p>>, path |-> p, size |-> SeedSize] : p \in SeedPaths}
    /\ chunks = ({Seed} \X SeedPaths) \X (1..SeedSize)
    /\ fileCount = Cardinality(SeedPaths)
    /\ chunkCount = SeedSize * Cardinality(SeedPaths)
    /\ lock = Free
    /\ pc = [r \in Reqs |-> "idle"]
    /\ job = [r \in Reqs |-> NewJob("none", CHOOSE p \in Paths : TRUE,
                                    <<r, CHOOSE p \in Paths : TRUE>>, {}, {})]
    /\ faults = 0
    /\ crashes = 0

-----------------------------------------------------------------------------
(* Effects of the store calls.                                             *)

\* LocalBackend.delete_by_chunk_ids and delete_by_doc, on either index.
WithoutIds(store, d, ids) == {x \in store : ~(x.doc = d /\ x.idx \in ids)}
WithoutPath(store, p)     == {x \in store : x.path # p}

\* (Operators named ...Bug are faulty variants the properties must catch.)
\* The deletion by path that issue #94 replaced.
WithoutOldBug(store, r) == WithoutPath(store, job[r].from)
\* What an index keeps when the old version of r's document goes: its chunk
\* ids are removed, or everything under its path when it has no chunk rows.
WithoutOld(store, r) ==
    IF job[r].old # {} THEN WithoutIds(store, job[r].doc, job[r].old)
                       ELSE WithoutPath(store, job[r].from)

\* The last chunk is dropped when records are zipped together.
NewRowsBug(r)            == Batch(job[r].doc, job[r].path, r, job[r].n - 1)
NewRows(r)               == Batch(job[r].doc, job[r].path, r, job[r].n)
\* The rollback misses the last chunk id.
WithoutNewBug(store, r)  == WithoutIds(store, job[r].doc, 1..(job[r].n - 1))
WithoutNew(store, r)  == WithoutIds(store, job[r].doc, 1..job[r].n)

WithNewVectors(r)     == table \cup NewRows(r)
WithNewEntries(r)     == WithoutNew(bm25, r) \cup NewRows(r)
WithoutDoc(d)         == {x \in docs : x.id # d}
WithoutChunks(d)      == {c \in chunks : c[1] # d}

Max0Bug(x) == x
Max0(x) == IF x < 0 THEN 0 ELSE x

\* An exception leaves the lock held.
ReleaseBug(r) == lock
\* async with: the lock is released on every way out.
Release(r) == IF lock = r THEN Free ELSE lock

Goto(r, l) == pc' = [pc EXCEPT ![r] = l]

\* A store call raises: one fault of the budget.
Fault   == faults < MaxFaults /\ faults' = faults + 1
\* A vector-side call that raises may or may not have taken effect.
MayTake(now, before, after) == IF now THEN {before, after} ELSE {before}

-----------------------------------------------------------------------------
(* Clients.                                                                *)

\* Two requests are about the same document.
Overlap(d, claim) ==
    \E q \in Reqs : Active(q) /\ (job[q].doc = d \/ job[q].claim \cap claim # {})

Start(r, l, j) ==
    /\ pc[r] = "idle"
    /\ j.op \in Ops
    /\ Exclusive => ~Overlap(j.doc, j.claim)
    /\ Goto(r, l)
    /\ job' = [job EXCEPT ![r] = j]
    /\ UNCHANGED <<stores, counts, lock, faults, crashes>>

\* upload_document, one file of batch_upload_documents, or the watch loop.
SubmitIngest(r) == \E p \in FilePaths :
    Start(r, "lookup", NewJob("ingest", p, <<r, p>>, {p}, {}))

SubmitInline(r) == \E p \in InlinePaths :
    Start(r, "prepare", NewJob("inline", p, <<r, p>>, {}, {}))

SubmitScan(r) == \E T \in (SUBSET FilePaths) \ {{}} :
    Start(r, "scan", NewJob("scan", job[r].path, job[r].doc, T, T))

\* Only a document that was listed at some time is asked for.
SubmitDelete(r) == \E x \in docs :
    Start(r, "lookup", NewJob("delete", x.path, x.id, {x.path} \cap FilePaths, {}))

SubmitReplace(r) == \E x \in docs, p \in FilePaths :
    Start(r, "lookup", NewJob("replace", p, x.id, ({x.path} \cap FilePaths) \cup {p}, {}))

-----------------------------------------------------------------------------
(* Looking up and preparing.                                               *)

\* Every ingest makes a new document, as before F-P1-1.
LookupPathBug(r) ==
    /\ pc[r] = "lookup" /\ job[r].op = "ingest"
    /\ Goto(r, "prepare")
    /\ UNCHANGED <<stores, counts, lock, job, faults, crashes>>

\* _index_document: an indexed document with this file_path is reused.
LookupPath(r) ==
    /\ pc[r] = "lookup" /\ job[r].op = "ingest"
    /\ IF \E x \in docs : x.path = job[r].path
       THEN \E x \in docs :
              /\ x.path = job[r].path
              /\ job' = [job EXCEPT ![r].doc = x.id, ![r].exists = TRUE]
       ELSE UNCHANGED job
    /\ Goto(r, "prepare")
    /\ UNCHANGED <<stores, counts, lock, faults, crashes>>

\* delete_document and replace_document: get_document by id, or 404.
LookupId(r) ==
    /\ pc[r] = "lookup" /\ job[r].op \in {"delete", "replace"}
    /\ \/ /\ \E x \in docs : /\ x.id = job[r].doc
                             /\ job' = [job EXCEPT ![r].from = x.path, ![r].exists = TRUE]
          /\ Goto(r, IF job[r].op = "delete" THEN "readOld" ELSE "prepare")
       \/ /\ ~Known(job[r].doc)
          /\ Goto(r, "notFound")
          /\ UNCHANGED job
    /\ UNCHANGED <<stores, counts, lock, faults, crashes>>

\* The new version is written without removing the old one.
AfterPrepareBug(r) == "addVec"
AfterPrepare(r) == IF job[r].exists THEN "readOld" ELSE "addVec"

\* parse, chunk, contextualize and embed the new version.
Prepare(r) ==
    /\ pc[r] = "prepare"
    /\ \E n \in ChunkCounts : job' = [job EXCEPT ![r].n = n, ![r].meta = FALSE]
    /\ Goto(r, AfterPrepare(r))
    /\ UNCHANGED <<stores, counts, lock, faults, crashes>>

\* A parse or embedding error: nothing was touched yet.  A scan skips a file
\* that does not parse; an embedding error ends the whole scan.
PrepareFails(r) ==
    /\ pc[r] = "prepare"
    /\ \/ Goto(r, IF job[r].op = "scan" THEN "failed" ELSE "rejected")
       \/ job[r].op = "scan" /\ Goto(r, "scan")
    /\ UNCHANGED <<stores, counts, lock, job, faults, crashes>>

\* get_chunks_by_doc; delete_document then queues for the lock.
ReadOld(r) ==
    /\ pc[r] = "readOld"
    /\ job' = [job EXCEPT ![r].old = ChunkIdx(job[r].doc)]
    /\ Goto(r, IF job[r].op = "delete" THEN "waitLock" ELSE "delVec")
    /\ UNCHANGED <<stores, counts, lock, faults, crashes>>

AcquireLock(r) ==
    /\ pc[r] = "waitLock"
    /\ lock = Free
    /\ lock' = r
    /\ Goto(r, "delVec")
    /\ UNCHANGED <<stores, counts, job, faults, crashes>>

-----------------------------------------------------------------------------
(* Tearing the old version down.                                           *)

DelVec(r) ==
    /\ pc[r] = "delVec"
    /\ table' = WithoutOld(table, r)
    /\ Goto(r, "delBm25")
    /\ UNCHANGED <<bm25, docs, chunks, counts, lock, job, faults, crashes>>

DelBm25(r) ==
    /\ pc[r] = "delBm25"
    /\ bm25' = WithoutOld(bm25, r)
    /\ Goto(r, "delChunks")
    /\ UNCHANGED <<table, docs, chunks, counts, lock, job, faults, crashes>>

DelChunks(r) ==
    /\ pc[r] = "delChunks"
    /\ chunks' = WithoutChunks(job[r].doc)
    /\ Goto(r, "delDoc")
    /\ UNCHANGED <<table, bm25, docs, counts, lock, job, faults, crashes>>

DelDoc(r) ==
    /\ pc[r] = "delDoc"
    /\ docs' = WithoutDoc(job[r].doc)
    /\ chunks' = WithoutChunks(job[r].doc)
    /\ Goto(r, IF job[r].op = "delete" THEN "count" ELSE "addVec")
    /\ UNCHANGED <<table, bm25, counts, lock, job, faults, crashes>>

\* Any of these calls raises: 500, nothing is undone, the lock is released.
TeardownFails(r) ==
    /\ pc[r] \in {"readOld", "delVec", "delBm25", "delChunks", "delDoc"}
    /\ Fault
    /\ table' \in MayTake(pc[r] = "delVec", table, WithoutOld(table, r))
    /\ bm25' \in MayTake(pc[r] = "delBm25", bm25, WithoutOld(bm25, r))
    /\ lock' = Release(r)
    /\ Goto(r, "failed")
    /\ UNCHANGED <<docs, chunks, counts, job, crashes>>

-----------------------------------------------------------------------------
(* _write_doc_to_stores: vectors and BM25 first, metadata second.          *)

AddVec(r) ==
    /\ pc[r] = "addVec"
    /\ table' = WithNewVectors(r)
    /\ Goto(r, "addBm25")
    /\ UNCHANGED <<bm25, docs, chunks, counts, lock, job, faults, crashes>>

AddBm25(r) ==
    /\ pc[r] = "addBm25"
    /\ bm25' = WithNewEntries(r)
    /\ Goto(r, "addDoc")
    /\ UNCHANGED <<table, docs, chunks, counts, lock, job, faults, crashes>>

AddDoc(r) ==
    /\ pc[r] = "addDoc"
    /\ docs' = WithoutDoc(job[r].doc)
                 \cup {[id |-> job[r].doc, path |-> job[r].path, size |-> 0]}
    /\ Goto(r, "addChunks")
    /\ UNCHANGED <<table, bm25, chunks, counts, lock, job, faults, crashes>>

AddChunks(r) ==
    /\ pc[r] = "addChunks"
    /\ chunks' = chunks \cup ({job[r].doc} \X (1..job[r].n))
    /\ Goto(r, "setSize")
    /\ UNCHANGED <<table, bm25, docs, counts, lock, job, faults, crashes>>

\* update_chunk_count; a scan adds the file to its tally and goes on.
SetSize(r) ==
    /\ pc[r] = "setSize"
    /\ docs' = {IF x.id = job[r].doc THEN [x EXCEPT !.size = job[r].n] ELSE x : x \in docs}
    /\ IF job[r].op = "scan"
       THEN /\ job' = [job EXCEPT ![r].files = @ + 1, ![r].total = @ + job[r].n]
            /\ Goto(r, "scan")
       ELSE /\ UNCHANGED job
            /\ Goto(r, "count")
    /\ UNCHANGED <<table, bm25, chunks, counts, lock, faults, crashes>>

\* A failed chunk insert rolls back the vectors only.
MetaBegunBug(r) == pc[r] \in {"addDoc", "setSize"}
MetaBegun(r) == pc[r] \in {"addDoc", "addChunks", "setSize"}

\* One of these calls raises: roll back, the metadata too if it was begun.
WriteFails(r) ==
    /\ pc[r] \in {"addVec", "addBm25", "addDoc", "addChunks", "setSize"}
    /\ Fault
    /\ table' \in MayTake(pc[r] = "addVec", table, WithNewVectors(r))
    /\ bm25' \in MayTake(pc[r] = "addBm25", bm25, WithNewEntries(r))
    /\ job' = [job EXCEPT ![r].meta = MetaBegun(r)]
    /\ Goto(r, "rbVec")
    /\ UNCHANGED <<docs, chunks, counts, lock, crashes>>

\* The answer to a failed write: 503 if the rollback failed too, else 500; a
\* scan notes the error and goes on with the next file.
Failure(r, orphan) ==
    IF job[r].op = "scan" THEN "scan" ELSE IF orphan THEN "orphan" ELSE "failed"

RbVec(r) ==
    /\ pc[r] = "rbVec"
    /\ table' = WithoutNew(table, r)
    /\ Goto(r, "rbBm25")
    /\ UNCHANGED <<bm25, docs, chunks, counts, lock, job, faults, crashes>>

RbBm25(r) ==
    /\ pc[r] = "rbBm25"
    /\ bm25' = WithoutNew(bm25, r)
    /\ Goto(r, IF job[r].meta THEN "rbChunks" ELSE Failure(r, job[r].orphan))
    /\ UNCHANGED <<table, docs, chunks, counts, lock, job, faults, crashes>>

RbChunks(r) ==
    /\ pc[r] = "rbChunks"
    /\ chunks' = WithoutChunks(job[r].doc)
    /\ Goto(r, "rbDoc")
    /\ UNCHANGED <<table, bm25, docs, counts, lock, job, faults, crashes>>

RbDoc(r) ==
    /\ pc[r] = "rbDoc"
    /\ docs' = WithoutDoc(job[r].doc)
    /\ chunks' = WithoutChunks(job[r].doc)
    /\ Goto(r, Failure(r, job[r].orphan))
    /\ UNCHANGED <<table, bm25, counts, lock, job, faults, crashes>>

\* A rollback call raises: the rollback of that side ends there.
RollbackFails(r) ==
    /\ pc[r] \in {"rbVec", "rbBm25", "rbChunks", "rbDoc"}
    /\ Fault
    /\ table' \in MayTake(pc[r] = "rbVec", table, WithoutNew(table, r))
    /\ bm25' \in MayTake(pc[r] = "rbBm25", bm25, WithoutNew(bm25, r))
    /\ job' = [job EXCEPT ![r].orphan = TRUE]
    /\ Goto(r, IF pc[r] \in {"rbVec", "rbBm25"} /\ job[r].meta
               THEN "rbChunks" ELSE Failure(r, TRUE))
    /\ UNCHANGED <<docs, chunks, counts, lock, crashes>>

-----------------------------------------------------------------------------
(* Scanning and counting.                                                  *)

\* scan_directory: every file gets a new document, never a lookup.
ScanNext(r) ==
    /\ pc[r] = "scan"
    /\ \/ \E p \in job[r].todo :
            /\ job' = [job EXCEPT ![r].todo = @ \ {p}, ![r].path = p, ![r].doc = <<r, p>>]
            /\ Goto(r, "prepare")
       \/ /\ job[r].todo = {}
          /\ Goto(r, "count")
          /\ UNCHANGED job
    /\ UNCHANGED <<stores, counts, lock, faults, crashes>>

\* A re-ingested file is counted again.
FilesAfterBug(r) ==
    CASE job[r].op = "delete" -> Max0(fileCount - 1)
      [] job[r].op = "scan"   -> fileCount + job[r].files
      [] OTHER                -> fileCount + 1

\* The counter changes of a finished request.
FilesAfter(r) ==
    CASE job[r].op = "delete" -> Max0(fileCount - 1)
      [] job[r].op = "scan"   -> fileCount + job[r].files
      [] OTHER                -> IF job[r].exists THEN fileCount ELSE fileCount + 1

ChunksAfter(r) ==
    CASE job[r].op = "delete" -> Max0(chunkCount - Cardinality(job[r].old))
      [] job[r].op = "scan"   -> chunkCount + job[r].total
      [] OTHER -> IF job[r].exists
                  THEN Max0(chunkCount - Cardinality(job[r].old) + job[r].n)
                  ELSE chunkCount + job[r].n

\* The counters are read, changed and saved under the lock with no await in
\* between; a delete holds the lock already, the others take it for this.
Count(r) ==
    /\ pc[r] = "count"
    /\ lock = IF job[r].op = "delete" THEN r ELSE Free
    /\ fileCount' = FilesAfter(r)
    /\ chunkCount' = ChunksAfter(r)
    /\ lock' = Free
    /\ Goto(r, "ok")
    /\ UNCHANGED <<stores, job, faults, crashes>>

-----------------------------------------------------------------------------
\* The process dies and starts again: every request in progress is cut off,
\* the stores keep what was written, the counters were saved when changed.
Crash ==
    /\ crashes < MaxCrashes
    /\ \E r \in Reqs : Active(r)
    /\ crashes' = crashes + 1
    /\ pc' = [r \in Reqs |-> IF Active(r) THEN "lost" ELSE pc[r]]
    /\ lock' = Free
    /\ UNCHANGED <<stores, counts, job, faults>>

Submit(r) == \/ SubmitIngest(r) \/ SubmitInline(r) \/ SubmitScan(r)
             \/ SubmitDelete(r) \/ SubmitReplace(r)

Step(r) == \/ LookupPath(r) \/ LookupId(r) \/ Prepare(r) \/ PrepareFails(r)
           \/ ReadOld(r) \/ AcquireLock(r)
           \/ DelVec(r) \/ DelBm25(r) \/ DelChunks(r) \/ DelDoc(r) \/ TeardownFails(r)
           \/ AddVec(r) \/ AddBm25(r) \/ AddDoc(r) \/ AddChunks(r) \/ SetSize(r)
           \/ WriteFails(r)
           \/ RbVec(r) \/ RbBm25(r) \/ RbChunks(r) \/ RbDoc(r) \/ RollbackFails(r)
           \/ ScanNext(r) \/ Count(r)

\* The server waits for requests.
Quiet   == \A r \in Reqs : ~Active(r)
Waiting == Quiet /\ UNCHANGED vars

Next == Crash \/ Waiting \/ \E r \in Reqs : Submit(r) \/ Step(r)

Spec == Init /\ [][Next]_vars

\* Every awaited call returns, and asyncio.Lock wakes its waiters in order.
FairSpec == /\ Spec
            /\ \A r \in Reqs : WF_vars(Step(r)) /\ SF_vars(AcquireLock(r) \/ Count(r))

-----------------------------------------------------------------------------
(* Properties.                                                             *)

\* Every variable has its type.
TypeOK ==
    /\ table \subseteq Row
    /\ bm25 \subseteq Row
    /\ docs \subseteq DocRow
    /\ chunks \subseteq ChunkRow
    /\ fileCount \in Nat /\ chunkCount \in Nat
    /\ lock \in Reqs \cup {Free}
    /\ pc \in [Reqs -> {"idle"} \cup Working \cup Answered]
    /\ job \in [Reqs -> Job]
    /\ faults \in 0..MaxFaults /\ crashes \in 0..MaxCrashes

\* The lock is held exactly while a delete is between taking it and its last
\* step: no error path of delete_document leaves it held, and two deletes
\* never tear down at once (routes_docs.py, "lock the KB").
LockHeld ==
    \A r \in Reqs :
        lock = r <=> /\ job[r].op = "delete"
                     /\ pc[r] \in {"delVec", "delBm25", "delChunks", "delDoc", "count"}

\* r is between its first write and the end of its rollback.
Writing(r) == pc[r] \in {"addBm25", "addDoc", "rbVec", "rbBm25", "rbChunks", "rbDoc"}
\* r was cut off, or its answer said that data was left behind.
Reported(r) == pc[r] = "lost" \/ job[r].orphan

\* No vector or BM25 entry outlives its document, unless its writer is still
\* at work, crashed, or answered 503 "orphan data likely durable".
NoOrphanRows ==
    \A x \in table \cup bm25 :
        \/ Known(x.doc)
        \/ x.by \in Reqs /\ Reported(x.by)
        \/ x.by \in Reqs /\ Writing(x.by) /\ job[x.by].doc = x.doc

\* A first ingest answered 500 (not 503) left nothing in any store, and no
\* failed write at all left a row of the version it was writing.
CleanFailure ==
    \A r \in Reqs : pc[r] = "failed" /\ job[r].op # "scan" =>
        /\ \A x \in table \cup bm25 : x.by # r
        /\ job[r].op \in {"ingest", "inline"} /\ ~job[r].exists =>
             ~Known(job[r].doc) /\ ChunkIdx(job[r].doc) = {}

Damaged(r) == pc[r] = "failed" \/ Reported(r)
\* No request is working on the document of this row or left it half done,
\* and none left half done a document that shares its path.
Settled(x) ==
    \A r \in Reqs :
        /\ Active(r) => job[r].doc # x.id
        /\ Damaged(r) => /\ job[r].doc # x.id
                         /\ x.path \notin {job[r].path, job[r].from} \cup job[r].claim

\* A listed document is whole: its chunk rows, its vectors and its BM25
\* entries are those of one version, each chunk once.
DocWhole ==
    \A x \in docs : Settled(x) =>
        LET ids == 1..x.size IN
        /\ ChunkIdx(x.id) = ids
        /\ \E w \in Writers : {y \in table : y.doc = x.id} = Batch(x.id, x.path, w, x.size)
        /\ {y \in bm25 : y.doc = x.id} = {y \in table : y.doc = x.id}

CountsExact == fileCount = Cardinality(docs) /\ chunkCount = Cardinality(chunks)

\* When all requests are answered and none was cut off, reported orphans or
\* failed on an indexed document, the counters agree with the metadata.
CountsAccounted ==
    /\ Quiet
    /\ \A r \in Reqs : /\ ~Reported(r)
                       /\ pc[r] = "failed" => job[r].op # "scan" /\ ~job[r].exists
    => CountsExact

\* No scan and no replacement was about path p: these never look it up.
OnlyIngested(p) == \A r \in Reqs : p \in job[r].claim => job[r].op \in {"ingest", "delete"}

\* One document per file (F-P1-1: "so the path stays unique"), however often the
\* file is indexed and removed.
PathUnique ==
    \A x, y \in docs :
        x.path = y.path /\ x.path \in FilePaths /\ OnlyIngested(x.path) => x = y

\* Removing the old version of one document never takes vectors of another
\* one, whatever paths they share (issue #94), unless an earlier failure left
\* the document without chunk rows.
BystanderKept ==
    [][\A r \in Reqs : pc[r] = "delVec" /\ pc'[r] # "delVec" =>
          \A x \in table \ table' :
             \/ x.doc = job[r].doc
             \/ \E q \in Reqs \ {r} :
                  Damaged(q) /\ (job[q].doc = job[r].doc \/ job[r].doc[1] = q)]_vars

\* What vector searches find of each document, as the promise names it.
Catalog == INSTANCE DocCatalog WITH
    Docs <- DocIds, Versions <- Writers, Places <- Paths, Sizes <- ChunkCounts,
    shown <- [d \in DocIds |-> {x \in table : x.doc = d}]

\* Searches never see two versions of one document mixed, nor part of one.
ShowsWholeVersions == Catalog!Spec

\* Every request is answered.
Answers == \A r \in Reqs : Active(r) ~> ~Active(r)

=============================================================================
