------------------------------ MODULE KbStorage ------------------------------
(***************************************************************************)
(* The storage of one knowledge base id over its life: create and delete   *)
(* (engine/knowledge_base.py), the pools of open handles                   *)
(* (api/app_state.py), checkpoints (api/routes_admin.py), snapshots and    *)
(* rollback (engine/version_manager.py), crashes and restarts.             *)
(*                                                                         *)
(*   kb, meta   the base in the manager's memory and in kb_meta.json: the  *)
(*              number of times the id had been created, 0 for no base     *)
(*   db         metadata.db and its -wal at the storage path               *)
(*   pool, own  the pooled MetadataStore and the files only it still has   *)
(*   vec, bm25  vectors/ and bm25_index.db                                 *)
(*   vpool      the pooled VectorStore                                     *)
(*   snaps      the directories under .snapshots                           *)
(*                                                                         *)
(* A store's content is the set of documents in it.  Handlers without an   *)
(* await are one step, except rollback, which a crash or a store call in   *)
(* a worker thread can interrupt; a document is written as in DocWrite,    *)
(* vectors first, each by one call.                                        *)
(***************************************************************************)
EXTENDS Integers, SequencesExt

CONSTANTS
    MaxDocs,       \* bound: documents written
    MaxSnapshots,  \* bound: snapshots taken
    MaxCreates,    \* bound: times the id is created
    MaxRestarts    \* bound: stops and crashes

ASSUME BoundAssumption == /\ MaxDocs \in Nat /\ MaxSnapshots \in Nat
                          /\ MaxCreates \in Nat /\ MaxRestarts \in Nat

VARIABLES kb, meta, db, pool, own, vec, bm25, vpool, snaps,
          writer,    \* the request that is writing a document: its next step
          rb,        \* the rollback at work, and its next step
          docs,      \* documents written so far, and the base each was written to
          now,       \* history: the documents the answered requests should leave
          folded,    \* history: nothing was written since a checkpoint
          upset,     \* history: a case that StoresAgree leaves out has happened
          creates, taken, restarts

vars == <<kb, meta, db, pool, own, vec, bm25, vpool, snaps, writer, rb, docs, now,
          folded, upset, creates, taken, restarts>>

NoFile  == {-1}   \* the file does not exist
Torn    == {0}    \* a mixture of pages of two histories, or an error
Content == (SUBSET (1..MaxDocs)) \cup {NoFile, Torn}

\* A database file, and the states that the frames in its -wal lead through.
Files   == [main : Content, wal : Seq(Content)]
NoFiles == [main |-> NoFile, wal |-> <<>>]

\* What SQLite reads: it lays the frames of the -wal it finds over the file.
Overlay(main, wal) ==
    IF wal = <<>> THEN main
    ELSE IF main \in Range(wal) THEN Last(wal) ELSE Torn

Snapshot == [main : Content, vec : Content, bm25 : Content, base : 1..MaxCreates,
             counted : Content, at : SUBSET (1..MaxDocs), folded : BOOLEAN]

\* late: a store call that was under way in a worker thread has ended.
NoRollback == [step |-> "none", snap |-> {}, late |-> FALSE]

Init ==
    /\ kb = 0 /\ meta = 0
    /\ db = NoFiles /\ pool = "none" /\ own = NoFiles
    /\ vec = NoFile /\ bm25 = NoFile /\ vpool = "none"
    /\ snaps = {}
    /\ writer = "idle" /\ rb = NoRollback
    /\ docs = <<>> /\ now = {}
    /\ folded = FALSE /\ upset = FALSE
    /\ creates = 0 /\ taken = 0 /\ restarts = 0

-----------------------------------------------------------------------------
(* The pooled metadata connection.                                         *)
(*   "live"   its files are the ones at the path                           *)
(*   "split"  metadata.db was replaced under it; the -wal is still shared  *)
(*   "ghost"  both were removed under it                                   *)

Seen == CASE pool = "ghost" -> own
          [] pool = "split" -> [own EXCEPT !.wal = db.wal]
          [] OTHER          -> db

Docs(c) == IF c = NoFile THEN {} ELSE c

\* The documents that a request lists, and those that it can find.
Listed   == Docs(Overlay(Seen.main, Seen.wal))
Searched == IF vpool = "stale" THEN Torn ELSE Docs(vec)

\* get_meta_store opens, and creates, the database on first use.
Opened == IF pool = "none" /\ db.main = NoFile THEN [main |-> {}, wal |-> <<>>] ELSE db

\* The connection's files become f.
Put(f) ==
    CASE pool = "ghost" -> own' = f /\ UNCHANGED db
      [] pool = "split" -> own' = [own EXCEPT !.main = f.main] /\ db' = [db EXCEPT !.wal = f.wal]
      [] OTHER          -> db' = f /\ UNCHANGED own

\* PRAGMA wal_checkpoint(TRUNCATE).
FoldBug(f) == f
Fold(f) == [main |-> Overlay(f.main, f.wal), wal |-> <<>>]

Committed(f, d) ==
    LET c == Overlay(f.main, f.wal) IN
    IF c = Torn THEN f
    ELSE [f EXCEPT !.wal = (IF @ = <<>> THEN <<c>> ELSE @) \o <<c \cup {d}>>]

\* Ingest opens both handles of the base.
OpenBoth ==
    /\ pool' = IF pool = "none" THEN "live" ELSE pool
    /\ vpool' = IF vpool = "none" THEN "open" ELSE vpool
    /\ vec' = Docs(vec) /\ bm25' = Docs(bm25)

\* Listing documents opens the one, searching the other.
OpenMetadata ==
    /\ kb # 0 /\ rb.step = "none" /\ pool = "none"
    /\ pool' = "live" /\ db' = Opened
    /\ UNCHANGED <<kb, meta, own, vec, bm25, vpool, snaps, writer, rb, docs, now,
                   folded, upset, creates, taken, restarts>>

OpenVectors ==
    /\ kb # 0 /\ rb.step = "none" /\ vpool = "none"
    /\ vpool' = "open" /\ vec' = Docs(vec) /\ bm25' = Docs(bm25)
    /\ UNCHANGED <<kb, meta, db, pool, own, snaps, writer, rb, docs, now, folded,
                   upset, creates, taken, restarts>>

\* SQLite copies the frames of a long -wal into the file of the connection.
AutoFold ==
    /\ pool # "none" /\ Seen.wal # <<>>
    /\ Put([Seen EXCEPT !.main = Overlay(Seen.main, Seen.wal)])
    /\ UNCHANGED <<kb, meta, pool, vec, bm25, vpool, snaps, writer, rb, docs, now,
                   folded, upset, creates, taken, restarts>>

-----------------------------------------------------------------------------
(* Bases.                                                                  *)

\* KnowledgeBaseManager.create; an id that exists is left as it is.
Create ==
    /\ kb = 0 /\ creates < MaxCreates
    /\ creates' = creates + 1
    /\ kb' = creates' /\ meta' = creates'
    /\ UNCHANGED <<db, pool, own, vec, bm25, vpool, snaps, writer, rb, docs, now,
                   folded, upset, taken, restarts>>

\* A handle that stays in the pool after its directory is gone.
EvictedBug == IF vpool = "open" THEN "stale" ELSE vpool
Evicted == "none"

\* kb_meta.json is not removed with the rest.
MetaLeftBug == meta
MetaLeft == 0

\* KnowledgeBaseManager.delete: the VectorStore is closed, the directory is
\* removed, and the pooled MetadataStore is not touched.
Delete ==
    /\ kb # 0 /\ rb.step = "none"
    /\ vpool' = Evicted
    /\ db' = NoFiles /\ vec' = NoFile /\ bm25' = NoFile /\ meta' = MetaLeft
    /\ own' = IF pool = "none" THEN own ELSE Seen
    /\ pool' = IF pool = "none" THEN pool ELSE "ghost"
    /\ kb' = 0
    /\ now' = {} /\ folded' = FALSE
    /\ upset' = (upset \/ pool # "none" \/ writer # "idle")
    /\ UNCHANGED <<snaps, writer, rb, docs, creates, taken, restarts>>

-----------------------------------------------------------------------------
(* Writing a document; the handles are taken from the pools at its start.  *)

StartWrite ==
    /\ kb # 0 /\ rb.step = "none" /\ writer = "idle" /\ Len(docs) < MaxDocs
    /\ OpenBoth
    /\ db' = Opened
    /\ docs' = Append(docs, kb)
    /\ writer' = "vectors"
    /\ UNCHANGED <<kb, meta, own, snaps, rb, now, folded, upset, creates, taken,
                   restarts>>

\* The event loop does not run during a rollback: of the calls of a request
\* only the one at hand can end.
InThread == /\ ~rb.late
            /\ rb' = IF rb.step = "none" THEN rb ELSE [rb EXCEPT !.late = TRUE]

\* add_batch; a backend that was closed connects again, to what is there.
AddVectors ==
    /\ writer = "vectors" /\ InThread
    /\ vec' = Docs(vec) \cup {Len(docs)}
    /\ bm25' = Docs(bm25) \cup {Len(docs)}
    /\ writer' = "metadata" /\ folded' = FALSE
    /\ UNCHANGED <<kb, meta, db, pool, own, vpool, snaps, docs, now, upset,
                   creates, taken, restarts>>

\* The metadata goes where the pooled connection leads; if that cannot be
\* written the vectors are taken back.
AddMetadata ==
    /\ writer = "metadata" /\ InThread
    /\ Put(Committed(Seen, Len(docs)))
    /\ IF Listed = Torn
       THEN /\ vec' = vec \ {Len(docs)} /\ bm25' = bm25 \ {Len(docs)}
            /\ UNCHANGED now
       ELSE /\ now' = IF docs[Len(docs)] = kb THEN now \cup {Len(docs)} ELSE now
            /\ UNCHANGED <<vec, bm25>>
    /\ writer' = "idle" /\ folded' = FALSE
    /\ UNCHANGED <<kb, meta, pool, vpool, snaps, docs, upset, creates, taken,
                   restarts>>

-----------------------------------------------------------------------------
(* Checkpoints and snapshots.                                              *)

Checkpoint ==
    /\ kb # 0 /\ rb.step = "none"
    /\ OpenBoth
    /\ IF pool = "none" THEN db' = Fold(Opened) /\ UNCHANGED own ELSE Put(Fold(Seen))
    /\ folded' = (writer # "metadata" /\ ~upset)
    /\ UNCHANGED <<kb, meta, snaps, writer, rb, docs, now, upset, creates, taken,
                   restarts>>

\* create_snapshot copies the three artifacts that are there, each without
\* its -wal, and counts the rows through a connection that reads the -wal.
TakeSnapshot ==
    /\ kb # 0 /\ rb.step = "none" /\ taken < MaxSnapshots
    /\ taken' = taken + 1
    /\ snaps' = snaps \cup {[main |-> db.main, vec |-> vec, bm25 |-> bm25, base |-> kb,
                            counted |-> Docs(Overlay(db.main, db.wal)),
                            at |-> now, folded |-> folded]}
    /\ UNCHANGED <<kb, meta, db, pool, own, vec, bm25, vpool, writer, rb, docs, now,
                   folded, upset, creates, restarts>>

DeleteSnapshot ==
    /\ kb # 0 /\ rb.step = "none"
    /\ \E s \in snaps : s.base = kb /\ snaps' = snaps \ {s}
    /\ UNCHANGED <<kb, meta, db, pool, own, vec, bm25, vpool, writer, rb, docs, now,
                   folded, upset, creates, taken, restarts>>

Whole(s) == s.main = s.at /\ s.vec = s.at /\ s.bm25 = s.at

\* rollback closes the pooled VectorStore, then restores one artifact after
\* the other; one that the snapshot lacks is left as it is.
StartRollback ==
    /\ kb # 0 /\ rb.step = "none"
    /\ \E s \in snaps :
          /\ s.base = kb
          /\ rb' = [step |-> IF s.vec = NoFile THEN "metadata" ELSE "clear",
                    snap |-> {s}, late |-> FALSE]
          /\ upset' = (upset \/ ~Whole(s) \/ pool # "none" \/ db.wal # <<>>
                             \/ writer # "idle")
    /\ vpool' = Evicted
    /\ folded' = FALSE
    /\ UNCHANGED <<kb, meta, db, pool, own, vec, bm25, snaps, writer, docs, now,
                   creates, taken, restarts>>

\* _restore_artifact of a directory removes the live one, ...
ClearVectors ==
    /\ rb.step = "clear"
    /\ vec' = NoFile
    /\ rb' = [rb EXCEPT !.step = "place"]
    /\ UNCHANGED <<kb, meta, db, pool, own, bm25, vpool, snaps, writer, docs, now,
                   folded, upset, creates, taken, restarts>>

\* ... and moves the copy in its place, which fails if it is there again.
PlaceVectors ==
    /\ rb.step = "place"
    /\ \E s \in rb.snap :
          IF vec = NoFile THEN vec' = s.vec /\ rb' = [rb EXCEPT !.step = "metadata"]
                          ELSE UNCHANGED vec /\ rb' = NoRollback
    /\ UNCHANGED <<kb, meta, db, pool, own, bm25, vpool, snaps, writer, docs, now,
                   folded, upset, creates, taken, restarts>>

\* A new metadata.db: the -wal stays, and so does an open connection.
PlaceMetadata ==
    /\ rb.step = "metadata"
    /\ \E s \in rb.snap :
          IF s.main = NoFile THEN UNCHANGED <<db, pool, own>>
          ELSE /\ db' = [db EXCEPT !.main = s.main]
               /\ pool' = IF pool = "live" THEN "split" ELSE pool
               /\ own' = IF pool = "live" THEN [main |-> db.main, wal |-> <<>>] ELSE own
    /\ rb' = [rb EXCEPT !.step = "bm25"]
    /\ UNCHANGED <<kb, meta, vec, bm25, vpool, snaps, writer, docs, now, folded,
                   upset, creates, taken, restarts>>

\* The last artifact; the rollback answers that it succeeded.
PlaceBm25 ==
    /\ rb.step = "bm25"
    /\ \E s \in rb.snap :
          /\ bm25' = IF s.bm25 = NoFile THEN bm25 ELSE s.bm25
          /\ now' = s.at
    /\ rb' = NoRollback
    /\ UNCHANGED <<kb, meta, db, pool, own, vec, vpool, snaps, writer, docs, folded,
                   upset, creates, taken, restarts>>

-----------------------------------------------------------------------------
(* The process stops and starts again, which loads kb_meta.json.  When it  *)
(* is killed the -wal stays; when it ends the interpreter may close the    *)
(* connection, which folds the -wal if the file is still the one at the    *)
(* path.                                                                   *)

Closed == IF pool = "live" THEN Fold(db) ELSE db

Restart ==
    /\ restarts < MaxRestarts
    /\ restarts' = restarts + 1
    /\ kb' = meta
    /\ db' \in {db, Closed}
    /\ pool' = "none" /\ own' = NoFiles /\ vpool' = "none"
    /\ writer' = "idle" /\ rb' = NoRollback
    /\ upset' = (upset \/ writer = "metadata" \/ rb.step # "none")
    /\ UNCHANGED <<meta, vec, bm25, snaps, docs, now, folded, creates, taken>>

Next ==
    \/ OpenMetadata \/ OpenVectors \/ AutoFold \/ Create \/ Delete
    \/ StartWrite \/ AddVectors \/ AddMetadata
    \/ Checkpoint \/ TakeSnapshot \/ DeleteSnapshot
    \/ StartRollback \/ ClearVectors \/ PlaceVectors \/ PlaceMetadata \/ PlaceBm25
    \/ Restart

Spec == Init /\ [][Next]_vars

-----------------------------------------------------------------------------
(* Properties.                                                             *)

\* Every variable has its type; the manager and kb_meta.json agree, and files
\* that only a connection has belong to a pooled one.
TypeOK ==
    /\ kb \in 0..MaxCreates /\ meta = kb
    /\ db \in Files /\ own \in Files
    /\ pool \in {"none", "live", "split", "ghost"}
    /\ pool \in {"none", "live"} => own = NoFiles
    /\ vec \in Content /\ bm25 \in Content
    /\ vpool \in {"none", "open", "stale"}
    /\ snaps \subseteq Snapshot
    /\ writer \in {"idle", "vectors", "metadata"}
    /\ rb.step \in {"none", "clear", "place", "metadata", "bm25"} /\ rb.snap \subseteq snaps
    /\ docs \in Seq(1..MaxCreates) /\ now \subseteq DOMAIN docs
    /\ creates \in 0..MaxCreates /\ taken \in 0..MaxSnapshots /\ restarts \in 0..MaxRestarts

\* Between two requests every store of a base holds exactly the documents of
\* the answered writes and of the last rollback: through the handles in the
\* pools, across checkpoints, kills and restarts, deletes and rollbacks.  Left
\* out: a delete or rollback while the metadata is open, has a -wal or is being
\* written, a rollback to a snapshot that lacks a part, and a kill in the
\* middle of a write or a rollback.
StoresAgree ==
    kb # 0 /\ ~upset /\ writer = "idle" /\ rb.step = "none" =>
        Listed = now /\ Searched = now /\ Docs(bm25) = now

\* "Run it, then snapshot": a snapshot taken when nothing was written since a
\* checkpoint has every artifact, with all documents, and its record counts them.
CheckpointedSnapshot == \A s \in snaps : s.folded => Whole(s) /\ s.counted = Docs(s.main)

\* "Delete a knowledge base and all its data": a base lists no document that
\* was written to an earlier base of the same id.
NothingFromBefore == kb # 0 => \A d \in Listed \cap DOMAIN docs : docs[d] = kb

RolledBack == rb.step = "bm25" /\ rb'.step = "none" /\ restarts' = restarts

\* "evict the pool entry first so the next request reopens the restored data":
\* once a rollback to a complete snapshot has succeeded, requests list it.
RollbackServed ==
    [][RolledBack /\ (\A s \in rb.snap : Whole(s)) => Listed' = now']_vars
=============================================================================
