-------------------------- MODULE KbStorage_proofs --------------------------
(***************************************************************************)
(* The stores of a knowledge base id over its life, for any number of      *)
(* documents, snapshots, creations and restarts.  From one inductive       *)
(* invariant, KbInv:                                                       *)
(*   - between requests the stores agree              (StoresAgreeCorrect) *)
(*   - a snapshot after a checkpoint is complete      (CheckpointedCorrect)*)
(*                                                                         *)
(* The argument: as long as nothing that StoresAgree leaves out happened   *)
(* (upset), no connection has files that are not those at the path; what   *)
(* is read through the -wal is what was answered (Serving), and a rollback *)
(* is alone with the files and works from a whole snapshot (Restoring).    *)
(* Folds and commits change what is read in the ways that FoldReads and    *)
(* CommitReads say.                                                        *)
(***************************************************************************)
EXTENDS KbStorage, SequenceTheorems, TLAPS

-----------------------------------------------------------------------------
(* The parts of the invariant.                                             *)

Texts == SUBSET (1..MaxDocs)
Copy  == Texts \cup {NoFile}

\* TypeOK, and the shapes it leaves open: frames are never torn, a copied
\* index was never one, and what is written has a document.
Shapes ==
    /\ TypeOK
    /\ db.wal \in Seq(Texts) /\ own.wal \in Seq(Texts)
    /\ vec \in Copy /\ bm25 \in Copy /\ vpool # "stale"
    /\ \A s \in snaps : s.vec \in Copy /\ s.bm25 \in Copy /\ s.at \subseteq DOMAIN docs
    /\ Len(docs) <= MaxDocs
    /\ writer # "idle" => docs # <<>> /\ pool # "none"
    /\ rb \in [step : {"none", "clear", "place", "metadata", "bm25"},
               snap : SUBSET Snapshot, late : BOOLEAN]
    /\ rb.step = "none" => rb.snap = {}
    /\ folded \in BOOLEAN

\* A -wal lies beside a database, and every connection has one.
OnDisk ==
    /\ db.main = NoFile => db.wal = <<>>
    /\ pool \in {"live", "split"} => db.main # NoFile
    /\ pool \in {"split", "ghost"} => own.main # NoFile

Stored(S) == Docs(vec) = S /\ Docs(bm25) = S

\* There is no base, and nothing of one.
Nothing == /\ db = NoFiles /\ vec = NoFile /\ bm25 = NoFile /\ now = {}
           /\ pool = "none" /\ writer = "idle" /\ rb.step = "none"

\* The stores hold the documents of the answered writes, and as far as it got
\* the one that is written.
Serving == /\ Docs(Overlay(db.main, db.wal)) = now
           /\ writer # "metadata" => Stored(now)
           /\ writer = "metadata" => Stored(now \cup {Len(docs)})
           /\ writer # "idle" => docs[Len(docs)] = kb

\* A rollback is alone with the files, and has brought back some of them.
Restoring == /\ kb # 0 /\ pool = "none" /\ db.wal = <<>> /\ writer = "idle"
             /\ \E s \in Snapshot :
                  /\ rb.snap = {s} /\ Whole(s)
                  /\ rb.step = "place" => vec = NoFile
                  /\ rb.step \in {"metadata", "bm25"} => vec = s.at
                  /\ rb.step = "bm25" => db.main = s.at

Agreed == ~upset =>
    /\ pool \in {"none", "live"}
    /\ kb = 0 => Nothing
    /\ kb # 0 /\ rb.step = "none" => Serving
    /\ rb.step # "none" => Restoring

\* What a checkpoint brings about lasts until the next write.
Folded == folded =>
    /\ kb # 0 /\ ~upset /\ writer # "metadata" /\ rb.step = "none"
    /\ db = [main |-> now, wal |-> <<>>] /\ vec = now /\ bm25 = now

KbInv == Shapes /\ OnDisk /\ Agreed /\ Folded /\ CheckpointedSnapshot

-----------------------------------------------------------------------------
(* What SQLite reads.                                                      *)

\* A document set is neither of the two special contents.
LEMMA Special ==
    /\ NoFile \notin Texts /\ Torn \notin Texts /\ NoFile # Torn
    /\ NoFile \in Content /\ Torn \in Content /\ Texts \subseteq Content /\ {} \in Texts
<1>1. -1 \notin 1..MaxDocs /\ 0 \notin 1..MaxDocs /\ {-1} # {0}
    BY BoundAssumption
<1> QED BY <1>1 DEF NoFile, Torn, Texts, Content

\* The last frame is one of the frames.
LEMMA LastFrame ==
    ASSUME NEW wal \in Seq(Texts), wal # <<>>
    PROVE  Last(wal) \in Range(wal) /\ Last(wal) \in Texts
<1>1. Len(wal) \in 1..Len(wal) /\ DOMAIN wal = 1..Len(wal)
    BY EmptySeq, LenProperties
<1> QED BY <1>1, ElementOfSeq DEF Last, Range

\* Frames hold documents.
LEMMA FramesAreTexts ==
    ASSUME NEW wal \in Seq(Texts), NEW c \in Range(wal)
    PROVE  c \in Texts
BY ElementOfSeq, LenProperties DEF Range

\* A reader finds a content.
LEMMA OverlayType ==
    ASSUME NEW main \in Content, NEW wal \in Seq(Texts)
    PROVE  Overlay(main, wal) \in Content /\ Docs(Overlay(main, wal)) \in Content
<1>1. Overlay(main, wal) \in Content
    BY LastFrame, Special DEF Overlay
<1> QED BY <1>1, Special DEF Docs

\* A fold does not change what is read.
LEMMA FoldReads ==
    ASSUME NEW main \in Content, NEW wal \in Seq(Texts)
    PROVE  /\ Overlay(Overlay(main, wal), <<>>) = Overlay(main, wal)
           /\ Overlay(Overlay(main, wal), wal) = Overlay(main, wal)
<1>1. CASE wal = <<>>
    BY <1>1 DEF Overlay
<1>2. CASE wal # <<>> /\ main \in Range(wal)
    BY <1>2, LastFrame DEF Overlay
<1>3. CASE wal # <<>> /\ main \notin Range(wal)
  <2>1. Torn \notin Range(wal)
      BY FramesAreTexts, Special
  <2> QED BY <1>3, <2>1 DEF Overlay
<1> QED BY <1>1, <1>2, <1>3

\* A commit adds one document to what is read, unless that is torn.
LEMMA CommitReads ==
    ASSUME NEW f \in Files, f.wal \in Seq(Texts), f.main # NoFile, NEW d \in 1..MaxDocs
    PROVE  /\ Committed(f, d) \in Files /\ Committed(f, d).wal \in Seq(Texts)
           /\ Committed(f, d).main = f.main
           /\ Overlay(f.main, f.wal) # Torn =>
                /\ Overlay(f.main, f.wal) \in Texts
                /\ Overlay(Committed(f, d).main, Committed(f, d).wal)
                      = Overlay(f.main, f.wal) \cup {d}
<1>0. PICK c : c = Overlay(f.main, f.wal)
    OBVIOUS
<1>g. PICK g : g = Committed(f, d)
    OBVIOUS
<1> SUFFICES /\ g \in Files /\ g.wal \in Seq(Texts) /\ g.main = f.main
             /\ c # Torn => Overlay(g.main, g.wal) = c \cup {d} /\ c \in Texts
    BY <1>0, <1>g
<1>1. CASE c = Torn
    BY <1>0, <1>g, <1>1 DEF Committed
<1>2. CASE c # Torn
  <2> DEFINE old == IF f.wal = <<>> THEN <<c>> ELSE f.wal
             new == old \o <<c \cup {d}>>
  <2>1. f.main \in Content
      BY DEF Files
  <2>2. c \in Texts
    <3>1. CASE f.wal = <<>>
        BY <1>0, <1>2, <2>1, <3>1 DEF Overlay, Content, Texts
    <3>2. CASE f.wal # <<>>
        BY <1>0, <1>2, <3>2, LastFrame DEF Overlay
    <3> QED BY <3>1, <3>2
  <2>3. c \cup {d} \in Texts
      BY <2>2 DEF Texts
  <2>4. old \in Seq(Texts) /\ <<c \cup {d}>> \in Seq(Texts) /\ Len(<<c \cup {d}>>) = 1
      BY <2>2, <2>3
  <2>5. f.main \in Range(old)
    <3>1. CASE f.wal = <<>>
      <4>1. f.main = c /\ old = <<c>>
          BY <1>0, <3>1 DEF Overlay
      <4> QED BY <4>1 DEF Range
    <3>2. CASE f.wal # <<>>
        BY <1>0, <1>2, <3>2 DEF Overlay
    <3> QED BY <3>1, <3>2
  <2>6. /\ new \in Seq(Texts) /\ Len(new) = Len(old) + 1
        /\ \A i \in 1..Len(old) : new[i] = old[i]
        /\ new[Len(new)] = c \cup {d}
    <3>1. /\ Len(new) = Len(old) + 1 /\ new \in Seq(Texts)
          /\ \A i \in 1..Len(new) : new[i] = IF i <= Len(old) THEN old[i]
                                             ELSE <<c \cup {d}>>[i - Len(old)]
        BY <2>4, ConcatProperties
    <3>2. Len(old) \in Nat
        BY <2>4, LenProperties
    <3>3. <<c \cup {d}>>[Len(new) - Len(old)] = c \cup {d}
        BY <3>1, <3>2
    <3> HIDE DEF new, old
    <3> QED BY <3>1, <3>2, <3>3
  <2>7. f.main \in Range(new) /\ new # <<>>
    <3>1. PICK i \in 1..Len(old) : old[i] = f.main
        BY <2>4, <2>5, LenProperties DEF Range
    <3>2. Len(old) \in Nat /\ DOMAIN new = 1..Len(new)
        BY <2>4, <2>6, LenProperties
    <3>3. i \in DOMAIN new /\ new[i] = f.main
        BY <2>6, <3>1, <3>2
    <3> HIDE DEF new, old
    <3> QED BY <2>6, <3>1, <3>3 DEF Range
  <2>8. g = [f EXCEPT !.wal = new]
      BY <1>0, <1>g, <1>2 DEF Committed
  <2>9. new \in Seq(Content)
      BY <2>6, Special, SeqMonotonic
  <2> HIDE DEF new, old
  <2>10. Overlay(f.main, new) = c \cup {d}
      BY <2>6, <2>7 DEF Overlay, Last
  <2>11. g \in Files /\ g.main = f.main /\ g.wal = new
      BY <2>8, <2>9 DEF Files
  <2> QED BY <1>2, <2>2, <2>6, <2>10, <2>11
<1> QED BY <1>1, <1>2

-----------------------------------------------------------------------------
(* The pooled connection.                                                  *)

\* The files a connection has.
LEMMA SeenType ==
    ASSUME Shapes, OnDisk
    PROVE  /\ Seen \in Files /\ Seen.wal \in Seq(Texts)
           /\ pool # "none" => Seen.main # NoFile
           /\ pool \in {"none", "live"} => Seen = db
           /\ pool = "split" => Seen.main = own.main /\ Seen.wal = db.wal
           /\ pool = "ghost" => Seen = own
<1>1. pool \in {"none", "live", "split", "ghost"} /\ db \in Files /\ own \in Files
    BY DEF Shapes, TypeOK
<1> QED BY <1>1 DEF Seen, Shapes, OnDisk, Files

\* Writing through a connection keeps its files of the right shape.
LEMMA PutKeeps ==
    ASSUME Shapes, OnDisk, NEW f \in Files, f.wal \in Seq(Texts), f.main # NoFile, Put(f),
           pool # "none"
    PROVE  /\ db' \in Files /\ own' \in Files /\ db'.wal \in Seq(Texts) /\ own'.wal \in Seq(Texts)
           /\ pool = "live" => db' = f /\ own' = own
           /\ db'.main = NoFile => db'.wal = <<>>
           /\ pool \in {"live", "split"} => db'.main # NoFile
           /\ pool \in {"split", "ghost"} => own'.main # NoFile
<1>1. pool \in {"live", "split", "ghost"} /\ db \in Files /\ own \in Files
      /\ db.wal \in Seq(Texts) /\ own.wal \in Seq(Texts)
    BY DEF Shapes, TypeOK
<1>2. CASE pool = "live"
    BY <1>1, <1>2 DEF Put, OnDisk
<1>3. CASE pool = "split"
    BY <1>1, <1>3 DEF Put, OnDisk, Files
<1>4. CASE pool = "ghost"
    BY <1>1, <1>4 DEF Put, OnDisk
<1> QED BY <1>1, <1>2, <1>3, <1>4

\* A folded database has no -wal.
LEMMA FoldType ==
    ASSUME NEW f \in Files, f.wal \in Seq(Texts)
    PROVE  /\ Fold(f) \in Files /\ Fold(f).wal = <<>> /\ Fold(f).wal \in Seq(Texts)
           /\ Fold(f).main = Overlay(f.main, f.wal)
           /\ f.main # NoFile => Fold(f).main # NoFile
<1>1. f.main \in Content
    BY DEF Files
<1>2. Overlay(f.main, f.wal) \in Content
    BY <1>1, OverlayType
<1>3. f.main # NoFile => Overlay(f.main, f.wal) # NoFile
    BY LastFrame, Special DEF Overlay
<1> QED BY <1>2, <1>3 DEF Fold, Files

\* The database that a request finds, or creates.
LEMMA OpenedType ==
    ASSUME Shapes, OnDisk
    PROVE  /\ Opened \in Files /\ Opened.wal \in Seq(Texts)
           /\ pool \in {"none", "live"} => Opened.main # NoFile
           /\ pool # "none" => Opened = db
           /\ db.main # NoFile => Opened = db
           /\ Docs(Overlay(Opened.main, Opened.wal)) = Docs(Overlay(db.main, db.wal))
<1>1. db \in Files /\ db.wal \in Seq(Texts)
    BY DEF Shapes, TypeOK
<1>2. CASE pool = "none" /\ db.main = NoFile
  <2>1. Opened = [main |-> {}, wal |-> <<>>] /\ db.wal = <<>>
      BY <1>2 DEF Opened, OnDisk
  <2>2. Docs({}) = {} /\ Docs(NoFile) = {}
      BY Special DEF Docs
  <2>3. <<>> \in Seq(Texts) /\ <<>> \in Seq(Content)
      BY EmptySeq
  <2>4. Opened \in Files /\ Opened.main = {} /\ Opened.wal = <<>>
      BY <2>1, <2>3, Special DEF Files
  <2> QED BY <1>2, <2>1, <2>2, <2>3, <2>4, Special DEF Overlay
<1>3. CASE ~(pool = "none" /\ db.main = NoFile)
    BY <1>1, <1>3 DEF Opened, OnDisk
<1> QED BY <1>2, <1>3

-----------------------------------------------------------------------------
(* Shapes are kept.                                                        *)

\* The number of documents is the number of the last one.
LEMMA LastDocument ==
    ASSUME Shapes
    PROVE  /\ Len(docs) \in 0..MaxDocs /\ DOMAIN docs = 1..Len(docs)
           /\ writer # "idle" => Len(docs) \in 1..MaxDocs /\ Len(docs) \in DOMAIN docs
                                 /\ docs[Len(docs)] \in 1..MaxCreates
<1>1. docs \in Seq(1..MaxCreates) /\ Len(docs) <= MaxDocs
    BY DEF Shapes, TypeOK
<1>2. Len(docs) \in Nat /\ DOMAIN docs = 1..Len(docs) /\ (docs # <<>> => Len(docs) # 0)
    BY <1>1, LenProperties, EmptySeq
<1>3. writer # "idle" => Len(docs) \in 1..Len(docs)
    BY <1>2 DEF Shapes
<1> QED BY <1>1, <1>2, <1>3, ElementOfSeq, BoundAssumption

\* What the pool of vector stores and the indexes look like once opened.
LEMMA OpenedIndexes ==
    ASSUME Shapes, OpenBoth
    PROVE  /\ vec' \in Copy /\ bm25' \in Copy /\ vec' \in Content /\ bm25' \in Content
           /\ vpool' \in {"none", "open", "stale"} /\ vpool' # "stale"
           /\ pool' = IF pool = "none" THEN "live" ELSE pool
           /\ vec' = Docs(vec) /\ bm25' = Docs(bm25)
BY Special DEF OpenBoth, Shapes, TypeOK, Docs, Copy

\* Types, and files beside a connection.
LEMMA ShapesStep ==
    ASSUME Shapes, OnDisk, Next
    PROVE  Shapes' /\ OnDisk'
<1>1. ASSUME OpenMetadata PROVE Shapes' /\ OnDisk'
    BY <1>1, OpenedType DEF OpenMetadata, Shapes, TypeOK, OnDisk
<1>2. ASSUME OpenVectors PROVE Shapes' /\ OnDisk'
    BY <1>2, Special DEF OpenVectors, Shapes, TypeOK, OnDisk, Docs, Copy
<1>3. ASSUME AutoFold PROVE Shapes' /\ OnDisk'
  <2> DEFINE f == [Seen EXCEPT !.main = Overlay(Seen.main, Seen.wal)]
  <2>1. Seen \in Files /\ Seen.wal \in Seq(Texts) /\ Seen.main \in Content
      BY SeenType DEF Files
  <2>2. f \in Files /\ f.wal \in Seq(Texts) /\ f.main # NoFile
    <3>1. Overlay(Seen.main, Seen.wal) \in Content /\ Overlay(Seen.main, Seen.wal) # NoFile
        BY <1>3, <2>1, OverlayType, LastFrame, Special DEF AutoFold, Overlay
    <3> QED BY <2>1, <3>1 DEF Files
  <2>3. Put(f) /\ pool # "none"
      BY <1>3 DEF AutoFold
  <2> HIDE DEF f
  <2>4. UNCHANGED <<kb, meta, pool, vec, bm25, vpool, snaps, writer, rb, docs, now,
                   folded, upset, creates, taken, restarts>>
      BY <1>3 DEF AutoFold
  <2>5. pool = "live" => own' = own
      BY <2>2, <2>3, PutKeeps
  <2>6. /\ db' \in Files /\ own' \in Files /\ db'.wal \in Seq(Texts) /\ own'.wal \in Seq(Texts)
        /\ db'.main = NoFile => db'.wal = <<>>
        /\ pool \in {"live", "split"} => db'.main # NoFile
        /\ pool \in {"split", "ghost"} => own'.main # NoFile
      BY <2>2, <2>3, PutKeeps
  <2> QED BY <2>3, <2>4, <2>5, <2>6 DEF Shapes, TypeOK, OnDisk
<1>4. ASSUME Create PROVE Shapes' /\ OnDisk'
    BY <1>4, BoundAssumption DEF Create, Shapes, TypeOK, OnDisk
<1>5. ASSUME Delete PROVE Shapes' /\ OnDisk'
  <2>1. NoFiles \in Files /\ NoFiles.wal \in Seq(Texts) /\ NoFiles.wal = <<>>
      BY Special, EmptySeq DEF NoFiles, Files
  <2>2. Seen \in Files /\ Seen.wal \in Seq(Texts) /\ (pool # "none" => Seen.main # NoFile)
      BY SeenType
  <2>3. folded' = FALSE /\ vpool' = "none" /\ vec' = NoFile /\ bm25' = NoFile
        /\ now' = {} /\ kb' = 0 /\ meta' = 0
      BY <1>5 DEF Delete, Evicted, MetaLeft
  <2>4. /\ db' \in Files /\ own' \in Files /\ db'.wal \in Seq(Texts) /\ own'.wal \in Seq(Texts)
        /\ pool' \in {"none", "live", "split", "ghost"}
        /\ pool' \in {"none", "live"} => own' = NoFiles
        /\ pool = "none" <=> pool' = "none"
        /\ OnDisk'
      BY <1>5, <2>1, <2>2 DEF Delete, Shapes, TypeOK, OnDisk
  <2>5. UNCHANGED <<snaps, writer, rb, docs, creates, taken, restarts>>
      BY <1>5 DEF Delete
  <2>6. TypeOK'
      BY <2>3, <2>4, <2>5, Special, BoundAssumption DEF Shapes, TypeOK
  <2>7. vec' \in Copy /\ bm25' \in Copy /\ vpool' # "stale" /\ folded' \in BOOLEAN
      BY <2>3 DEF Copy
  <2> QED BY <2>4, <2>5, <2>6, <2>7 DEF Shapes
<1>6. ASSUME StartWrite PROVE Shapes' /\ OnDisk'
  <2>1. docs \in Seq(1..MaxCreates) /\ kb \in 1..MaxCreates /\ Len(docs) < MaxDocs
      BY <1>6 DEF StartWrite, Shapes, TypeOK
  <2>2. /\ docs' \in Seq(1..MaxCreates) /\ Len(docs') = Len(docs) + 1
        /\ DOMAIN docs' = 1..Len(docs') /\ DOMAIN docs \subseteq DOMAIN docs'
        /\ docs' # <<>> /\ Len(docs') <= MaxDocs
    <3>1. docs' = Append(docs, kb)
        BY <1>6 DEF StartWrite
    <3>2. docs' \in Seq(1..MaxCreates) /\ Len(docs') = Len(docs) + 1
        BY <2>1, <3>1, AppendProperties
    <3>3. Len(docs) \in Nat /\ DOMAIN docs = 1..Len(docs) /\ DOMAIN docs' = 1..Len(docs')
        BY <2>1, <3>2, LenProperties
    <3>4. docs' # <<>>
        BY <3>2, <3>3, EmptySeq
    <3> QED BY <2>1, <3>2, <3>3, <3>4, BoundAssumption
  <2>3. OpenBoth /\ db' = Opened /\ writer' = "vectors"
        /\ UNCHANGED <<kb, meta, own, snaps, rb, now, folded, upset, creates, taken, restarts>>
      BY <1>6 DEF StartWrite
  <2> QED BY <2>2, <2>3, OpenedIndexes, OpenedType DEF Shapes, TypeOK, OnDisk
<1>7. ASSUME AddVectors PROVE Shapes' /\ OnDisk'
  <2>1. Len(docs) \in 1..MaxDocs
      BY <1>7, LastDocument DEF AddVectors
  <2>2. vec' \in Copy /\ bm25' \in Copy /\ vec' \in Content /\ bm25' \in Content
      BY <1>7, <2>1, Special DEF AddVectors, Shapes, Docs, Copy, Texts
  <2>3. /\ rb' \in [step : {"none", "clear", "place", "metadata", "bm25"},
                    snap : SUBSET Snapshot, late : BOOLEAN]
        /\ rb'.step = rb.step /\ rb'.snap = rb.snap
      BY <1>7 DEF AddVectors, InThread, Shapes
  <2> QED BY <1>7, <2>2, <2>3 DEF AddVectors, Shapes, TypeOK, OnDisk
<1>8. ASSUME AddMetadata PROVE Shapes' /\ OnDisk'
  <2> DEFINE g == Committed(Seen, Len(docs))
  <2>1. Len(docs) \in 1..MaxDocs /\ Len(docs) \in DOMAIN docs /\ pool # "none"
      BY <1>8, LastDocument DEF AddMetadata, Shapes
  <2>2. Seen \in Files /\ Seen.wal \in Seq(Texts) /\ Seen.main # NoFile
      BY <2>1, SeenType
  <2>3. g \in Files /\ g.wal \in Seq(Texts) /\ g.main # NoFile
      BY <2>1, <2>2, CommitReads
  <2>4. Put(g)
      BY <1>8 DEF AddMetadata
  <2>5. /\ vec' \in Copy /\ bm25' \in Copy /\ vec' \in Content /\ bm25' \in Content
        /\ now' \subseteq DOMAIN docs
    <3>1. \A c \in Copy : c \ {Len(docs)} \in Copy
      <4>1. NoFile \ {Len(docs)} = NoFile
          BY <2>1 DEF NoFile
      <4> QED BY <4>1 DEF Copy, Texts
    <3>2. vec' \in Copy /\ bm25' \in Copy
        BY <1>8, <3>1 DEF AddMetadata, Shapes
    <3>3. now' \subseteq DOMAIN docs
        BY <1>8, <2>1 DEF AddMetadata, Shapes, TypeOK
    <3> QED BY <3>2, <3>3, Special DEF Copy
  <2>6. /\ rb' \in [step : {"none", "clear", "place", "metadata", "bm25"},
                    snap : SUBSET Snapshot, late : BOOLEAN]
        /\ rb'.step = rb.step /\ rb'.snap = rb.snap
      BY <1>8 DEF AddMetadata, InThread, Shapes
  <2>7. /\ db' \in Files /\ own' \in Files /\ db'.wal \in Seq(Texts) /\ own'.wal \in Seq(Texts)
        /\ pool = "live" => own' = own
        /\ db'.main = NoFile => db'.wal = <<>>
        /\ pool \in {"live", "split"} => db'.main # NoFile
        /\ pool \in {"split", "ghost"} => own'.main # NoFile
      BY <2>1, <2>3, <2>4, PutKeeps
  <2>8. writer' = "idle" /\ folded' = FALSE /\ UNCHANGED <<kb, meta, pool, vpool, snaps, docs, creates, taken, restarts>>
      BY <1>8 DEF AddMetadata
  <2> QED BY <2>1, <2>5, <2>6, <2>7, <2>8 DEF Shapes, TypeOK, OnDisk
<1>9. ASSUME Checkpoint PROVE Shapes' /\ OnDisk'
  <2>1. OpenBoth /\ UNCHANGED <<kb, meta, snaps, writer, rb, docs, now, creates, taken, restarts>>
      BY <1>9 DEF Checkpoint
  <2>0. folded' \in BOOLEAN
      BY <1>9 DEF Checkpoint
  <2>2. CASE pool = "none"
    <3>1. db' = Fold(Opened) /\ own' = own
        BY <1>9, <2>2 DEF Checkpoint
    <3>2. Opened \in Files /\ Opened.wal \in Seq(Texts) /\ Opened.main # NoFile
        BY <2>2, OpenedType
    <3>3. db' \in Files /\ db'.wal \in Seq(Texts) /\ db'.main # NoFile
        BY <3>1, <3>2, FoldType
    <3> QED BY <2>1, <2>2, <2>0, <3>1, <3>3, OpenedIndexes DEF Shapes, TypeOK, OnDisk
  <2>3. CASE pool # "none"
    <3>1. Put(Fold(Seen))
        BY <1>9, <2>3 DEF Checkpoint
    <3>2. Seen \in Files /\ Seen.wal \in Seq(Texts) /\ Seen.main # NoFile
        BY <2>3, SeenType
    <3>3. Fold(Seen) \in Files /\ Fold(Seen).wal \in Seq(Texts) /\ Fold(Seen).main # NoFile
        BY <3>2, FoldType
    <3>4. /\ db' \in Files /\ own' \in Files /\ db'.wal \in Seq(Texts) /\ own'.wal \in Seq(Texts)
          /\ pool = "live" => own' = own
          /\ db'.main = NoFile => db'.wal = <<>>
          /\ pool \in {"live", "split"} => db'.main # NoFile
          /\ pool \in {"split", "ghost"} => own'.main # NoFile
        BY <2>3, <3>1, <3>3, PutKeeps
    <3> QED BY <2>1, <2>3, <2>0, <3>4, OpenedIndexes DEF Shapes, TypeOK, OnDisk
  <2> QED BY <2>2, <2>3
<1>10. ASSUME TakeSnapshot PROVE Shapes' /\ OnDisk'
  <2> DEFINE s == [main |-> db.main, vec |-> vec, bm25 |-> bm25, base |-> kb,
                   counted |-> Docs(Overlay(db.main, db.wal)), at |-> now, folded |-> folded]
  <2>1. snaps' = snaps \cup {s}
      BY <1>10 DEF TakeSnapshot
  <2>2. db.main \in Content /\ db.wal \in Seq(Texts) /\ kb \in 1..MaxCreates
      BY <1>10 DEF TakeSnapshot, Shapes, TypeOK, Files
  <2>3. Docs(Overlay(db.main, db.wal)) \in Content
      BY <2>2, OverlayType
  <2>4. now \subseteq 1..MaxDocs /\ now \subseteq DOMAIN docs
    <3>1. now \subseteq DOMAIN docs /\ DOMAIN docs = 1..Len(docs) /\ Len(docs) \in 0..MaxDocs
        BY LastDocument DEF Shapes, TypeOK
    <3> QED BY <3>1, BoundAssumption
  <2>5. s \in Snapshot /\ s.vec \in Copy /\ s.bm25 \in Copy /\ s.at \subseteq DOMAIN docs
      BY <2>2, <2>3, <2>4 DEF Snapshot, Shapes, TypeOK, Folded
  <2> HIDE DEF s
  <2> QED BY <1>10, <2>1, <2>5, BoundAssumption DEF TakeSnapshot, Shapes, TypeOK, OnDisk
<1>11. ASSUME DeleteSnapshot PROVE Shapes' /\ OnDisk'
    BY <1>11 DEF DeleteSnapshot, Shapes, TypeOK, OnDisk
<1>12. ASSUME StartRollback PROVE Shapes' /\ OnDisk'
  <2>1. PICK s \in snaps : rb' = [step |-> IF s.vec = NoFile THEN "metadata" ELSE "clear",
                                  snap |-> {s}, late |-> FALSE]
      BY <1>12 DEF StartRollback
  <2>2. /\ rb' \in [step : {"none", "clear", "place", "metadata", "bm25"},
                    snap : SUBSET Snapshot, late : BOOLEAN]
        /\ rb'.step \in {"none", "clear", "place", "metadata", "bm25"}
        /\ rb'.step # "none" /\ rb'.snap \subseteq snaps
      BY <2>1 DEF Shapes, TypeOK
  <2> QED BY <1>12, <2>2 DEF StartRollback, Evicted, Shapes, TypeOK, OnDisk
<1>13. ASSUME ClearVectors PROVE Shapes' /\ OnDisk'
    BY <1>13, Special DEF ClearVectors, Shapes, TypeOK, OnDisk, Copy
<1>14. ASSUME PlaceVectors PROVE Shapes' /\ OnDisk'
  <2>0. PICK s \in rb.snap :
           IF vec = NoFile THEN vec' = s.vec /\ rb' = [rb EXCEPT !.step = "metadata"]
                           ELSE UNCHANGED vec /\ rb' = NoRollback
      BY <1>14 DEF PlaceVectors
  <2>1. /\ vec' \in Copy /\ vec' \in Content
        /\ rb' \in [step : {"none", "clear", "place", "metadata", "bm25"},
                    snap : SUBSET Snapshot, late : BOOLEAN]
        /\ rb'.step = "none" => rb'.snap = {}
        /\ rb'.snap \subseteq snaps
    <3>1. s \in snaps /\ s.vec \in Copy /\ vec \in Copy /\ Copy \subseteq Content
        BY Special DEF Shapes, TypeOK, Copy
    <3>2. rb \in [step : {"none", "clear", "place", "metadata", "bm25"},
                  snap : SUBSET Snapshot, late : BOOLEAN] /\ rb.snap \subseteq snaps
        BY DEF Shapes, TypeOK
    <3>3. CASE vec = NoFile
        BY <2>0, <3>1, <3>2, <3>3
    <3>4. CASE vec # NoFile
      <4>1. vec' = vec /\ rb' = [step |-> "none", snap |-> {}, late |-> FALSE]
          BY <2>0, <3>4 DEF NoRollback
      <4>2. rb' \in [step : {"none", "clear", "place", "metadata", "bm25"},
                     snap : SUBSET Snapshot, late : BOOLEAN] /\ rb'.snap = {}
          BY <4>1
      <4> QED BY <3>1, <4>1, <4>2
    <3> QED BY <3>3, <3>4
  <2> QED BY <1>14, <2>1 DEF PlaceVectors, Shapes, TypeOK, OnDisk
<1>15. ASSUME PlaceMetadata PROVE Shapes' /\ OnDisk'
  <2>1. /\ rb' \in [step : {"none", "clear", "place", "metadata", "bm25"},
                    snap : SUBSET Snapshot, late : BOOLEAN]
        /\ rb'.step # "none" /\ rb'.snap = rb.snap
      BY <1>15 DEF PlaceMetadata, Shapes, TypeOK
  <2>2. PICK s \in rb.snap :
          IF s.main = NoFile THEN UNCHANGED <<db, pool, own>>
          ELSE /\ db' = [db EXCEPT !.main = s.main]
               /\ pool' = IF pool = "live" THEN "split" ELSE pool
               /\ own' = IF pool = "live" THEN [main |-> db.main, wal |-> <<>>] ELSE own
      BY <1>15 DEF PlaceMetadata
  <2>3. s.main \in Content /\ db \in Files /\ own \in Files
      BY DEF Shapes, TypeOK, Snapshot
  <2>4. <<>> \in Seq(Texts) /\ <<>> \in Seq(Content)
      BY EmptySeq
  <2>5. /\ db' \in Files /\ own' \in Files /\ db'.wal \in Seq(Texts) /\ own'.wal \in Seq(Texts)
        /\ pool' \in {"none", "live", "split", "ghost"}
        /\ pool' \in {"none", "live"} => own' = NoFiles
        /\ pool = "none" <=> pool' = "none"
    <3>1. CASE s.main = NoFile
        BY <2>2, <2>3, <3>1 DEF Shapes, TypeOK
    <3>2. CASE s.main # NoFile
      <4>1. db' = [db EXCEPT !.main = s.main] /\ db' \in Files /\ db'.wal = db.wal
          BY <2>2, <2>3, <3>2 DEF Files
      <4>2. own' \in Files /\ own'.wal \in Seq(Texts)
        <5>1. [main |-> db.main, wal |-> <<>>] \in Files /\ own.wal \in Seq(Texts)
            BY <2>3, <2>4 DEF Files, Shapes
        <5>2. [main |-> db.main, wal |-> <<>>].wal \in Seq(Texts)
            BY <2>4
        <5>3. own' \in {own, [main |-> db.main, wal |-> <<>>]}
            BY <2>2, <3>2
        <5> QED BY <2>3, <5>1, <5>2, <5>3
      <4> QED BY <2>2, <3>2, <4>1, <4>2 DEF Shapes, TypeOK
    <3> QED BY <3>1, <3>2
  <2>6. OnDisk'
      BY <2>2, <2>3 DEF Shapes, TypeOK, OnDisk, Files
  <2> QED BY <1>15, <2>1, <2>5, <2>6 DEF PlaceMetadata, Shapes, TypeOK
<1>16. ASSUME PlaceBm25 PROVE Shapes' /\ OnDisk'
  <2>0. PICK s \in rb.snap : bm25' = (IF s.bm25 = NoFile THEN bm25 ELSE s.bm25) /\ now' = s.at
      BY <1>16 DEF PlaceBm25
  <2>1. bm25' \in Copy /\ bm25' \in Content /\ now' \subseteq DOMAIN docs
    <3>1. s \in snaps /\ s.bm25 \in Copy /\ s.at \subseteq DOMAIN docs
        BY DEF Shapes, TypeOK
    <3>2. bm25 \in Copy /\ Copy \subseteq Content
        BY Special DEF Shapes, Copy
    <3> QED BY <2>0, <3>1, <3>2
  <2> QED BY <1>16, <2>1, Special DEF PlaceBm25, NoRollback, Shapes, TypeOK, OnDisk
<1>17. ASSUME Restart PROVE Shapes' /\ OnDisk'
  <2>1. NoFiles \in Files /\ NoFiles.wal \in Seq(Texts) /\ NoFiles.wal = <<>>
      BY Special, EmptySeq DEF NoFiles, Files
  <2>2. db \in Files /\ db.wal \in Seq(Texts)
      BY DEF Shapes, TypeOK
  <2>3. Fold(db) \in Files /\ Fold(db).wal \in Seq(Texts) /\ Fold(db).wal = <<>>
      BY <2>2, FoldType
  <2>4. db' \in Files /\ db'.wal \in Seq(Texts) /\ (db'.main = NoFile => db'.wal = <<>>)
      BY <1>17, <2>2, <2>3 DEF Restart, Closed, OnDisk
  <2> QED BY <1>17, <2>1, <2>4, BoundAssumption
          DEF Restart, NoRollback, Shapes, TypeOK, OnDisk
<1> QED BY <1>1, <1>2, <1>3, <1>4, <1>5, <1>6, <1>7, <1>8, <1>9, <1>10, <1>11, <1>12,
           <1>13, <1>14, <1>15, <1>16, <1>17 DEF Next

-----------------------------------------------------------------------------
(* What the stores hold.                                                   *)

\* An answer that agrees with the request is not torn.
LEMMA Readable ==
    ASSUME Shapes, NEW c \in Content, Docs(c) = now
    PROVE  c # Torn /\ (c # NoFile => c = now) /\ now \in Texts
<1>1. now \subseteq 1..Len(docs) /\ Len(docs) \in 0..MaxDocs
    BY LastDocument DEF Shapes, TypeOK
<1>2. now \in Texts
    BY <1>1, BoundAssumption DEF Texts
<1> QED BY <1>2, Special DEF Docs

\* Opening the handles of a base shows what is there.
LEMMA OpenServes ==
    ASSUME Shapes, OpenBoth, NEW S
    PROVE  Stored(S) => Stored(S)'
<1>1. Docs(Docs(vec)) = Docs(vec) /\ Docs(Docs(bm25)) = Docs(bm25)
    BY Special DEF Docs
<1> QED BY <1>1, OpenedIndexes DEF Stored, Docs

\* Each step leaves the stores as the answers promised, unless the case is
\* one that StoresAgree leaves out.
LEMMA AgreedStep ==
    ASSUME Shapes, OnDisk, Agreed, Next
    PROVE  Agreed'
<1> SUFFICES ASSUME ~upset'
             PROVE  /\ pool' \in {"none", "live"}
                    /\ kb' = 0 => Nothing'
                    /\ kb' # 0 /\ rb'.step = "none" => Serving'
                    /\ rb'.step # "none" => Restoring'
    BY DEF Agreed
<1>0. ~upset
    BY DEF Next, OpenMetadata, OpenVectors, AutoFold, Create, Delete, StartWrite, AddVectors,
           AddMetadata, Checkpoint, TakeSnapshot, DeleteSnapshot, StartRollback, ClearVectors,
           PlaceVectors, PlaceMetadata, PlaceBm25, Restart
<1> USE <1>0 DEF Agreed
<1> DEFINE Goal == /\ pool' \in {"none", "live"}
                   /\ kb' = 0 => Nothing'
                   /\ kb' # 0 /\ rb'.step = "none" => Serving'
                   /\ rb'.step # "none" => Restoring'
<1>a. db \in Files /\ db.main \in Content /\ db.wal \in Seq(Texts)
    BY DEF Shapes, TypeOK, Files
<1>b. Overlay(db.main, db.wal) \in Content
    BY <1>a, OverlayType
<1>1. ASSUME OpenMetadata PROVE Goal
  <2>1. Serving /\ Docs(Overlay(Opened.main, Opened.wal)) = now
      BY <1>1, OpenedType DEF OpenMetadata, Serving
  <2> QED BY <1>1, <2>1 DEF OpenMetadata, Serving, Stored
<1>2. ASSUME OpenVectors PROVE Goal
  <2>1. Serving /\ Docs(Docs(vec)) = Docs(vec) /\ Docs(Docs(bm25)) = Docs(bm25)
      BY <1>2, Special DEF OpenVectors, Docs
  <2> QED BY <1>2, <2>1 DEF OpenVectors, Serving, Stored
<1>3. ASSUME AutoFold PROVE Goal
  <2>1. pool = "live" /\ Seen = db /\ kb # 0 /\ rb.step = "none" /\ Serving
      BY <1>3, SeenType DEF AutoFold, Nothing, Restoring
  <2>2. db' = [db EXCEPT !.main = Overlay(db.main, db.wal)]
      BY <1>3, <2>1 DEF AutoFold, Put
  <2>3. Overlay(db'.main, db'.wal) = Overlay(db.main, db.wal)
      BY <1>a, <2>2, FoldReads DEF Files
  <2> QED BY <1>3, <2>1, <2>3 DEF AutoFold, Serving, Stored
<1>4. ASSUME Create PROVE Goal
  <2>1. Nothing /\ kb' # 0 /\ UNCHANGED <<db, vec, bm25, now, pool, writer, rb>>
      BY <1>4 DEF Create, Shapes, TypeOK
  <2>2. Serving'
      BY <2>1, Special DEF Nothing, NoFiles, Serving, Stored, Docs, Overlay
  <2> QED BY <2>1, <2>2 DEF Nothing
<1>5. ASSUME Delete PROVE Goal
    BY <1>5 DEF Delete, Nothing, MetaLeft
<1>6. ASSUME StartWrite PROVE Goal
  <2>1. Serving /\ kb # 0 /\ rb.step = "none" /\ writer = "idle"
      BY <1>6 DEF StartWrite
  <2>2. OpenBoth /\ db' = Opened /\ docs' = Append(docs, kb) /\ writer' = "vectors"
        /\ UNCHANGED <<kb, rb, now>>
      BY <1>6 DEF StartWrite
  <2>3. docs'[Len(docs')] = kb
    <3>1. docs \in Seq(1..MaxCreates) /\ kb \in 1..MaxCreates
        BY <2>1 DEF Shapes, TypeOK
    <3>2. Len(docs') = Len(docs) + 1 /\ docs'[Len(docs) + 1] = kb
        BY <2>2, <3>1, AppendProperties
    <3> QED BY <3>2
  <2>4. Docs(Overlay(db'.main, db'.wal)) = now
      BY <2>1, <2>2, OpenedType DEF Serving
  <2>5. Stored(now)'
      BY <2>1, <2>2, OpenServes DEF Serving, Stored
  <2>6. pool' = "live"
      BY <2>2 DEF OpenBoth
  <2> QED BY <2>1, <2>2, <2>3, <2>4, <2>5, <2>6 DEF Serving, Stored
<1>7. ASSUME AddVectors PROVE Goal
  <2>1. /\ kb # 0 /\ rb.step = "none" /\ Serving /\ Stored(now) /\ docs[Len(docs)] = kb
        /\ pool \in {"none", "live"}
      BY <1>7 DEF AddVectors, Nothing, Restoring, Serving
  <2>2. rb' = rb /\ UNCHANGED <<kb, db, pool, docs, now>> /\ writer' = "metadata"
      BY <1>7, <2>1 DEF AddVectors, InThread
  <2>3. Len(docs) \in 1..MaxDocs
      BY <1>7, LastDocument DEF AddVectors
  <2>4. vec' = now \cup {Len(docs)} /\ bm25' = now \cup {Len(docs)}
      BY <1>7, <2>1 DEF AddVectors, Stored
  <2>5. now \cup {Len(docs)} # NoFile
      BY <2>3 DEF NoFile
  <2>6. Stored(now \cup {Len(docs)})'
      BY <2>2, <2>4, <2>5 DEF Stored, Docs
  <2> QED BY <2>1, <2>2, <2>6 DEF Serving
<1>8. ASSUME AddMetadata PROVE Goal
  <2> DEFINE n == Len(docs)
             c == Overlay(db.main, db.wal)
  <2>1. /\ kb # 0 /\ rb.step = "none" /\ Serving /\ docs[n] = kb /\ pool = "live"
        /\ Stored(now \cup {n}) /\ Docs(c) = now
      BY <1>8 DEF AddMetadata, Nothing, Restoring, Serving, Shapes
  <2>2. Seen = db /\ n \in 1..MaxDocs /\ db.main # NoFile
      BY <1>8, <2>1, SeenType, LastDocument DEF AddMetadata, OnDisk
  <2>3. c # Torn /\ (c # NoFile => c = now)
      BY <1>b, <2>1, Readable
  <2>4. db' = Committed(db, n)
      BY <1>8, <2>1, <2>2 DEF AddMetadata, Put
  <2>5. Overlay(db'.main, db'.wal) = c \cup {n} /\ c \in Texts
    <3>1. Overlay(Committed(db, n).main, Committed(db, n).wal) = c \cup {n} /\ c \in Texts
        BY <1>a, <2>2, <2>3, CommitReads
    <3> QED BY <2>4, <3>1
  <2>6. c = now /\ c \cup {n} \in Texts
      BY <2>2, <2>3, <2>5, Special DEF Texts
  <2>7. Listed # Torn
      BY <2>1, <2>2, <2>5, <2>6, Special DEF Listed
  <2>8. now' = now \cup {n} /\ UNCHANGED <<vec, bm25>>
      BY <1>8, <2>1, <2>7 DEF AddMetadata
  <2>9. Docs(Overlay(db'.main, db'.wal)) = now'
      BY <2>5, <2>6, <2>8, Special DEF Docs
  <2>10. rb' = rb /\ UNCHANGED <<kb, pool>> /\ writer' = "idle"
      BY <1>8, <2>1 DEF AddMetadata, InThread
  <2> QED BY <2>1, <2>8, <2>9, <2>10 DEF Serving, Stored
<1>9. ASSUME Checkpoint PROVE Goal
  <2>1. /\ kb # 0 /\ rb.step = "none" /\ Serving /\ OpenBoth
        /\ UNCHANGED <<kb, writer, rb, docs, now>>
      BY <1>9 DEF Checkpoint
  <2>2. Docs(Overlay(db'.main, db'.wal)) = now
    <3>1. CASE pool = "none"
      <4>1. db' = Fold(Opened)
          BY <1>9, <3>1 DEF Checkpoint
      <4>2. Opened.main \in Content /\ Opened.wal \in Seq(Texts)
          BY OpenedType DEF Files
      <4>3. Overlay(db'.main, db'.wal) = Overlay(Opened.main, Opened.wal)
          BY <4>1, <4>2, FoldReads DEF Fold
      <4> QED BY <2>1, <4>3, OpenedType DEF Serving
    <3>2. CASE pool = "live"
      <4>1. db' = Fold(db)
          BY <1>9, <3>2, SeenType DEF Checkpoint, Put
      <4>2. Overlay(db'.main, db'.wal) = Overlay(db.main, db.wal)
          BY <1>a, <4>1, FoldReads DEF Fold
      <4> QED BY <2>1, <4>2 DEF Serving
    <3> QED BY <3>1, <3>2
  <2>3. pool' = "live"
      BY <2>1 DEF OpenBoth
  <2>4. /\ writer # "metadata" => Stored(now)'
        /\ writer = "metadata" => Stored(now \cup {Len(docs)})'
    <3>1. Stored(now) => Docs(vec') = now /\ Docs(bm25') = now
        BY <2>1, OpenServes DEF Stored
    <3>2. Stored(now \cup {Len(docs)}) =>
             Docs(vec') = now \cup {Len(docs)} /\ Docs(bm25') = now \cup {Len(docs)}
        BY <2>1, OpenServes DEF Stored
    <3> QED BY <2>1, <3>1, <3>2 DEF Serving, Stored
  <2> QED BY <2>1, <2>2, <2>3, <2>4 DEF Serving
<1>10. ASSUME TakeSnapshot \/ DeleteSnapshot PROVE Goal
  <2>1. /\ kb # 0 /\ rb.step = "none" /\ Serving
        /\ UNCHANGED <<kb, db, pool, vec, bm25, writer, rb, docs, now>>
      BY <1>10 DEF TakeSnapshot, DeleteSnapshot
  <2> QED BY <2>1 DEF Serving, Stored
<1>11. ASSUME StartRollback PROVE Goal
  <2>1. PICK s \in snaps :
          /\ s.base = kb
          /\ rb' = [step |-> IF s.vec = NoFile THEN "metadata" ELSE "clear",
                    snap |-> {s}, late |-> FALSE]
          /\ upset' = (upset \/ ~Whole(s) \/ pool # "none" \/ db.wal # <<>>
                             \/ writer # "idle")
      BY <1>11 DEF StartRollback
  <2>2. Whole(s) /\ pool = "none" /\ db.wal = <<>> /\ writer = "idle"
      BY <2>1
  <2>3. s \in Snapshot /\ s.vec # NoFile
    <3>1. s \in Snapshot /\ s.at \in Texts
        BY DEF Shapes, TypeOK, Snapshot, Texts
    <3> QED BY <2>2, <3>1, Special DEF Whole
  <2>4. rb'.step = "clear" /\ rb'.snap = {s}
      BY <2>1, <2>3
  <2>5. kb # 0 /\ UNCHANGED <<kb, pool, db, writer>>
      BY <1>11 DEF StartRollback
  <2> QED BY <2>2, <2>3, <2>4, <2>5 DEF Restoring
<1>12. ASSUME ClearVectors \/ PlaceVectors \/ PlaceMetadata \/ PlaceBm25 PROVE Goal
  <2>1. rb.step # "none" /\ Restoring
      BY <1>12 DEF ClearVectors, PlaceVectors, PlaceMetadata, PlaceBm25
  <2>2. PICK s \in Snapshot :
          /\ rb.snap = {s} /\ Whole(s)
          /\ rb.step = "place" => vec = NoFile
          /\ rb.step \in {"metadata", "bm25"} => vec = s.at
          /\ rb.step = "bm25" => db.main = s.at
      BY <2>1 DEF Restoring
  <2>3. s.at \in Texts /\ s.main = s.at /\ s.vec = s.at /\ s.bm25 = s.at
      BY <2>2 DEF Whole, Snapshot, Texts
  <2>4. s.main # NoFile /\ s.vec # NoFile /\ s.bm25 # NoFile /\ Docs(s.at) = s.at
      BY <2>3, Special DEF Docs
  <2>5. rb \in [step : {"none", "clear", "place", "metadata", "bm25"},
                snap : SUBSET Snapshot, late : BOOLEAN]
      BY DEF Shapes
  <2>6. CASE ClearVectors
    <3>1. rb' = [rb EXCEPT !.step = "place"] /\ vec' = NoFile
          /\ UNCHANGED <<kb, pool, db, writer>>
        BY <2>6 DEF ClearVectors
    <3> QED BY <2>1, <2>2, <2>5, <3>1 DEF Restoring
  <2>7. CASE PlaceVectors
    <3>1. rb.step = "place" /\ UNCHANGED <<kb, pool, db, writer>>
        BY <2>7 DEF PlaceVectors
    <3>2. vec' = s.vec /\ rb' = [rb EXCEPT !.step = "metadata"]
        BY <2>2, <2>7, <3>1 DEF PlaceVectors
    <3>3. rb'.step = "metadata" /\ rb'.snap = {s}
        BY <2>2, <2>5, <3>2
    <3> QED BY <2>1, <2>2, <2>3, <3>1, <3>2, <3>3 DEF Restoring
  <2>8. CASE PlaceMetadata
    <3>1. rb.step = "metadata" /\ rb' = [rb EXCEPT !.step = "bm25"] /\ UNCHANGED <<kb, vec, writer>>
        BY <2>8 DEF PlaceMetadata
    <3>2. db' = [db EXCEPT !.main = s.main] /\ pool' = "none"
        BY <2>1, <2>2, <2>4, <2>8 DEF PlaceMetadata, Restoring
    <3>3. rb'.step = "bm25" /\ rb'.snap = {s} /\ db'.main = s.at /\ db'.wal = <<>>
        BY <1>a, <2>1, <2>2, <2>3, <2>5, <3>1, <3>2 DEF Restoring, Files
    <3> QED BY <2>1, <2>2, <3>1, <3>2, <3>3 DEF Restoring
  <2>9. CASE PlaceBm25
    <3>1. rb.step = "bm25" /\ rb'.step = "none" /\ UNCHANGED <<kb, db, pool, vec, writer, docs>>
        BY <2>9 DEF PlaceBm25, NoRollback
    <3>2. bm25' = s.bm25 /\ now' = s.at
        BY <2>2, <2>4, <2>9 DEF PlaceBm25
    <3>3. Overlay(db'.main, db'.wal) = s.at
        BY <2>1, <2>2, <3>1 DEF Restoring, Overlay
    <3>4. Docs(vec') = s.at /\ Docs(bm25') = s.at /\ Docs(Overlay(db'.main, db'.wal)) = s.at
        BY <2>2, <2>3, <2>4, <3>1, <3>2, <3>3
    <3> QED BY <2>1, <3>1, <3>2, <3>4 DEF Restoring, Serving, Stored
  <2> QED BY <1>12, <2>6, <2>7, <2>8, <2>9
<1>13. ASSUME Restart PROVE Goal
  <2>1. writer # "metadata" /\ rb.step = "none" /\ kb' = kb
      BY <1>13 DEF Restart, Shapes, TypeOK
  <2>2. /\ db' \in {db, Closed} /\ pool' = "none" /\ writer' = "idle" /\ rb'.step = "none"
        /\ UNCHANGED <<vec, bm25, docs, now>>
      BY <1>13 DEF Restart, NoRollback
  <2>3. CASE kb = 0
      BY <2>1, <2>2, <2>3 DEF Nothing, Closed
  <2>4. CASE kb # 0
    <3>1. Overlay(db'.main, db'.wal) = Overlay(db.main, db.wal)
        BY <1>a, <2>2, FoldReads DEF Closed, Fold
    <3> QED BY <2>1, <2>2, <2>4, <3>1 DEF Serving, Stored
  <2> QED BY <2>3, <2>4
<1> QED BY <1>1, <1>2, <1>3, <1>4, <1>5, <1>6, <1>7, <1>8, <1>9, <1>10, <1>11, <1>12, <1>13
        DEF Next

\* After a checkpoint the files hold everything until something is written.
LEMMA FoldedStep ==
    ASSUME Shapes, OnDisk, Agreed, Folded, Next
    PROVE  Folded'
<1> SUFFICES ASSUME folded'
             PROVE  /\ kb' # 0 /\ ~upset' /\ writer' # "metadata" /\ rb'.step = "none"
                    /\ db' = [main |-> now', wal |-> <<>>] /\ vec' = now' /\ bm25' = now'
    BY DEF Folded
<1>1. CASE Checkpoint
  <2>1. /\ kb # 0 /\ rb.step = "none" /\ ~upset /\ writer # "metadata" /\ OpenBoth
        /\ UNCHANGED <<kb, writer, rb, now, upset>>
      BY <1>1 DEF Checkpoint
  <2>2. /\ Serving /\ Stored(now) /\ pool \in {"none", "live"}
        /\ db.main \in Content /\ db.wal \in Seq(Texts)
      BY <2>1 DEF Agreed, Serving, Shapes, TypeOK, Files
  <2>3. db' = Fold(Opened)
    <3>1. CASE pool = "none"
        BY <1>1, <3>1 DEF Checkpoint
    <3>2. CASE pool = "live"
        BY <1>1, <3>2, SeenType, OpenedType DEF Checkpoint, Put
    <3> QED BY <2>2, <3>1, <3>2
  <2>4. Opened \in Files /\ Opened.wal \in Seq(Texts) /\ Opened.main # NoFile
      BY <2>2, OpenedType
  <2>5. db' = [main |-> Overlay(Opened.main, Opened.wal), wal |-> <<>>] /\ db'.main # NoFile
      BY <2>3, <2>4, FoldType DEF Fold
  <2>6. Overlay(Opened.main, Opened.wal) = now
    <3>1. Overlay(Opened.main, Opened.wal) \in Content
        BY <2>4, OverlayType DEF Files
    <3>2. Docs(Overlay(Opened.main, Opened.wal)) = now
        BY <2>2, OpenedType DEF Serving
    <3>3. Overlay(Opened.main, Opened.wal) # NoFile
        BY <2>5
    <3> QED BY <3>1, <3>2, <3>3, Readable
  <2>7. vec' = now /\ bm25' = now
      BY <2>1, <2>2, OpenedIndexes DEF Stored
  <2> QED BY <2>1, <2>5, <2>6, <2>7
<1>2. CASE ~Checkpoint
  <2>1. folded /\ UNCHANGED now
      BY <1>2 DEF Next, OpenMetadata, OpenVectors, AutoFold, Create, Delete, StartWrite,
         AddVectors, AddMetadata, TakeSnapshot, DeleteSnapshot, StartRollback, ClearVectors,
         PlaceVectors, PlaceMetadata, PlaceBm25, Restart, Folded
  <2>2. /\ kb # 0 /\ ~upset /\ writer # "metadata" /\ rb.step = "none"
        /\ db = [main |-> now, wal |-> <<>>] /\ vec = now /\ bm25 = now
      BY <2>1 DEF Folded
  <2>3. /\ Docs(vec) = now /\ Docs(bm25) = now /\ db.main # NoFile /\ Opened = db
        /\ pool \in {"none", "live"} /\ Seen = db
    <3>1. now \in Texts
        BY LastDocument, BoundAssumption DEF Shapes, TypeOK, Texts
    <3>2. Docs(now) = now /\ now # NoFile
        BY <3>1, Special DEF Docs
    <3> QED BY <2>2, <3>2, OpenedType, SeenType DEF Agreed
  <2>4. CASE OpenMetadata \/ OpenVectors \/ StartWrite
      BY <2>1, <2>2, <2>3, <2>4 DEF OpenMetadata, OpenVectors, StartWrite, OpenBoth
  <2>5. CASE TakeSnapshot \/ DeleteSnapshot
      BY <2>1, <2>2, <2>5 DEF TakeSnapshot, DeleteSnapshot
  <2>6. CASE Restart
    <3>1. Fold(db) = db
        BY <2>2 DEF Fold, Overlay
    <3> QED BY <2>1, <2>2, <2>6, <3>1 DEF Restart, Closed, NoRollback, Shapes, TypeOK
  <2>7. ~AutoFold /\ ~Create
      BY <2>2, <2>3 DEF AutoFold, Create
  <2> QED BY <1>2, <2>2, <2>4, <2>5, <2>6, <2>7
          DEF Next, Delete, AddVectors, AddMetadata, StartRollback, ClearVectors,
              PlaceVectors, PlaceMetadata, PlaceBm25
<1> QED BY <1>1, <1>2

\* A snapshot never changes, and a new one is what the files hold.
LEMMA SnapshotStep ==
    ASSUME Shapes, Folded, CheckpointedSnapshot, Next
    PROVE  CheckpointedSnapshot'
<1>1. CASE TakeSnapshot
  <2> DEFINE s == [main |-> db.main, vec |-> vec, bm25 |-> bm25, base |-> kb,
                   counted |-> Docs(Overlay(db.main, db.wal)), at |-> now, folded |-> folded]
  <2>1. snaps' = snaps \cup {s}
      BY <1>1 DEF TakeSnapshot
  <2>2. s.folded => Whole(s) /\ s.counted = Docs(s.main)
    <3>1. ASSUME folded PROVE db.main = now /\ db.wal = <<>> /\ vec = now /\ bm25 = now
        BY <3>1 DEF Folded
    <3> QED BY <3>1 DEF Whole, Overlay
  <2> HIDE DEF s
  <2> QED BY <2>1, <2>2 DEF CheckpointedSnapshot, Whole
<1>2. CASE ~TakeSnapshot
  <2>1. snaps' \subseteq snaps
      BY <1>2 DEF Next, OpenMetadata, OpenVectors, AutoFold, Create, Delete, StartWrite,
         AddVectors, AddMetadata, Checkpoint, DeleteSnapshot, StartRollback, ClearVectors,
         PlaceVectors, PlaceMetadata, PlaceBm25, Restart
  <2> QED BY <2>1 DEF CheckpointedSnapshot, Whole, Docs
<1> QED BY <1>1, <1>2

-----------------------------------------------------------------------------
(* Theorems.                                                               *)

\* The invariant holds at the start ...
LEMMA KbInit == Init => KbInv
<1> SUFFICES ASSUME Init PROVE KbInv
    OBVIOUS
<1>1. <<>> \in Seq(Texts) /\ <<>> \in Seq(Content) /\ <<>> \in Seq(1..MaxCreates) /\ Len(<<>>) = 0
    BY EmptySeq
<1>2. NoFiles \in Files /\ NoFiles.wal = <<>>
    BY <1>1, Special DEF NoFiles, Files
<1>3. Shapes
  <2>1. TypeOK
      BY <1>1, <1>2, Special, BoundAssumption DEF Init, TypeOK, NoRollback
  <2>2. vec \in Copy /\ bm25 \in Copy /\ Len(docs) <= MaxDocs
      BY <1>1, BoundAssumption DEF Init, Copy
  <2>3. /\ rb \in [step : {"none", "clear", "place", "metadata", "bm25"},
                   snap : SUBSET Snapshot, late : BOOLEAN]
        /\ rb.snap = {}
      BY DEF Init, NoRollback
  <2> QED BY <1>1, <1>2, <2>1, <2>2, <2>3 DEF Init, Shapes
<1>4. OnDisk /\ Agreed /\ Folded /\ CheckpointedSnapshot
    BY <1>2 DEF Init, OnDisk, Agreed, Nothing, NoRollback, Folded, CheckpointedSnapshot
<1> QED BY <1>3, <1>4 DEF KbInv

\* ... and is kept by every step.
LEMMA KbStep == KbInv /\ [Next]_vars => KbInv'
<1> SUFFICES ASSUME KbInv, [Next]_vars PROVE KbInv'
    OBVIOUS
<1>1. CASE Next
    BY <1>1, ShapesStep, AgreedStep, FoldedStep, SnapshotStep DEF KbInv
<1>2. CASE UNCHANGED vars
  <2> USE <1>2 DEF vars
  <2>1. Shapes' /\ OnDisk'
      BY DEF KbInv, Shapes, TypeOK, OnDisk
  <2>2. Agreed' /\ Folded'
      BY DEF KbInv, Agreed, Nothing, Serving, Restoring, Stored, Folded
  <2>3. CheckpointedSnapshot'
      BY DEF KbInv, CheckpointedSnapshot
  <2> QED BY <2>1, <2>2, <2>3 DEF KbInv
<1> QED BY <1>1, <1>2

\* In every behaviour of the storage, for any number of documents, snapshots,
\* creations and restarts, the invariant holds.
THEOREM KbInvariant == Spec => []KbInv
BY KbInit, KbStep, PTL DEF Spec

\* The manager and kb_meta.json always agree, and so do all types.
THEOREM KbTypeCorrect == Spec => []TypeOK
<1>1. KbInv => TypeOK
    BY DEF KbInv, Shapes
<1> QED BY <1>1, KbInvariant, PTL

\* Between requests every store of a base holds exactly the documents of the
\* answered writes and of the last rollback.
THEOREM StoresAgreeCorrect == Spec => []StoresAgree
<1>1. KbInv => StoresAgree
  <2> SUFFICES ASSUME KbInv, kb # 0, ~upset, writer = "idle", rb.step = "none"
               PROVE  Listed = now /\ Searched = now /\ Docs(bm25) = now
      BY DEF StoresAgree
  <2>1. Serving /\ pool \in {"none", "live"}
      BY DEF KbInv, Agreed
  <2>2. Seen = db /\ vpool # "stale"
      BY <2>1, SeenType DEF KbInv, Shapes
  <2> QED BY <2>1, <2>2 DEF Serving, Stored, Listed, Searched
<1> QED BY <1>1, KbInvariant, PTL

\* A snapshot taken after a checkpoint, before anything else is written, has
\* every artifact with all documents, and its record counts them.
THEOREM CheckpointedCorrect == Spec => []CheckpointedSnapshot
<1>1. KbInv => CheckpointedSnapshot
    BY DEF KbInv
<1> QED BY <1>1, KbInvariant, PTL
=============================================================================
