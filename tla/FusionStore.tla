----------------------------- MODULE FusionStore -----------------------------
(***************************************************************************)
(* The native vector store (store/fusion_store_backend.py) under the       *)
(* document writes that use it: an engine that knows vectors by integer    *)
(* ids, a key-value table beside them from which nothing is ever deleted,  *)
(* and the next id, kept in a sidecar file that is written in place.       *)
(*                                                                         *)
(*   vecs      live vectors: the chunk whose embedding each id holds       *)
(*   metaKv    m:<id>, the chunk that a search shows for an id             *)
(*   idmap     i:<chunk id>, its integer id                                *)
(*   docIndex  d:<doc_path>, the ids added under a path                    *)
(*   nextId    _id_counter; sidecar: what fusion_store.meta.json reads as  *)
(*   docRow    the document in the catalogue (DocWrite)                    *)
(*   fsCall    the request that each worker thread runs                    *)
(*                                                                         *)
(* Every call of the engine is durable when it returns (its write-ahead    *)
(* log), and removing an id that is not live changes nothing.              *)
(***************************************************************************)
EXTENDS Integers, SequencesExt

CONSTANTS
    StoreDocs,     \* documents
    StorePath,     \* StorePath[d]: its doc_path
    ChunksOf,      \* ChunksOf[d]: its chunk ids, in order
    Legacy,        \* documents stored before there was an index by path
    StoreThreads,  \* threads that run requests
    MaxIds,        \* bound: ids given out
    MaxFsFails,    \* bound: calls that raise
    MaxKills       \* bound: kills of the process

ASSUME StoreAssumption ==
    /\ {MaxIds, MaxFsFails, MaxKills} \subseteq Nat
    /\ Legacy \subseteq StoreDocs
    /\ \A d, e \in StoreDocs : d # e => ToSet(ChunksOf[d]) \cap ToSet(ChunksOf[e]) = {}

VARIABLES vecs, metaKv, idmap, docIndex, nextId, sidecar, docRow, fsCall, fsUp,
          torn,             \* history: ids whose insertion was cut off
          fsFails, fsKills

kv      == <<metaKv, idmap, docIndex>>
fstVars == <<vecs, kv, nextId, sidecar, docRow, fsCall, fsUp, torn, fsFails, fsKills>>

\* What a sidecar reads as that does not parse.
Garbage == -1

VecIds    == 0..(MaxIds - 1)
VecChunks == UNION {ToSet(ChunksOf[d]) : d \in StoreDocs}
DocOf(c)  == CHOOSE d \in StoreDocs : c \in ToSet(ChunksOf[d])
PathOf(c) == StorePath[DocOf(c)]

\* f with value v at x, and f without x.
With(f, x, v) == (x :> v) @@ f
Less(f, x)    == [y \in DOMAIN f \ {x} |-> f[y]]

\* op: why the call runs.  todo: the chunks (or ids) it has still to handle;
\* id: the vector at hand; seen: what was read of the index or the counter.
Resting == [at |-> "idle"]
Call(at, op, d, todo) == [at |-> at, op |-> op, doc |-> d, todo |-> todo, id |-> 0, seen |-> {}]

LegacyChunks == FlattenSeq([i \in 1..Cardinality(Legacy) |-> ChunksOf[SetToSeq(Legacy)[i]]])

FstInit ==
    LET n == Len(LegacyChunks) IN
    /\ vecs = [i \in 0..(n - 1) |-> LegacyChunks[i + 1]]
    /\ metaKv = vecs
    /\ idmap = [c \in ToSet(LegacyChunks) |-> CHOOSE i \in DOMAIN vecs : vecs[i] = c]
    /\ docIndex = <<>>
    /\ nextId = n /\ sidecar = n
    /\ docRow = [d \in StoreDocs |-> IF d \in Legacy THEN "there" ELSE "new"]
    /\ fsCall = [t \in StoreThreads |-> Resting] /\ fsUp = TRUE
    /\ torn = {} /\ fsFails = 0 /\ fsKills = 0

-----------------------------------------------------------------------------
(* Requests.  Two threads never work on the same document here; they do    *)
(* share the counter, the sidecar and the index entry of a path.           *)

At(t, where)   == fsUp /\ fsCall[t].at = where
Goto(t, where) == fsCall' = [fsCall EXCEPT ![t].at = where]
Becomes(t, c)  == fsCall' = [fsCall EXCEPT ![t] = c]
Untouched(d)   == \A t \in StoreThreads : fsCall[t].at # "idle" => fsCall[t].doc # d

\* A first ingest adds; an ingest of a known path and a PUT remove the old
\* chunks first; a DELETE removes them, by path when no chunk rows are left.
BeginWrite(t, d) ==
    /\ At(t, "idle") /\ Untouched(d)
    /\ \/ docRow[d] = "new" /\ Becomes(t, Call("insert", "add", d, ChunksOf[d]))
       \/ docRow[d] = "there" /\ \E op \in {"replace", "delete"} :
                                    Becomes(t, Call("remove", op, d, ChunksOf[d]))
       \/ docRow[d] = "bare" /\ Becomes(t, Call("look", "delete", d, <<>>))
    /\ UNCHANGED <<vecs, kv, nextId, sidecar, docRow, fsUp, torn, fsFails, fsKills>>

\* _insert_one, one engine call after the other: the vector, ...
Given == nextId

InsertVector(t) ==
    /\ At(t, "insert") /\ fsCall[t].todo # <<>> /\ Given \in VecIds
    /\ nextId' = nextId + 1
    /\ vecs' = With(vecs, Given, Head(fsCall[t].todo))
    /\ torn' = torn \ {Given}
    /\ fsCall' = [fsCall EXCEPT ![t].at = "meta", ![t].id = Given]
    /\ UNCHANGED <<kv, sidecar, docRow, fsUp, fsFails, fsKills>>

\* ... its metadata, ...
MetaPut(t) == With(metaKv, fsCall[t].id, Head(fsCall[t].todo))

PutMeta(t) ==
    /\ At(t, "meta")
    /\ metaKv' = MetaPut(t)
    /\ Goto(t, "map")
    /\ UNCHANGED <<vecs, idmap, docIndex, nextId, sidecar, docRow, fsUp, torn, fsFails, fsKills>>

\* ... the id of its chunk, ...
MapPut(t) == With(idmap, Head(fsCall[t].todo), fsCall[t].id)

PutMap(t) ==
    /\ At(t, "map")
    /\ idmap' = MapPut(t)
    /\ Goto(t, "index")
    /\ UNCHANGED <<vecs, metaKv, docIndex, nextId, sidecar, docRow, fsUp, torn, fsFails, fsKills>>

\* ... and the index of its path, which is read and then written.
Indexed(p) == IF p \in DOMAIN docIndex THEN docIndex[p] ELSE {}

ReadIndex(t) ==
    /\ At(t, "index")
    /\ fsCall' = [fsCall EXCEPT ![t].at = "put", ![t].seen = Indexed(StorePath[fsCall[t].doc])]
    /\ UNCHANGED <<vecs, kv, nextId, sidecar, docRow, fsUp, torn, fsFails, fsKills>>

PutIndex(t) ==
    LET c == fsCall[t] IN
    /\ At(t, "put")
    /\ docIndex' = With(docIndex, StorePath[c.doc], c.seen \cup {c.id})
    /\ fsCall' = [fsCall EXCEPT ![t].at = "insert", ![t].todo = Tail(@), ![t].seen = {}]
    /\ UNCHANGED <<vecs, metaKv, idmap, nextId, sidecar, docRow, fsUp, torn, fsFails, fsKills>>

\* _save_meta: the counter is read, the file is truncated, ...
BeginSave(t) ==
    /\ At(t, "insert") /\ fsCall[t].todo = <<>>
    /\ fsCall' = [fsCall EXCEPT ![t].at = "save", ![t].seen = {nextId}]
    /\ sidecar' = Garbage
    /\ UNCHANGED <<vecs, kv, nextId, docRow, fsUp, torn, fsFails, fsKills>>

\* ... and written; the ends of two saves that overlap can mix.
Mixed(t) == sidecar # Garbage \/ \E u \in StoreThreads \ {t} : At(u, "save")

EndSave(t) ==
    /\ At(t, "save")
    /\ \/ sidecar' \in fsCall[t].seen
       \/ Mixed(t) /\ sidecar' = Garbage
    /\ Goto(t, "stored")
    /\ UNCHANGED <<vecs, kv, nextId, docRow, fsUp, torn, fsFails, fsKills>>

\* The keyword index and the catalogue follow.
Ends(t, state) ==
    /\ docRow' = [docRow EXCEPT ![fsCall[t].doc] = state]
    /\ Becomes(t, Resting)

EndAdd(t) ==
    /\ At(t, "stored")
    /\ Ends(t, "there")
    /\ UNCHANGED <<vecs, kv, nextId, sidecar, fsUp, torn, fsFails, fsKills>>

\* delete_by_chunk_ids, one chunk: only the id that idmap has for it.
RemoveChunk(t) ==
    LET c == Head(fsCall[t].todo) IN
    /\ At(t, "remove") /\ fsCall[t].todo # <<>>
    /\ vecs' = IF c \in DOMAIN idmap THEN Less(vecs, idmap[c]) ELSE vecs
    /\ fsCall' = [fsCall EXCEPT ![t].todo = Tail(@)]
    /\ UNCHANGED <<kv, nextId, sidecar, docRow, fsUp, torn, fsFails, fsKills>>

\* After its old chunks a replaced document's new ones are added; an undone
\* one is given up, its id is never used again.
EndRemove(t) ==
    LET c == fsCall[t] IN
    /\ At(t, "remove") /\ c.todo = <<>>
    /\ \/ /\ c.op = "replace"
          /\ Becomes(t, Call("insert", "add", c.doc, ChunksOf[c.doc]))
          /\ UNCHANGED docRow
       \/ c.op = "undo" /\ Ends(t, "lost")
       \/ c.op = "delete" /\ Ends(t, "deleted")
    /\ UNCHANGED <<vecs, kv, nextId, sidecar, fsUp, torn, fsFails, fsKills>>

\* delete_by_doc: candidates from the index, or every live id when the path
\* has no entry, ...
LookUp(t) ==
    LET p == StorePath[fsCall[t].doc] IN
    /\ At(t, "look")
    /\ fsCall' = [fsCall EXCEPT ![t].at = "sweep",
                                ![t].seen = IF p \in DOMAIN docIndex THEN docIndex[p] ELSE DOMAIN vecs]
    /\ UNCHANGED <<vecs, kv, nextId, sidecar, docRow, fsUp, torn, fsFails, fsKills>>

\* ... of which those go whose metadata name the path.
UnderBug(i, p) == i \in DOMAIN metaKv
Under(i, p) == i \in DOMAIN metaKv /\ PathOf(metaKv[i]) = p

Sweep(t) ==
    LET c == fsCall[t] IN
    /\ At(t, "sweep")
    /\ \/ \E i \in c.seen :
             /\ vecs' = IF Under(i, StorePath[c.doc]) THEN Less(vecs, i) ELSE vecs
             /\ fsCall' = [fsCall EXCEPT ![t].seen = @ \ {i}]
             /\ UNCHANGED docRow
       \/ c.seen = {} /\ Ends(t, "deleted") /\ UNCHANGED vecs
    /\ UNCHANGED <<kv, nextId, sidecar, fsUp, torn, fsFails, fsKills>>

-----------------------------------------------------------------------------
(* Calls that raise, the end of the process and a new one.                 *)

Cut(t) == IF fsCall[t].at \in {"meta", "map", "index", "put"} THEN {fsCall[t].id} ELSE {}

\* A write that fails, before or after its vectors are stored, takes back its
\* chunks.  A wrong dimension is found after an id was taken.
WriteFails(t) ==
    /\ fsCall[t].at \in {"insert", "meta", "map", "index", "put", "save", "stored"} /\ fsUp
    /\ fsFails < MaxFsFails /\ fsFails' = fsFails + 1
    /\ torn' = torn \cup Cut(t)
    /\ \/ UNCHANGED nextId
       \/ fsCall[t].at = "insert" /\ nextId < MaxIds /\ nextId' = nextId + 1
    /\ Becomes(t, Call("remove", "undo", fsCall[t].doc, ChunksOf[fsCall[t].doc]))
    /\ UNCHANGED <<vecs, kv, sidecar, docRow, fsUp, fsKills>>

\* A removal that raises: the request ends.  A delete whose catalogue calls
\* fail leaves the row, with or without its chunk rows.
RemoveFails(t) ==
    /\ At(t, "remove") /\ fsFails < MaxFsFails /\ fsFails' = fsFails + 1
    /\ \/ fsCall[t].op = "undo" /\ Ends(t, "lost")
       \/ fsCall[t].op # "undo" /\ Ends(t, "there")
       \/ fsCall[t].op = "delete" /\ fsCall[t].todo = <<>> /\ Ends(t, "bare")
    /\ UNCHANGED <<vecs, kv, nextId, sidecar, fsUp, torn, fsKills>>

\* close, when the base is evicted: checkpoint, then the sidecar.
CloseStore ==
    /\ fsUp /\ \A t \in StoreThreads : fsCall[t].at = "idle"
    /\ fsUp' = FALSE /\ sidecar' = nextId
    /\ UNCHANGED <<vecs, kv, nextId, docRow, fsCall, torn, fsFails, fsKills>>

\* A kill at any moment, also while _connect writes the sidecar.
Kill ==
    LET cut == {t \in StoreThreads : fsCall[t].at # "idle"} IN
    /\ fsKills < MaxKills /\ fsKills' = fsKills + 1
    /\ fsUp' = FALSE
    /\ sidecar' \in (IF fsUp THEN {sidecar} ELSE {sidecar, Garbage})
    /\ torn' = torn \cup UNION {Cut(t) : t \in cut}
    /\ docRow' = [d \in StoreDocs |->
                    IF \E t \in cut : fsCall[t].doc = d /\ fsCall[t].op \in {"add", "undo"}
                    THEN "lost" ELSE docRow[d]]
    /\ fsCall' = [t \in StoreThreads |-> Resting]
    /\ UNCHANGED <<vecs, kv, nextId, fsFails>>

\* _connect and _reconcile_counter.
AfterLive == IF vecs = <<>> THEN 0 ELSE Max(DOMAIN vecs) + 1
Recovered == IF sidecar = Garbage \/ sidecar < AfterLive THEN AfterLive ELSE sidecar

Connect ==
    /\ ~fsUp /\ fsUp' = TRUE
    /\ nextId' = Recovered /\ sidecar' = Recovered
    /\ UNCHANGED <<vecs, kv, docRow, fsCall, torn, fsFails, fsKills>>

-----------------------------------------------------------------------------

FstNext ==
    \/ \E t \in StoreThreads :
          \/ \E d \in StoreDocs : BeginWrite(t, d)
          \/ InsertVector(t) \/ PutMeta(t) \/ PutMap(t) \/ ReadIndex(t) \/ PutIndex(t)
          \/ BeginSave(t) \/ EndSave(t) \/ EndAdd(t)
          \/ RemoveChunk(t) \/ EndRemove(t) \/ LookUp(t) \/ Sweep(t)
          \/ WriteFails(t) \/ RemoveFails(t)
    \/ CloseStore \/ Kill \/ Connect

FstSpec == FstInit /\ [][FstNext]_fstVars

-----------------------------------------------------------------------------
(* Properties.                                                             *)

\* Every variable has its type.
FstTypeOK ==
    /\ DOMAIN vecs \subseteq VecIds /\ Range(vecs) \subseteq VecChunks
    /\ DOMAIN metaKv \subseteq VecIds /\ Range(metaKv) \subseteq VecChunks
    /\ DOMAIN idmap \subseteq VecChunks /\ Range(idmap) \subseteq VecIds
    /\ DOMAIN docIndex \subseteq Range(StorePath)
    /\ \A p \in DOMAIN docIndex : docIndex[p] \subseteq VecIds
    /\ nextId \in 0..MaxIds /\ (sidecar = Garbage \/ sidecar \in 0..MaxIds)
    /\ docRow \in [StoreDocs -> {"new", "there", "bare", "lost", "deleted"}]
    /\ torn \subseteq VecIds
    /\ fsFails \in 0..MaxFsFails /\ fsKills \in 0..MaxKills

\* "Reusing a stale counter overwrites an existing vector": no live vector is
\* ever overwritten, whatever the sidecar lost in a kill or in two saves at once.
NeverOverwrites ==
    [][\A i \in DOMAIN vecs \cap DOMAIN vecs' : vecs'[i] = vecs[i]]_fstVars

\* A vector whose insertion was not cut off, or is not over, is shown as its
\* own chunk and can be removed by its chunk id, after replaces under the same
\* chunk ids and with ids that were used before.
InFlight == {fsCall[t].id : t \in {u \in StoreThreads : Cut(u) # {}}}
Reachable ==
    \A i \in DOMAIN vecs \ (torn \cup InFlight) :
        /\ i \in DOMAIN metaKv /\ metaKv[i] = vecs[i]
        /\ vecs[i] \in DOMAIN idmap /\ idmap[vecs[i]] = i

\* Until a process is killed, a removal takes no vector of a document that
\* neither is the request's nor shares its path.
Removing(t) == fsCall[t].at \in {"remove", "sweep"}
OthersSpared ==
    [][fsKills' = 0 => \A i \in DOMAIN vecs \ DOMAIN vecs' : \E t \in StoreThreads :
          /\ Removing(t)
          /\ \/ DocOf(vecs[i]) = fsCall[t].doc
             \/ fsCall[t].at = "sweep" /\ PathOf(vecs[i]) = StorePath[fsCall[t].doc]]_fstVars

\* The same across kills, as the comments have it: "stale idmap entries (int_id
\* already deleted) are skipped".  A kill lets an id be used again.
StaleSkipped ==
    [][\A i \in DOMAIN vecs \ DOMAIN vecs' : \E t \in StoreThreads :
          /\ Removing(t)
          /\ \/ DocOf(vecs[i]) = fsCall[t].doc
             \/ fsCall[t].at = "sweep" /\ PathOf(vecs[i]) = StorePath[fsCall[t].doc]]_fstVars

\* A document that was deleted has no vector left but those whose insertion
\* was cut off.
DeletedGone ==
    \A i \in DOMAIN vecs \ torn : docRow[DocOf(vecs[i])] # "deleted"

\* What the store promises, whatever is killed: no vector is overwritten, none is
\* lost from its indexes, a removal takes its own, and a delete leaves nothing.
FusionSafe ==
    /\ [](FstTypeOK /\ Reachable /\ DeletedGone)
    /\ NeverOverwrites /\ OthersSpared
=============================================================================
