----------------------------- MODULE MetadataConn -----------------------------
(***************************************************************************)
(* The one SQLite connection of a base's catalogue (store/                 *)
(* metadata_store.py), under the calls that handlers make in a thread      *)
(* pool.  A writer holds the lock from its first statement to its commit;  *)
(* a read takes no lock, runs on the same connection, and rolls it back    *)
(* when it raises.                                                         *)
(*                                                                         *)
(*   disk     what is committed                                            *)
(*   seen     what the connection sees: disk and an open transaction       *)
(*   holder   the thread that holds the lock                               *)
(*   caller   what each thread runs, and the statements left of it         *)
(*                                                                         *)
(* A catalogue is the rows of the documents, each with the keys its        *)
(* metadata were patched with, and the chunk rows.  update_chunk_count and *)
(* set_chunk_meta_field are one statement on values that are left out.     *)
(* SQLite runs one statement of a connection at a time.                    *)
(***************************************************************************)
EXTENDS Integers, FiniteSets

CONSTANTS
    CatDocs, CatChunks,   \* documents; how many chunks each has
    MetaKeys,             \* keys that are patched
    CatThreads,
    MaxCatCalls, MaxCatFails, MaxCatKills   \* bounds

NoHolder == "nobody"

ASSUME CatAssumption ==
    /\ CatChunks \in Nat \ {0} /\ NoHolder \notin CatThreads
    /\ {MaxCatCalls, MaxCatFails, MaxCatKills} \subseteq Nat

VARIABLES disk, seen, holder, caller, catCalls, catFails, catKills,
          discarded    \* history: a read has rolled back the open transaction

catVars == <<disk, seen, holder, caller, catCalls, catFails, catKills, discarded>>

Catalogue(rows, chunks) == [rows |-> rows, chunks |-> chunks]
Ops   == {"add_document", "add_chunks", "delete_document", "delete_chunks_by_doc", "patch"}
Rests == [op |-> "none"]

ConnInit ==
    /\ disk = Catalogue(<<>>, {}) /\ seen = disk /\ holder = NoHolder
    /\ caller = [t \in CatThreads |-> Rests]
    /\ catCalls = 0 /\ catFails = 0 /\ catKills = 0 /\ discarded = FALSE

\* The statements of each call; executemany runs one for each chunk.
StatementCount(op) ==
    CASE op = "add_chunks"                               -> CatChunks
      [] op \in {"delete_document", "patch"}             -> 2
      [] op \in {"add_document", "delete_chunks_by_doc"} -> 1
Statement(op, i) ==
    CASE op = "add_document"         -> "put row"
      [] op = "add_chunks"           -> "put chunk"
      [] op = "delete_document"      -> IF i = 1 THEN "drop chunks" ELSE "drop row"
      [] op = "delete_chunks_by_doc" -> "drop chunks"
      [] op = "patch"                -> IF i = 1 THEN "read" ELSE "merge"

KeysOfBug(c, d) == {}
KeysOf(c, d) == IF d \in DOMAIN c.rows THEN c.rows[d] ELSE {}
RowsWith(c, d, keys) == [e \in DOMAIN c.rows \cup {d} |-> IF e = d THEN keys ELSE c.rows[e]]
RowsWithout(c, d) == [e \in DOMAIN c.rows \ {d} |-> c.rows[e]]
ChunksWithout(c, d) == {x \in c.chunks : x[1] # d}

\* The catalogue c after the next statement of call q.
Executed(q, c) ==
    LET s == Statement(q.op, q.next) IN
    CASE s = "put row"     -> Catalogue(RowsWith(c, q.doc, {}), c.chunks)
      [] s = "drop row"    -> Catalogue(RowsWithout(c, q.doc), c.chunks)
      [] s = "put chunk"   -> Catalogue(c.rows, c.chunks \cup {<<q.doc, q.next>>})
      [] s = "drop chunks" -> Catalogue(c.rows, ChunksWithout(c, q.doc))
      [] s = "read"        -> c
      [] s = "merge"       -> IF q.doc \notin DOMAIN c.rows THEN c
                              ELSE Catalogue(RowsWith(c, q.doc, q.read \cup {q.key}), c.chunks)

-----------------------------------------------------------------------------
(* Writers.                                                                *)

\* _cursor: the lock is taken, and held until the transaction is over.
Unheld == holder = NoHolder

BeginCall(t) ==
    /\ caller[t] = Rests /\ Unheld /\ holder' = t
    /\ catCalls < MaxCatCalls /\ catCalls' = catCalls + 1
    /\ \E op \in Ops, d \in CatDocs, k \in MetaKeys :
          caller' = [caller EXCEPT ![t] = [op |-> op, doc |-> d, key |-> k, next |-> 1, read |-> {}]]
    /\ discarded' = FALSE
    /\ UNCHANGED <<disk, seen, catFails, catKills>>

Execute(t) ==
    LET q == caller[t] IN
    /\ q # Rests /\ q.next <= StatementCount(q.op)
    /\ seen' = Executed(q, seen)
    /\ caller' = [caller EXCEPT ![t] =
                    [op |-> q.op, doc |-> q.doc, key |-> q.key, next |-> q.next + 1,
                     read |-> IF Statement(q.op, q.next) = "read" THEN KeysOf(seen, q.doc) ELSE q.read]]
    /\ UNCHANGED <<disk, holder, catCalls, catFails, catKills, discarded>>

Finish(t) == /\ caller' = [caller EXCEPT ![t] = Rests]
             /\ holder' = NoHolder

Commit(t) ==
    /\ caller[t] # Rests /\ caller[t].next > StatementCount(caller[t].op)
    /\ disk' = seen
    /\ Finish(t)
    /\ UNCHANGED <<seen, catCalls, catFails, catKills, discarded>>

\* A statement or the commit raises: conn.rollback(), and the lock is freed.
RolledBack == disk

Raise(t) ==
    /\ caller[t] # Rests
    /\ catFails < MaxCatFails /\ catFails' = catFails + 1
    /\ seen' = RolledBack
    /\ Finish(t)
    /\ UNCHANGED <<disk, catCalls, catKills, discarded>>

-----------------------------------------------------------------------------
(* Reads and the end of the process.                                       *)

\* A read that raises (a statement that is interrupted, metadata that
\* json_extract cannot parse) rolls back whatever is open on the connection.
ReadRaises ==
    /\ catFails < MaxCatFails /\ catFails' = catFails + 1
    /\ seen' = disk
    /\ discarded' = (discarded \/ holder # NoHolder)
    /\ UNCHANGED <<disk, holder, caller, catCalls, catKills>>

KillProcess ==
    /\ catKills < MaxCatKills /\ catKills' = catKills + 1
    /\ seen' = disk /\ holder' = NoHolder
    /\ caller' = [t \in CatThreads |-> Rests]
    /\ UNCHANGED <<disk, catCalls, catFails, discarded>>

ConnNext ==
    \/ \E t \in CatThreads : BeginCall(t) \/ Execute(t) \/ Commit(t) \/ Raise(t)
    \/ ReadRaises \/ KillProcess

ConnSpec == ConnInit /\ [][ConnNext]_catVars

-----------------------------------------------------------------------------
(* Properties.                                                             *)

\* Every variable has its type, and nothing is pending while nobody writes.
Catalogues == [rows : UNION {[D -> SUBSET MetaKeys] : D \in SUBSET CatDocs},
               chunks : SUBSET (CatDocs \X (1..CatChunks))]
Pending    == [op : Ops, doc : CatDocs, key : MetaKeys, next : 1..(CatChunks + 3),
               read : SUBSET MetaKeys]
ConnTypeOK ==
    /\ disk \in Catalogues /\ seen \in Catalogues
    /\ caller \in [CatThreads -> Pending \cup {Rests}]
    /\ holder \in CatThreads \cup {NoHolder}
    /\ holder = NoHolder => seen = disk

\* "hold the lock across the whole transaction so two threads never
\* commit/rollback the shared connection mid-statement": whatever writers
\* raise or are killed, what reaches the disk is the whole of one call of the
\* thread that held the lock, applied to what was there, so that no patch is
\* lost and no document half removed; unless a read that failed had rolled its
\* transaction back.
Effect(q, c) ==
    CASE q.op = "add_document"         -> Catalogue(RowsWith(c, q.doc, {}), c.chunks)
      [] q.op = "add_chunks"           -> Catalogue(c.rows, c.chunks \cup ({q.doc} \X (1..CatChunks)))
      [] q.op = "delete_document"      -> Catalogue(RowsWithout(c, q.doc), ChunksWithout(c, q.doc))
      [] q.op = "delete_chunks_by_doc" -> Catalogue(c.rows, ChunksWithout(c, q.doc))
      [] q.op = "patch"                ->
             IF q.doc \notin DOMAIN c.rows THEN c
             ELSE Catalogue(RowsWith(c, q.doc, c.rows[q.doc] \cup {q.key}), c.chunks)
CommitsWhole ==
    [][disk' # disk => /\ holder \in CatThreads
                       /\ discarded \/ disk' = Effect(caller[holder], disk)]_catVars

\* The same whatever reads do: "Reads only fetch (no commit/rollback), so
\* cross-thread interleaving on the connection is safe here".
CommitsWholeAlways ==
    [][disk' # disk => /\ holder \in CatThreads
                       /\ disk' = Effect(caller[holder], disk)]_catVars

\* The shared connection commits whole calls, one after the other.
ConnSafe == []ConnTypeOK /\ CommitsWhole
=============================================================================
