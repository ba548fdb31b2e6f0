----------------------------- MODULE Bm25Index -----------------------------
(***************************************************************************)
(* The keyword index of one knowledge base (engine/bm25_index.py): a copy  *)
(* in memory that answers searches, and the bm25_index.db it is loaded     *)
(* from.  Calls come from a thread pool and share one SQLite connection;   *)
(* what one statement wrote belongs to the connection's open transaction,  *)
(* whoever wrote it, until somebody commits.                               *)
(*                                                                         *)
(*   texts, inverted, df, size   _doc_texts, _inverted, _df, _corpus_size  *)
(*   txn     the tables as the connection sees them                        *)
(*   disk    the tables as last committed                                  *)
(*                                                                         *)
(* A text is the set of its tokens; frequencies, lengths and the scores    *)
(* computed from them are left out.                                        *)
(***************************************************************************)
EXTENDS Integers, FiniteSets

CONSTANTS
    Writers,     \* threads that add and remove chunks
    Batches,     \* the chunk ids of each document; an id begins with that of
                 \* its document (routes_docs.py 219)
    Tokens,
    MaxOps,      \* bound: calls
    MaxFaults,   \* bound: store calls that fail
    MaxRestarts  \* bound: kills of the process

ASSUME TokensAssumption == IsFiniteSet(Tokens)
ASSUME BatchAssumption  == /\ \A b \in Batches : IsFiniteSet(b) /\ b # {}
                           /\ \A b \in Batches, c \in Batches : b # c => b \cap c = {}
ASSUME LimitAssumption  == MaxOps \in Nat /\ MaxFaults \in Nat /\ MaxRestarts \in Nat

VARIABLES
    texts, inverted, df, size,  \* memory
    txn, disk,
    pc, op,                     \* what each thread does next, and its call
    ops, faults, restarts,
    want,                       \* history: what the answered calls promised
    spoiled,                    \* history: chunks a failure may have damaged
    again,                      \* history: chunks added while in the index
    crossed                     \* history: two calls have overlapped

memory == <<texts, inverted, df, size>>
bounds == <<ops, faults, restarts>>
vars == <<texts, inverted, df, size, txn, disk, pc, op, ops, faults, restarts,
          want, spoiled, again, crossed>>

Ids  == UNION Batches
Rows == Ids \X SUBSET Tokens      \* a chunk and its text

Indexed(t)        == {r[1] : r \in t}
Without(t, S)     == {r \in t : r[1] \notin S}
Postings(t)       == UNION {r[2] \X {r[1]} : r \in t}
Frequency(inv, k) == Cardinality({p \in inv : p[1] = k})
Image(n, t, inv)  == [size |-> n, docs |-> t, postings |-> inv]

NoCall == [kind |-> "none", batch |-> {}, text |-> {}, gone |-> {},
           stats |-> 0, todo |-> {}]

Init ==
    /\ texts = {}
    /\ inverted = {}
    /\ df = [k \in Tokens |-> 0]
    /\ size = 0
    /\ txn = Image(0, {}, {})
    /\ disk = txn
    /\ pc = [w \in Writers |-> "idle"]
    /\ op = [w \in Writers |-> NoCall]
    /\ ops = 0
    /\ faults = 0
    /\ restarts = 0
    /\ want = {}
    /\ spoiled = {}
    /\ again = {}
    /\ crossed = FALSE

Quiet == \A w \in Writers : pc[w] = "idle"
Others(w) == {v \in Writers \ {w} : pc[v] # "idle"}
\* A new call; callers that overlap work on different documents.
Call(w, b) ==
    /\ pc[w] = "idle"
    /\ \A v \in Others(w) : op[v].batch # b
    /\ ops < MaxOps
    /\ ops' = ops + 1
    /\ crossed' = (crossed \/ Others(w) # {})

-----------------------------------------------------------------------------
(* The memory side of a call, up to the first SQL statement.               *)

\* (Operators named ...Bug are faulty variants the properties must catch.)

\* add_documents: the old postings of a known chunk go first.
Retracted(b) == inverted \ Postings({r \in texts : r[1] \in b})

\* The rows (token, chunk) of a batch.
Posted(t, b) == t \X b

\* P0-1/P3-2: only a chunk that is new to the index counts.
Grown(b) == size + Cardinality(b \ Indexed(texts))

Add(w, b, t) ==
    /\ Call(w, b)
    /\ again' = again \cup (b \cap Indexed(texts))
    /\ texts' = Without(texts, b) \cup (b \X {t})
    /\ inverted' = Retracted(b) \cup Posted(t, b)
    /\ df' = [k \in Tokens |-> IF k \in t THEN Frequency(inverted', k) ELSE df[k]]
    /\ size' = Grown(b)
    /\ op' = [op EXCEPT ![w] = [kind |-> "add", batch |-> b, text |-> t, gone |-> {},
                                stats |-> size', todo |-> b]]
    /\ pc' = [pc EXCEPT ![w] = "stats"]
    /\ UNCHANGED <<txn, disk, faults, restarts, want, spoiled>>

\* P3-2: the counts of the tokens that lose a posting are left as they are.
RecountedBug(lost) == df
Recounted(lost)    == [k \in Tokens |-> IF \E p \in lost : p[1] = k
                                        THEN Frequency(inverted \ lost, k) ELSE df[k]]

\* The call is over and kept its promise.
Promise(b, rows) == want' = Without(want, b) \cup rows

\* remove_chunks and remove_document; "undo" is the removal with which
\* _write_doc_to_stores takes back an add that failed.
Retract(w, b, kind) ==
    LET gone == b \cap Indexed(texts)
        lost == Postings({r \in texts : r[1] \in b}) \cap inverted
    IN  IF gone = {}
        THEN /\ pc' = [pc EXCEPT ![w] = "idle"]
             /\ op' = [op EXCEPT ![w] = NoCall]
             /\ Promise(b, {})
             /\ UNCHANGED <<memory, txn, disk, spoiled>>
        ELSE /\ texts' = Without(texts, b)
             /\ inverted' = inverted \ lost
             /\ df' = Recounted(lost)
             /\ size' = size - Cardinality(gone)
             /\ op' = [op EXCEPT ![w] = [kind |-> kind, batch |-> b, text |-> {},
                                         gone |-> gone, stats |-> size', todo |-> {}]]
             /\ pc' = [pc EXCEPT ![w] = "stats"]
             /\ UNCHANGED <<txn, disk, want, spoiled>>

Remove(w, b) ==
    /\ Call(w, b)
    /\ Retract(w, b, "remove")
    /\ UNCHANGED <<faults, restarts, again>>

Undo(w) ==
    /\ pc[w] = "undo"
    /\ Retract(w, op[w].batch, "undo")
    /\ UNCHANGED <<bounds, again, crossed>>

\* The removal fails on the vector table and never gets to the index (503,
\* "orphan data likely durable").
UndoFails(w) ==
    /\ pc[w] = "undo"
    /\ faults < MaxFaults
    /\ faults' = faults + 1
    /\ spoiled' = spoiled \cup op[w].batch
    /\ pc' = [pc EXCEPT ![w] = "idle"]
    /\ op' = [op EXCEPT ![w] = NoCall]
    /\ UNCHANGED <<memory, txn, disk, ops, restarts, want, again, crossed>>

-----------------------------------------------------------------------------
(* _persist_delta, statement by statement.                                 *)

Run(w, at, then, image) ==
    /\ pc[w] = at
    /\ pc' = [pc EXCEPT ![w] = then]
    /\ txn' = image
    /\ UNCHANGED <<memory, disk, bounds, want, spoiled, again, crossed>>

WriteStats(w) ==
    /\ Run(w, "stats", IF op[w].kind = "add" THEN "docs" ELSE "delPostings",
           [txn EXCEPT !.size = op[w].stats])
    /\ UNCHANGED op

WriteDoc(w) ==
    /\ pc[w] = "docs"
    /\ \E i \in op[w].todo :
         /\ op' = [op EXCEPT ![w].todo = @ \ {i}]
         /\ Run(w, "docs", IF op[w].todo = {i} THEN "postings" ELSE "docs",
                [txn EXCEPT !.docs = Without(@, {i}) \cup {<<i, op[w].text>>}])

WritePostings(w) ==
    /\ Run(w, "postings", "commit", [txn EXCEPT !.postings = @ \cup Posted(op[w].text, op[w].batch)])
    /\ UNCHANGED op

\* The postings of the removed chunks go, and no others.
WithoutPostings(S) == {p \in txn.postings : p[2] \notin S}

DeletePostings(w) ==
    /\ Run(w, "delPostings", "delDocs", [txn EXCEPT !.postings = WithoutPostings(op[w].gone)])
    /\ UNCHANGED op

DeleteDocs(w) ==
    /\ Run(w, "delDocs", "commit", [txn EXCEPT !.docs = Without(@, op[w].gone)])
    /\ UNCHANGED op

Commit(w) ==
    /\ pc[w] = "commit"
    /\ disk' = txn
    /\ Promise(op[w].batch, IF op[w].kind = "add" THEN op[w].batch \X {op[w].text} ELSE {})
    /\ pc' = [pc EXCEPT ![w] = "idle"]
    /\ op' = [op EXCEPT ![w] = NoCall]
    /\ UNCHANGED <<memory, txn, bounds, spoiled, again, crossed>>

\* The caller of a failed add removes its chunks again.
AfterFailureBug(w) == "idle"
AfterFailure(w)    == IF op[w].kind = "add" THEN "undo" ELSE "idle"

\* A statement or the commit raises.  SQLite keeps the transaction, or has
\* rolled it back; nothing else does.
Fails(w) ==
    /\ pc[w] \in {"stats", "docs", "postings", "delPostings", "delDocs", "commit"}
    /\ faults < MaxFaults
    /\ faults' = faults + 1
    /\ txn' \in {txn, disk}
    /\ pc' = [pc EXCEPT ![w] = AfterFailure(w)]
    /\ op' = IF op[w].kind = "add" THEN op ELSE [op EXCEPT ![w] = NoCall]
    /\ spoiled' = spoiled \cup (IF op[w].kind = "add" THEN {} ELSE op[w].batch)
                          \cup UNION {op[v].batch : v \in Others(w)}
    /\ UNCHANGED <<memory, disk, ops, restarts, want, again, crossed>>

\* The process is killed and loads the index again.
Restart ==
    /\ restarts < MaxRestarts
    /\ restarts' = restarts + 1
    /\ texts' = disk.docs
    /\ inverted' = disk.postings
    /\ df' = [k \in Tokens |-> Frequency(disk.postings, k)]
    /\ size' = disk.size
    /\ txn' = disk
    /\ pc' = [w \in Writers |-> "idle"]
    /\ op' = [w \in Writers |-> NoCall]
    /\ spoiled' = IF crossed THEN spoiled \cup UNION {op[w].batch : w \in Writers} ELSE spoiled
    /\ UNCHANGED <<disk, ops, faults, want, again, crossed>>

Waiting == Quiet /\ UNCHANGED vars

Next ==
    \/ Restart \/ Waiting
    \/ \E w \in Writers :
         \/ \E b \in Batches : (\E t \in SUBSET Tokens : Add(w, b, t)) \/ Remove(w, b)
         \/ Undo(w) \/ UndoFails(w) \/ WriteStats(w) \/ WriteDoc(w) \/ WritePostings(w)
         \/ DeletePostings(w) \/ DeleteDocs(w) \/ Commit(w) \/ Fails(w)

Spec == Init /\ [][Next]_vars

-----------------------------------------------------------------------------
(* Properties.                                                             *)

Tables == [size : Int, docs : SUBSET Rows, postings : SUBSET (Tokens \X Ids)]

\* Every variable has its type.
TypeOK ==
    /\ texts \subseteq Rows
    /\ inverted \subseteq Tokens \X Ids
    /\ df \in [Tokens -> Nat]
    /\ size \in Int
    /\ txn \in Tables /\ disk \in Tables
    /\ pc \in [Writers -> {"idle", "stats", "docs", "postings", "delPostings",
                           "delDocs", "commit", "undo"}]
    /\ op \in [Writers -> [kind : {"none", "add", "remove", "undo"},
                           batch : Batches \cup {{}}, text : SUBSET Tokens,
                           gone : SUBSET Ids, stats : Int, todo : SUBSET Ids]]
    /\ ops \in 0..MaxOps /\ faults \in 0..MaxFaults /\ restarts \in 0..MaxRestarts
    /\ want \subseteq Rows
    /\ spoiled \subseteq Ids /\ again \subseteq Ids
    /\ crossed \in BOOLEAN

\* A copy of the index holds what was promised: the text of every chunk, and
\* the postings of those in S.
Holds(docs, postings, S) ==
    /\ Without(docs, spoiled) = Without(want, spoiled)
    /\ {p \in postings : p[2] \in S} = Postings({r \in want : r[1] \in S})

\* Between calls, memory and bm25_index.db hold exactly what the answered calls
\* added and did not remove: a failed add was taken back, a kill cost nothing,
\* and overlapping calls kept their rows apart (L6, "the in-memory index would
\* then diverge from disk").  Left out: chunks whose removal failed, those
\* another call was writing when a statement failed or the process died, and
\* the postings of chunks that were added again.
Kept ==
    Quiet => LET S == Ids \ (spoiled \cup again)
             IN  Holds(texts, inverted, S) /\ Holds(disk.docs, disk.postings, S)

\* corpus_size, the N of the idf, is the number of chunks in the index, in
\* memory and on disk (P0-1: a re-index used to inflate it), as long as calls
\* do not overlap and no removal fails.
CountExact ==
    Quiet /\ spoiled = {} /\ ~crossed =>
        size = Cardinality(Indexed(texts)) /\ disk.size = Cardinality(Indexed(disk.docs))

\* The document frequency of a token that can be found is the length of its
\* posting list (P3-2, "_df updated incrementally per touched token instead
\* of a full O(corpus) rebuild"), until a chunk is added again.
FrequencyExact ==
    again = {} => \A p \in inverted : df[p[1]] = Frequency(inverted, p[1])

\* "retract its old postings from _df / _inverted before re-inserting, so the
\* tf reflects the new text, not the old + new": the postings of a chunk that
\* was added again are those of its new text.
ReindexedClean ==
    Quiet => LET S == Ids \ spoiled
             IN  Holds(texts, inverted, S) /\ Holds(disk.docs, disk.postings, S)

\* The statistics are those of the rows they are about.
StatisticsExact == TypeOK /\ CountExact /\ FrequencyExact
=============================================================================
