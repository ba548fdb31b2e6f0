--------------------------- MODULE Stores_proofs ----------------------------
(***************************************************************************)
(* Proofs about MetadataConn, QdrantStore, RemoteStore and AdminStores,    *)
(* for every number of threads, bases, documents, chunks and names.  The   *)
(* invariant of the first says how far the open transaction has come: till *)
(* a read discards it, what the connection sees is what has been committed *)
(* after the first statements of the call that holds the lock (Progressed).*)
(* That of the second says which collections a base can have written to;   *)
(* that of the third what the wire and the requests still hold of a        *)
(* document, given its row (OneAdd, Prompt, Gone); that of the last which  *)
(* side made what is at a path.                                            *)
(***************************************************************************)
EXTENDS MetadataConn, QdrantStore, RemoteStore, AdminStores, TLAPS

(* The metadata connection.                                                *)

\* What the first n statements of q make of c.
Progressed(q, c, n) ==
    CASE n = 0 -> c
      [] n > 0 /\ q.op = "add_chunks" ->
             Catalogue(c.rows, c.chunks \cup ({q.doc} \X (1..n)))
      [] n = 1 /\ q.op \in {"add_document", "delete_chunks_by_doc"} -> Effect(q, c)
      [] n = 1 /\ q.op = "delete_document" -> Catalogue(c.rows, ChunksWithout(c, q.doc))
      [] n = 1 /\ q.op = "patch" -> c
      [] n = 2 /\ q.op \in {"delete_document", "patch"} -> Effect(q, c)

Held == \A t \in CatThreads : caller[t] # Rests <=> holder = t

\* A patch that has read has read what is committed.
HasRead(q, c) == q.op = "patch" /\ q.next > 1 => q.read = KeysOf(c, q.doc)

OnItsWay == \A t \in CatThreads :
    holder = t => /\ caller[t].next <= StatementCount(caller[t].op) + 1
                  /\ ~discarded => /\ HasRead(caller[t], disk)
                                   /\ seen = Progressed(caller[t], disk, caller[t].next - 1)

ConnInv == ConnTypeOK /\ Held /\ OnItsWay

-----------------------------------------------------------------------------
(* Statements.                                                             *)

\* What a statement writes is a catalogue.
LEMMA RowsTyped ==
  ASSUME NEW c \in Catalogues, NEW d \in CatDocs, NEW keys \in SUBSET MetaKeys
  PROVE  /\ Catalogue(RowsWith(c, d, keys), c.chunks) \in Catalogues
         /\ Catalogue(RowsWithout(c, d), c.chunks) \in Catalogues
         /\ Catalogue(c.rows, ChunksWithout(c, d)) \in Catalogues
         /\ KeysOf(c, d) \in SUBSET MetaKeys
<1>1. /\ c.rows \in UNION {[D -> SUBSET MetaKeys] : D \in SUBSET CatDocs}
      /\ c.chunks \in SUBSET (CatDocs \X (1..CatChunks))
  BY DEF Catalogues
<1>2. PICK D \in SUBSET CatDocs : c.rows \in [D -> SUBSET MetaKeys]
  BY <1>1
<1>3. RowsWith(c, d, keys) \in [D \cup {d} -> SUBSET MetaKeys]
  BY <1>2 DEF RowsWith
<1>4. RowsWithout(c, d) \in [D \ {d} -> SUBSET MetaKeys]
  BY <1>2 DEF RowsWithout
<1>5. D \cup {d} \in SUBSET CatDocs /\ D \ {d} \in SUBSET CatDocs
  OBVIOUS
<1>6. /\ RowsWith(c, d, keys) \in UNION {[E -> SUBSET MetaKeys] : E \in SUBSET CatDocs}
      /\ RowsWithout(c, d) \in UNION {[E -> SUBSET MetaKeys] : E \in SUBSET CatDocs}
  BY <1>3, <1>4, <1>5
<1>7. ChunksWithout(c, d) \in SUBSET (CatDocs \X (1..CatChunks))
  BY <1>1 DEF ChunksWithout
<1>8. KeysOf(c, d) \in SUBSET MetaKeys
  BY <1>2 DEF KeysOf
<1> QED
  BY <1>1, <1>6, <1>7, <1>8 DEF Catalogue, Catalogues

\* A statement makes a catalogue of a catalogue.
LEMMA ExecutedTyped ==
  ASSUME NEW c \in Catalogues, NEW q \in Pending, q.next <= StatementCount(q.op)
  PROVE  Executed(q, c) \in Catalogues
<1>1. /\ q.op \in Ops /\ q.doc \in CatDocs /\ q.key \in MetaKeys /\ q.read \in SUBSET MetaKeys
      /\ q.next \in Nat \ {0}
  BY DEF Pending
<1>2. {} \in SUBSET MetaKeys /\ q.read \cup {q.key} \in SUBSET MetaKeys
  BY <1>1
<1>3. CASE q.op = "add_chunks"
  <2>1. <<q.doc, q.next>> \in CatDocs \X (1..CatChunks)
    BY <1>1, <1>3, CatAssumption DEF StatementCount
  <2>2. Executed(q, c) = Catalogue(c.rows, c.chunks \cup {<<q.doc, q.next>>})
    BY <1>3 DEF Executed, Statement
  <2>3. /\ c.rows \in UNION {[D -> SUBSET MetaKeys] : D \in SUBSET CatDocs}
        /\ c.chunks \in SUBSET (CatDocs \X (1..CatChunks))
    BY DEF Catalogues
  <2>4. c.chunks \cup {<<q.doc, q.next>>} \in SUBSET (CatDocs \X (1..CatChunks))
    BY <2>1, <2>3
  <2> QED
    BY <2>2, <2>3, <2>4 DEF Catalogue, Catalogues
<1>4. CASE q.op # "add_chunks"
  <2>1. \/ Executed(q, c) = c
        \/ Executed(q, c) = Catalogue(RowsWith(c, q.doc, {}), c.chunks)
        \/ Executed(q, c) = Catalogue(RowsWith(c, q.doc, q.read \cup {q.key}), c.chunks)
        \/ Executed(q, c) = Catalogue(RowsWithout(c, q.doc), c.chunks)
        \/ Executed(q, c) = Catalogue(c.rows, ChunksWithout(c, q.doc))
    BY <1>1, <1>4 DEF Executed, Statement, Ops
  <2> QED
    BY <1>1, <1>2, <2>1, RowsTyped
<1> QED
  BY <1>3, <1>4

\* The next statement takes a call one statement further.
LEMMA ExecutedProgresses ==
  ASSUME NEW c \in Catalogues, NEW q \in Pending, q.next <= StatementCount(q.op), HasRead(q, c)
  PROVE  Executed(q, Progressed(q, c, q.next - 1)) = Progressed(q, c, q.next)
<1>1. q.op \in Ops /\ q.next \in Nat \ {0}
  BY DEF Pending
<1>2. CASE q.op = "add_document"
  <2>1. q.next = 1
    BY <1>1, <1>2 DEF StatementCount
  <2> QED
    BY <1>2, <2>1 DEF Progressed, Executed, Statement, Effect
<1>3. CASE q.op = "delete_chunks_by_doc"
  <2>1. q.next = 1
    BY <1>1, <1>3 DEF StatementCount
  <2> QED
    BY <1>3, <2>1 DEF Progressed, Executed, Statement, Effect
<1>4. CASE q.op = "add_chunks"
  <2>1. Progressed(q, c, q.next) = Catalogue(c.rows, c.chunks \cup ({q.doc} \X (1..q.next)))
    BY <1>1, <1>4 DEF Progressed
  <2>2. CASE q.next = 1
    <3>1. Progressed(q, c, q.next - 1) = c
      BY <2>2 DEF Progressed
    <3>2. Executed(q, c) = Catalogue(c.rows, c.chunks \cup {<<q.doc, q.next>>})
      BY <1>4 DEF Executed, Statement
    <3>3. {q.doc} \X (1..q.next) = {<<q.doc, q.next>>}
      BY <2>2
    <3> QED
      BY <2>1, <3>1, <3>2, <3>3
  <2>3. CASE q.next > 1
    <3> DEFINE d == Catalogue(c.rows, c.chunks \cup ({q.doc} \X (1..(q.next - 1))))
    <3>1. Progressed(q, c, q.next - 1) = d
      BY <1>1, <1>4, <2>3 DEF Progressed
    <3>2. Executed(q, d) = Catalogue(d.rows, d.chunks \cup {<<q.doc, q.next>>})
      BY <1>4 DEF Executed, Statement
    <3>3. ({q.doc} \X (1..(q.next - 1))) \cup {<<q.doc, q.next>>} = {q.doc} \X (1..q.next)
      BY <1>1, <2>3
    <3>4. d.rows = c.rows /\ d.chunks = c.chunks \cup ({q.doc} \X (1..(q.next - 1)))
      BY DEF Catalogue
    <3>5. d.chunks \cup {<<q.doc, q.next>>} = c.chunks \cup ({q.doc} \X (1..q.next))
      BY <3>3, <3>4
    <3> QED
      BY <2>1, <3>1, <3>2, <3>4, <3>5
  <2> QED
    BY <1>1, <2>2, <2>3
<1>5. CASE q.op = "delete_document"
  <2>1. q.next \in {1, 2}
    BY <1>1, <1>5 DEF StatementCount
  <2>2. CASE q.next = 1
    BY <1>5, <2>2 DEF Progressed, Executed, Statement
  <2>3. CASE q.next = 2
    <3> DEFINE d == Catalogue(c.rows, ChunksWithout(c, q.doc))
    <3>1. Progressed(q, c, q.next - 1) = d
      BY <1>5, <2>3 DEF Progressed
    <3>2. d.rows = c.rows /\ d.chunks = ChunksWithout(c, q.doc)
      BY DEF Catalogue
    <3>3. Executed(q, d) = Catalogue(RowsWithout(d, q.doc), d.chunks)
      BY <1>5, <2>3 DEF Executed, Statement
    <3>4. RowsWithout(d, q.doc) = RowsWithout(c, q.doc)
      BY <3>2 DEF RowsWithout
    <3>5. Progressed(q, c, q.next) = Catalogue(RowsWithout(c, q.doc), ChunksWithout(c, q.doc))
      BY <1>5, <2>3 DEF Progressed, Effect
    <3> QED
      BY <3>1, <3>2, <3>3, <3>4, <3>5
  <2> QED
    BY <2>1, <2>2, <2>3
<1>6. CASE q.op = "patch"
  <2>1. q.next \in {1, 2}
    BY <1>1, <1>6 DEF StatementCount
  <2>2. CASE q.next = 1
    BY <1>6, <2>2 DEF Progressed, Executed, Statement
  <2>3. CASE q.next = 2
    <3>1. Progressed(q, c, q.next - 1) = c /\ Progressed(q, c, q.next) = Effect(q, c)
      BY <1>6, <2>3 DEF Progressed
    <3>2. q.read = KeysOf(c, q.doc)
      BY <1>6, <2>3 DEF HasRead
    <3>3. Executed(q, c) = IF q.doc \notin DOMAIN c.rows THEN c
                           ELSE Catalogue(RowsWith(c, q.doc, q.read \cup {q.key}), c.chunks)
      BY <1>6, <2>3 DEF Executed, Statement
    <3>4. Effect(q, c) = IF q.doc \notin DOMAIN c.rows THEN c
                         ELSE Catalogue(RowsWith(c, q.doc, c.rows[q.doc] \cup {q.key}), c.chunks)
      BY <1>6 DEF Effect
    <3>5. q.doc \in DOMAIN c.rows => q.read = c.rows[q.doc]
      BY <3>2 DEF KeysOf
    <3> QED
      BY <3>1, <3>3, <3>4, <3>5
  <2> QED
    BY <2>1, <2>2, <2>3
<1> QED
  BY <1>1, <1>2, <1>3, <1>4, <1>5, <1>6 DEF Ops

\* After its last statement a call has had its effect.
LEMMA Completed ==
  ASSUME NEW c, NEW q \in Pending
  PROVE  Progressed(q, c, StatementCount(q.op)) = Effect(q, c)
<1>1. q.op \in Ops
  BY DEF Pending
<1>2. CASE q.op = "add_chunks"
  BY <1>2, CatAssumption DEF Progressed, StatementCount, Effect
<1>3. CASE q.op \in {"add_document", "delete_chunks_by_doc"}
  BY <1>3 DEF Progressed, StatementCount
<1>4. CASE q.op \in {"delete_document", "patch"}
  BY <1>4 DEF Progressed, StatementCount
<1> QED
  BY <1>1, <1>2, <1>3, <1>4 DEF Ops

-----------------------------------------------------------------------------
(* The invariant.                                                          *)

\* A connection that was just opened on an empty catalogue.
LEMMA ConnInitInv == ConnInit => ConnInv
<1> SUFFICES ASSUME ConnInit PROVE ConnInv
  OBVIOUS
<1>1. /\ disk = Catalogue(<<>>, {}) /\ seen = disk /\ holder = NoHolder
      /\ caller = [t \in CatThreads |-> Rests]
  BY DEF ConnInit
<1>2. disk \in Catalogues
  <2>1. <<>> \in [{} -> SUBSET MetaKeys]
    OBVIOUS
  <2>2. <<>> \in UNION {[D -> SUBSET MetaKeys] : D \in SUBSET CatDocs}
    BY <2>1
  <2> QED
    BY <1>1, <2>2 DEF Catalogue, Catalogues
<1>3. ConnTypeOK
  BY <1>1, <1>2 DEF ConnTypeOK
<1>4. Held /\ OnItsWay
  BY <1>1, CatAssumption DEF Held, OnItsWay
<1> QED
  BY <1>3, <1>4 DEF ConnInv

\* A call that begins, a statement, a commit, a rollback by the writer or by a
\* read, and a kill keep the invariant.
LEMMA ConnStepInv == ConnInv /\ [ConnNext]_catVars => ConnInv'
<1> SUFFICES ASSUME ConnInv, [ConnNext]_catVars PROVE ConnInv'
  OBVIOUS
<1>1. /\ disk \in Catalogues /\ seen \in Catalogues
      /\ caller \in [CatThreads -> Pending \cup {Rests}]
      /\ holder \in CatThreads \cup {NoHolder}
      /\ holder = NoHolder => seen = disk
      /\ Held /\ OnItsWay
  BY DEF ConnInv, ConnTypeOK
<1>2. Rests \notin Pending
  BY DEF Rests, Pending, Ops
<1>3. CatChunks \in Nat \ {0} /\ NoHolder \notin CatThreads
  BY CatAssumption
<1>4. ASSUME NEW t \in CatThreads, BeginCall(t)
      PROVE  ConnInv'
  <2>1. /\ holder = NoHolder /\ holder' = t /\ ~discarded' /\ UNCHANGED <<disk, seen>>
    BY <1>4 DEF BeginCall, Unheld
  <2>2. PICK op \in Ops, d \in CatDocs, k \in MetaKeys :
           caller' = [caller EXCEPT ![t] = [op |-> op, doc |-> d, key |-> k, next |-> 1, read |-> {}]]
    BY <1>4 DEF BeginCall
  <2> DEFINE q == [op |-> op, doc |-> d, key |-> k, next |-> 1, read |-> {}]
  <2>3. q \in Pending
    BY <1>3 DEF Pending
  <2>4. q # Rests /\ q.next = 1 /\ q.op \in Ops
    BY <1>2, <2>3
  <2> HIDE DEF q
  <2>5. caller' = [caller EXCEPT ![t] = q]
    BY <2>2 DEF q
  <2>6. ConnTypeOK'
    BY <1>1, <2>1, <2>3, <2>5, <1>3 DEF ConnTypeOK
  <2>7. Held'
    BY <1>1, <1>3, <2>1, <2>4, <2>5 DEF Held
  <2>8. StatementCount(q.op) \in Nat
    BY <2>4, <1>3 DEF StatementCount, Ops
  <2>9. Progressed(q, disk, q.next - 1) = disk
    BY <2>4 DEF Progressed
  <2>10. HasRead(q, disk)
    BY <2>4 DEF HasRead
  <2>11. OnItsWay'
    <3> SUFFICES ASSUME NEW u \in CatThreads, holder' = u
                 PROVE  /\ caller'[u].next <= StatementCount(caller'[u].op) + 1
                        /\ HasRead(caller'[u], disk')
                        /\ seen' = Progressed(caller'[u], disk', caller'[u].next - 1)
      BY <2>1 DEF OnItsWay
    <3>1. u = t /\ caller'[u] = q /\ seen' = disk' /\ disk' = disk
      BY <1>1, <2>1, <2>5
    <3> QED
      BY <2>4, <2>8, <2>9, <2>10, <3>1
  <2> QED
    BY <2>6, <2>7, <2>11 DEF ConnInv
<1>5. ASSUME NEW t \in CatThreads, Execute(t)
      PROVE  ConnInv'
  <2> DEFINE q == caller[t]
             r == [op |-> q.op, doc |-> q.doc, key |-> q.key, next |-> q.next + 1,
                   read |-> IF Statement(q.op, q.next) = "read" THEN KeysOf(seen, q.doc) ELSE q.read]
  <2>1. /\ q # Rests /\ q.next <= StatementCount(q.op) /\ seen' = Executed(q, seen)
        /\ caller' = [caller EXCEPT ![t] = r] /\ UNCHANGED <<disk, holder, discarded>>
    BY <1>5 DEF Execute
  <2>2. q \in Pending /\ holder = t
    BY <1>1, <2>1 DEF Held
  <2>3. r \in Pending /\ r # Rests
    <3>1. /\ q.op \in Ops /\ q.doc \in CatDocs /\ q.key \in MetaKeys
          /\ q.next \in 1..(CatChunks + 3) /\ q.read \in SUBSET MetaKeys
      BY <2>2 DEF Pending
    <3>2. q.next + 1 \in 1..(CatChunks + 3)
      BY <1>3, <2>1, <3>1 DEF StatementCount, Ops
    <3>3. KeysOf(seen, q.doc) \in SUBSET MetaKeys
      BY <1>1, <3>1, RowsTyped
    <3>4. r \in Pending
      BY <3>1, <3>2, <3>3 DEF Pending
    <3> QED
      BY <1>2, <3>4
  <2>4. seen' \in Catalogues
    BY <1>1, <2>1, <2>2, ExecutedTyped
  <2>5. ConnTypeOK'
    <3> HIDE DEF r, q
    <3> QED
      BY <1>1, <1>3, <2>1, <2>2, <2>3, <2>4 DEF ConnTypeOK
  <2>6. Held'
    <3> HIDE DEF r
    <3> QED
      BY <1>1, <2>1, <2>2, <2>3 DEF Held
  <2>7. /\ r.op = q.op /\ r.doc = q.doc /\ r.key = q.key /\ r.next = q.next + 1
        /\ r.read = IF Statement(q.op, q.next) = "read" THEN KeysOf(seen, q.doc) ELSE q.read
    OBVIOUS
  <2>8. q.op \in Ops /\ q.next \in Nat \ {0}
    BY <2>2 DEF Pending
  <2>9. ASSUME ~discarded
        PROVE  HasRead(r, disk) /\ seen' = Progressed(r, disk, r.next - 1)
    <3>1. HasRead(q, disk) /\ seen = Progressed(q, disk, q.next - 1)
      BY <1>1, <2>2, <2>9 DEF OnItsWay
    <3>2. seen' = Progressed(q, disk, q.next)
      BY <1>1, <2>1, <2>2, <3>1, ExecutedProgresses
    <3>3. Progressed(r, disk, r.next - 1) = Progressed(q, disk, q.next)
      <4> HIDE DEF r, q
      <4>1. r.next - 1 = q.next
        BY <2>7, <2>8
      <4>2. Effect(r, disk) = Effect(q, disk)
        BY <2>7 DEF Effect
      <4> QED
        BY <2>7, <4>1, <4>2 DEF Progressed
    <3>4. HasRead(r, disk)
      <4> HIDE DEF r, q
      <4>1. CASE q.op = "patch" /\ q.next = 1
        <5>1. seen = disk
          BY <3>1, <4>1 DEF Progressed
        <5>2. r.read = KeysOf(seen, q.doc)
          BY <2>7, <4>1 DEF Statement
        <5> QED
          BY <2>7, <5>1, <5>2 DEF HasRead
      <4>2. CASE q.op = "patch" /\ q.next # 1
        <5>1. r.read = q.read
          BY <2>7, <4>2 DEF Statement
        <5>2. q.read = KeysOf(disk, q.doc)
          BY <2>8, <3>1, <4>2 DEF HasRead
        <5> QED
          BY <2>7, <5>1, <5>2 DEF HasRead
      <4>3. CASE q.op # "patch"
        BY <2>7, <4>3 DEF HasRead
      <4> QED
        BY <4>1, <4>2, <4>3
    <3> QED
      BY <3>2, <3>3, <3>4
  <2>10. r.next <= StatementCount(r.op) + 1
    <3>1. StatementCount(q.op) \in Nat
      BY <2>8, <1>3 DEF StatementCount, Ops
    <3> QED
      BY <2>1, <2>7, <2>8, <3>1
  <2>11. OnItsWay'
    <3> SUFFICES ASSUME NEW u \in CatThreads, holder' = u
                 PROVE  /\ caller'[u].next <= StatementCount(caller'[u].op) + 1
                        /\ ~discarded' => /\ HasRead(caller'[u], disk')
                                         /\ seen' = Progressed(caller'[u], disk', caller'[u].next - 1)
      BY DEF OnItsWay
    <3> HIDE DEF r, q
    <3>1. u = t /\ caller'[u] = r /\ disk' = disk /\ discarded' = discarded
      BY <1>1, <2>1, <2>2
    <3> QED
      BY <2>9, <2>10, <3>1
  <2> QED
    BY <2>5, <2>6, <2>11 DEF ConnInv
<1>6. ASSUME NEW t \in CatThreads, Commit(t) \/ Raise(t)
      PROVE  ConnInv'
  <2>1. /\ caller[t] # Rests /\ caller' = [caller EXCEPT ![t] = Rests] /\ holder' = NoHolder
        /\ seen' = disk' /\ disk' \in {disk, seen}
    BY <1>6 DEF Commit, Raise, Finish, RolledBack
  <2>2. holder = t
    BY <1>1, <2>1 DEF Held
  <2>3. ConnTypeOK'
    BY <1>1, <2>1 DEF ConnTypeOK
  <2>4. Held' /\ OnItsWay'
    BY <1>1, <1>3, <2>1, <2>2 DEF Held, OnItsWay
  <2> QED
    BY <2>3, <2>4 DEF ConnInv
<1>7. CASE ReadRaises
  <2>1. /\ seen' = disk /\ UNCHANGED <<disk, holder, caller>>
        /\ discarded' = (discarded \/ holder # NoHolder)
    BY <1>7 DEF ReadRaises
  <2>2. ConnTypeOK' /\ Held'
    BY <1>1, <2>1 DEF ConnTypeOK, Held
  <2>3. OnItsWay'
    BY <1>1, <1>3, <2>1 DEF OnItsWay
  <2> QED
    BY <2>2, <2>3 DEF ConnInv
<1>8. CASE KillProcess
  <2>1. /\ seen' = disk /\ holder' = NoHolder /\ disk' = disk
        /\ caller' = [t \in CatThreads |-> Rests]
    BY <1>8 DEF KillProcess
  <2>2. ConnTypeOK'
    BY <1>1, <2>1 DEF ConnTypeOK
  <2>3. Held' /\ OnItsWay'
    BY <1>3, <2>1 DEF Held, OnItsWay
  <2> QED
    BY <2>2, <2>3 DEF ConnInv
<1>9. CASE UNCHANGED catVars
  <2>1. UNCHANGED <<disk, seen, holder, caller, discarded>>
    BY <1>9 DEF catVars
  <2> QED
    BY <1>1, <2>1 DEF ConnInv, ConnTypeOK, Held, OnItsWay
<1> QED
  BY <1>4, <1>5, <1>6, <1>7, <1>8, <1>9 DEF ConnNext

\* For any threads, calls, failures and kills, the lock, the calls and the open
\* transaction belong together.
THEOREM ConnInvariant == ConnSpec => []ConnInv
  BY ConnInitInv, ConnStepInv, PTL DEF ConnSpec

\* The catalogue has its type, and nothing is pending while nobody writes.
THEOREM ConnTyped == ConnSpec => []ConnTypeOK
<1>1. ConnInv => ConnTypeOK
  BY DEF ConnInv
<1> QED
  BY ConnInvariant, <1>1, PTL

\* What reaches the disk is the whole of one call.
THEOREM ConnCommitsWhole == ConnSpec => CommitsWhole
<1>1. ConnInv /\ [ConnNext]_catVars =>
        [disk' # disk => /\ holder \in CatThreads
                         /\ discarded \/ disk' = Effect(caller[holder], disk)]_catVars
  <2> SUFFICES ASSUME ConnInv, [ConnNext]_catVars, disk' # disk
               PROVE  /\ holder \in CatThreads
                      /\ discarded \/ disk' = Effect(caller[holder], disk)
    OBVIOUS
  <2>1. PICK t \in CatThreads : Commit(t)
    BY DEF ConnNext, BeginCall, Execute, Raise, ReadRaises, KillProcess, catVars
  <2> DEFINE q == caller[t]
  <2>2. /\ q \in Pending /\ holder = t /\ disk' = seen /\ q.next > StatementCount(q.op)
    BY <2>1 DEF Commit, ConnInv, ConnTypeOK, Held
  <2>3. ASSUME ~discarded
        PROVE  disk' = Effect(q, disk)
    <3>1. seen = Progressed(q, disk, q.next - 1) /\ q.next <= StatementCount(q.op) + 1
      BY <2>2, <2>3 DEF ConnInv, OnItsWay
    <3>2. q.op \in Ops /\ q.next \in Nat
      BY <2>2 DEF Pending
    <3>3. StatementCount(q.op) \in Nat
      BY <3>2, CatAssumption DEF StatementCount, Ops
    <3>4. q.next - 1 = StatementCount(q.op)
      BY <2>2, <3>1, <3>2, <3>3
    <3> QED
      BY <2>2, <3>1, <3>4, Completed
  <2> QED
    BY <2>2, <2>3
<1> QED
  BY ConnInvariant, <1>1, PTL DEF ConnSpec, CommitsWhole

\* The two together, which is what the runs check of the connection.
THEOREM ConnSound == ConnSpec => ConnSafe
  BY ConnTyped, ConnCommitsWhole, PTL DEF ConnSafe

-----------------------------------------------------------------------------
(* The halves of a base in Qdrant and beside it.                           *)

\* What lies in the collection of a tenant was added from its bases.
Apart == \A b \in QBases : \A p \in PointsIn(QOwner[b]) : QOwner[p.base] = QOwner[b]

\* Nobody but b has written to c, and b to nothing else.
Sole(b, c) == usedBy[b] \subseteq {c} /\ \A a \in QBases \ {b} : c \notin usedBy[a]

\* The halves agree for every name that a base might be the one to use.
Agree == \A b \in QBases \ unsound : \A c : Sole(b, c) => {p.doc : p \in PointsIn(c)} = keywords[b]

QInv == QTypeOK /\ Apart /\ Agree

\* The collections that a request of base b reaches.
LEMMA Collections ==
    ASSUME NEW b \in QBases, NEW tenant \in TenantsAt(b)
    PROVE  /\ Collection(tenant, b) \in Range(QOwner) \cup {"vectors"}
           /\ Collection(tenant, b) \in Range(QOwner) => Collection(tenant, b) = QOwner[b]
           /\ QOwner[b] \in Range(QOwner) /\ QOwner[b] # NoTenant
<1>1. QOwner[b] \in Range(QOwner)
    BY QAssumption DEF Range
<1>2. tenant \in {QOwner[b], NoTenant}
    BY DEF TenantsAt
<1> QED BY <1>1, <1>2, QAssumption DEF Collection

\* The points after a write to one collection.
LEMMA PointsSet ==
    ASSUME NEW c, NEW ps, SetPoints(c, ps)
    PROVE  \A x : PointsIn(x)' = IF x = c THEN ps ELSE PointsIn(x)
<1> QED BY DEF SetPoints, PointsIn

\* A step of base b on collection c keeps the halves of every other base.
LEMMA OthersAgree ==
    ASSUME QInv, NEW b \in QBases, NEW c, Wrote(b, c),
           \A x : x # c => PointsIn(x)' = PointsIn(x),
           \A a \in QBases \ {b} : keywords'[a] = keywords[a],
           unsound' \in {unsound, unsound \cup {b}},
           b \notin unsound' /\ Sole(b, c)' /\ {p.doc : p \in PointsIn(c)} = keywords[b]
              => {p.doc : p \in PointsIn(c)'} = keywords'[b]
    PROVE  Agree'
<1>1. \A a \in QBases : usedBy'[a] = IF a = b THEN usedBy[b] \cup {c} ELSE usedBy[a]
    BY DEF Wrote, QInv, QTypeOK
<1> SUFFICES ASSUME NEW a \in QBases \ unsound', NEW x, Sole(a, x)'
             PROVE  {p.doc : p \in PointsIn(x)'} = keywords'[a]
    BY DEF Agree
<1>2. Sole(a, x)
    BY <1>1 DEF Sole
<1>3. {p.doc : p \in PointsIn(x)} = keywords[a]
    BY <1>2 DEF QInv, Agree
<1>4. CASE a = b
  <2>1. x = c
      BY <1>1, <1>4 DEF Sole
  <2> QED BY <1>3, <1>4, <2>1
<1>5. CASE a # b
  <2>1. x # c
      BY <1>1, <1>5 DEF Sole
  <2> QED BY <1>3, <1>5, <2>1
<1> QED BY <1>4, <1>5

LEMMA QInitInv == QInit => QInv
<1> SUFFICES ASSUME QInit PROVE QInv
    OBVIOUS
<1>1. \A c : PointsIn(c) = {}
    BY DEF QInit, PointsIn
<1>2. QTypeOK
    BY QAssumption DEF QInit, QTypeOK
<1> QED BY <1>1, <1>2 DEF QInv, Apart, Agree, QInit

\* The types of what every step of a base writes.
LEMMA CommonTypes ==
    ASSUME QInv, NEW b \in QBases, NEW tenant \in TenantsAt(b), Wrote(b, Collection(tenant, b)),
           UNCHANGED qFails \/ QFail, unsound' \in {unsound, unsound \cup {b}}
    PROVE  /\ usedBy' \in [QBases -> SUBSET (Range(QOwner) \cup {"vectors"})]
           /\ qFails' \in 0..MaxQFails /\ unsound' \subseteq QBases
<1>1. usedBy' \in [QBases -> SUBSET (Range(QOwner) \cup {"vectors"})]
    BY Collections DEF QInv, QTypeOK, Wrote
<1>2. qFails' \in 0..MaxQFails
    BY QAssumption DEF QInv, QTypeOK, QFail
<1> QED BY <1>1, <1>2 DEF QInv, QTypeOK

LEMMA UpsertKeeps ==
    ASSUME QInv, NEW d \in QDocs, NEW tenant \in TenantsAt(QHome[d]), Upsert(d, tenant)
    PROVE  QInv'
<1> DEFINE b == QHome[d]
           c == Collection(tenant, b)
<1>1. b \in QBases /\ Point(d) \in [doc : QDocs, base : QBases]
      /\ Point(d).base = b /\ Point(d).doc = d
    BY QAssumption DEF Point
<1>2. /\ SetPoints(c, PointsIn(c) \cup {Point(d)}) /\ Wrote(b, c) /\ isolated' = isolated
      /\ \/ keywords' = [keywords EXCEPT ![b] = @ \cup {d}] /\ unsound' = unsound /\ qFails' = qFails
         \/ keywords' = keywords /\ unsound' = unsound \cup {b} /\ QFail
    BY DEF Upsert
<1> HIDE DEF b
<1>3. \A x : PointsIn(x)' = IF x = c THEN PointsIn(c) \cup {Point(d)} ELSE PointsIn(x)
    BY <1>2, PointsSet
<1>4. QTypeOK'
  <2>1. \A x \in DOMAIN points' : points'[x] \subseteq [doc : QDocs, base : QBases]
      BY <1>1, <1>2 DEF SetPoints, PointsIn, QInv, QTypeOK
  <2>2. keywords' \in [QBases -> SUBSET QDocs]
      BY <1>1, <1>2 DEF QInv, QTypeOK
  <2> QED BY <1>1, <1>2, <2>1, <2>2, CommonTypes DEF QInv, QTypeOK, b
<1>5. Apart'
  <2> SUFFICES ASSUME NEW a \in QBases, NEW p \in PointsIn(QOwner[a])'
               PROVE  QOwner[p.base] = QOwner[a]
      BY DEF Apart
  <2>1. CASE p \in PointsIn(QOwner[a])
      BY <2>1 DEF QInv, Apart
  <2>2. CASE p = Point(d) /\ QOwner[a] = c
    <3>1. c \in Range(QOwner)
        BY <2>2, QAssumption DEF Range
    <3> QED BY <1>1, <2>2, <3>1, Collections DEF b
  <2> QED BY <1>3, <2>1, <2>2
<1>6. Agree'
  <2>1. \A x : x # c => PointsIn(x)' = PointsIn(x)
      BY <1>3
  <2>2. \A a \in QBases \ {b} : keywords'[a] = keywords[a]
      BY <1>2 DEF QInv, QTypeOK
  <2>3. ASSUME b \notin unsound', {p.doc : p \in PointsIn(c)} = keywords[b]
        PROVE  {p.doc : p \in PointsIn(c)'} = keywords'[b]
    <3>1. keywords'[b] = keywords[b] \cup {d}
        BY <1>1, <1>2, <2>3 DEF QInv, QTypeOK
    <3>2. PointsIn(c)' = PointsIn(c) \cup {Point(d)}
        BY <1>3
    <3> QED BY <1>1, <2>3, <3>1, <3>2
  <2> HIDE DEF c
  <2> QED BY <1>1, <1>2, <2>1, <2>2, <2>3, OthersAgree
<1> QED BY <1>4, <1>5, <1>6 DEF QInv

\* A step that adds no point keeps tenants apart.
LEMMA StillApart ==
    ASSUME QInv, \A x : PointsIn(x)' \subseteq PointsIn(x)
    PROVE  Apart'
<1> QED BY DEF QInv, Apart

LEMMA DropPathKeeps ==
    ASSUME QInv, NEW d \in QDocs, NEW tenant \in TenantsAt(QHome[d]), DropPath(d, tenant)
    PROVE  QInv'
<1> DEFINE b == QHome[d]
           c == Collection(tenant, b)
           gone == {e \in keywords[b] : OnPath(d, e)}
<1>1. b \in QBases
    BY QAssumption
<1>2. /\ IF c \in DOMAIN points THEN SetPoints(c, {p \in points[c] : ~OnPath(d, p.doc)})
                               ELSE UNCHANGED points
      /\ Wrote(b, c) /\ isolated' = isolated
      /\ \/ keywords' = [keywords EXCEPT ![b] = @ \ gone] /\ unsound' = unsound /\ qFails' = qFails
         \/ keywords' = keywords /\ unsound' = unsound \cup {b} /\ QFail
    BY DEF DropPath
<1>g. gone = {e \in keywords[b] : OnPath(d, e)}
    OBVIOUS
<1> HIDE DEF b, gone
<1>3. \A x : PointsIn(x)' = IF x = c THEN {p \in PointsIn(c) : ~OnPath(d, p.doc)} ELSE PointsIn(x)
  <2>1. CASE c \in DOMAIN points
      BY <1>2, <2>1, PointsSet DEF PointsIn
  <2>2. CASE c \notin DOMAIN points
      BY <1>2, <2>2 DEF PointsIn
  <2> QED BY <2>1, <2>2
<1>4. QTypeOK'
  <2>1. \A x \in DOMAIN points' : points'[x] \subseteq [doc : QDocs, base : QBases]
      BY <1>2 DEF SetPoints, QInv, QTypeOK
  <2>2. keywords' \in [QBases -> SUBSET QDocs]
      BY <1>1, <1>2 DEF QInv, QTypeOK
  <2> QED BY <1>1, <1>2, <2>1, <2>2, CommonTypes DEF QInv, QTypeOK, b
<1>5. Apart'
    BY <1>3, StillApart
<1>6. Agree'
  <2>1. \A x : x # c => PointsIn(x)' = PointsIn(x)
      BY <1>3
  <2>2. \A a \in QBases \ {b} : keywords'[a] = keywords[a]
      BY <1>2 DEF QInv, QTypeOK
  <2>3. ASSUME b \notin unsound', {p.doc : p \in PointsIn(c)} = keywords[b]
        PROVE  {p.doc : p \in PointsIn(c)'} = keywords'[b]
    <3>1. keywords'[b] = keywords[b] \ gone
        BY <1>1, <1>2, <2>3 DEF QInv, QTypeOK
    <3>2. PointsIn(c)' = {p \in PointsIn(c) : ~OnPath(d, p.doc)}
        BY <1>3
    <3> QED BY <1>g, <2>3, <3>1, <3>2
  <2> HIDE DEF c
  <2> QED BY <1>1, <1>2, <2>1, <2>2, <2>3, OthersAgree
<1> QED BY <1>4, <1>5, <1>6 DEF QInv

LEMMA DropChunksKeeps ==
    ASSUME QInv, NEW d \in QDocs, NEW tenant \in TenantsAt(QHome[d]), DropChunks(d, tenant)
    PROVE  QInv'
<1> DEFINE b == QHome[d]
           c == Collection(tenant, b)
<1>1. b \in QBases
    BY QAssumption
<1>2. /\ UNCHANGED <<points, isolated, qFails, unsound>> /\ Wrote(b, c)
      /\ keywords' = IF c \in DOMAIN points THEN keywords ELSE [keywords EXCEPT ![b] = @ \ {d}]
    BY DEF DropChunks, Keeps
<1> HIDE DEF b
<1>3. \A x : PointsIn(x)' = PointsIn(x)
    BY <1>2 DEF PointsIn
<1>4. QTypeOK'
  <2>1. keywords' \in [QBases -> SUBSET QDocs]
      BY <1>1, <1>2 DEF QInv, QTypeOK
  <2> QED BY <1>1, <1>2, <2>1, CommonTypes DEF QInv, QTypeOK, b
<1>5. Apart'
    BY <1>3, StillApart
<1>6. Agree'
  <2>1. \A a \in QBases \ {b} : keywords'[a] = keywords[a]
      BY <1>2 DEF QInv, QTypeOK
  <2>2. ASSUME {p.doc : p \in PointsIn(c)} = keywords[b]
        PROVE  {p.doc : p \in PointsIn(c)'} = keywords'[b]
    <3>1. CASE c \in DOMAIN points
        BY <1>2, <1>3, <2>2, <3>1
    <3>2. CASE c \notin DOMAIN points
      <4>1. keywords[b] = {}
          BY <2>2, <3>2 DEF PointsIn
      <4>2. keywords'[b] = {}
          BY <1>1, <1>2, <3>2, <4>1 DEF QInv, QTypeOK
      <4> QED BY <1>3, <2>2, <4>1, <4>2
    <3> QED BY <3>1, <3>2
  <2> HIDE DEF c
  <2> QED BY <1>1, <1>2, <1>3, <2>1, <2>2, OthersAgree
<1> QED BY <1>4, <1>5, <1>6 DEF QInv

LEMMA UnreachedKeeps ==
    ASSUME QInv, NEW d \in QDocs, NEW tenant \in TenantsAt(QHome[d]), Unreached(d, tenant)
    PROVE  QInv'
<1> DEFINE b == QHome[d]
           c == Collection(tenant, b)
<1>1. b \in QBases
    BY QAssumption
<1>2. /\ UNCHANGED <<points, isolated>> /\ Wrote(b, c) /\ QFail /\ unsound' = unsound \cup {b}
      /\ \E gone : keywords' = [keywords EXCEPT ![b] = @ \ gone]
    BY DEF Unreached
<1> HIDE DEF b
<1>3. \A x : PointsIn(x)' = PointsIn(x)
    BY <1>2 DEF PointsIn
<1>4. QTypeOK'
  <2>1. keywords' \in [QBases -> SUBSET QDocs]
      BY <1>1, <1>2 DEF QInv, QTypeOK
  <2> QED BY <1>1, <1>2, <2>1, CommonTypes DEF QInv, QTypeOK, b
<1>5. Apart'
    BY <1>3, StillApart
<1>6. Agree'
  <2>1. \A a \in QBases \ {b} : keywords'[a] = keywords[a]
      BY <1>2 DEF QInv, QTypeOK
  <2> HIDE DEF c
  <2> QED BY <1>1, <1>2, <1>3, <2>1, OthersAgree
<1> QED BY <1>4, <1>5, <1>6 DEF QInv

LEMMA ClearKeeps ==
    ASSUME QInv, NEW b \in QBases, NEW tenant \in TenantsAt(b), ClearCollection(b, tenant)
    PROVE  QInv'
<1> DEFINE c == Collection(tenant, b)
<1>1. /\ UNCHANGED <<keywords, isolated>> /\ Wrote(b, c) /\ unsound' = unsound \cup {b}
      /\ \/ points' = [x \in DOMAIN points \ {c} |-> points[x]] /\ UNCHANGED qFails
         \/ points' = points /\ QFail
    BY DEF ClearCollection
<1>2. \A x : PointsIn(x)' \subseteq PointsIn(x) /\ (x # c => PointsIn(x)' = PointsIn(x))
    BY <1>1 DEF PointsIn
<1>3. QTypeOK'
  <2>1. \A x \in DOMAIN points' : points'[x] \subseteq [doc : QDocs, base : QBases]
      BY <1>1 DEF QInv, QTypeOK
  <2> QED BY <1>1, <2>1, CommonTypes DEF QInv, QTypeOK
<1>4. Apart'
    BY <1>2, StillApart
<1>5. Agree'
  <2> HIDE DEF c
  <2> QED BY <1>1, <1>2, OthersAgree
<1> QED BY <1>3, <1>4, <1>5 DEF QInv

LEMMA QStep == QInv /\ [QNext]_qVars => QInv'
<1> SUFFICES ASSUME QInv, [QNext]_qVars PROVE QInv'
    OBVIOUS
<1>1. ASSUME NEW d \in QDocs, NEW tenant \in TenantsAt(QHome[d]),
             \/ Upsert(d, tenant) \/ DropPath(d, tenant)
             \/ DropChunks(d, tenant) \/ Unreached(d, tenant)
      PROVE  QInv'
    BY <1>1, UpsertKeeps, DropPathKeeps, DropChunksKeeps, UnreachedKeeps
<1>2. ASSUME NEW b \in QBases, NEW tenant \in TenantsAt(b), ClearCollection(b, tenant)
      PROVE  QInv'
    BY <1>2, ClearKeeps
<1>3. CASE UNCHANGED qVars
    BY <1>3 DEF qVars, QInv, QTypeOK, Apart, Agree, Sole, PointsIn
<1> QED BY <1>1, <1>2, <1>3 DEF QNext

\* What lies in the collection of a tenant was added from its bases, and the two
\* indexes of a base agree for every name that it alone might be the one to use
\* (qdrant_backend.py).
THEOREM QdrantInvariant == QSpec => []QInv
<1> QED BY QInitInv, QStep, PTL DEF QSpec

\* "cross-tenant vectors are physically invisible" (qdrant_backend.py), and the two
\* indexes of a base that was always written under one name of its own hold the
\* same documents, for any number of tenants, bases and documents.
THEOREM QdrantCorrect == QSpec => []QdrantSafe
<1>1. QInv => TenantsApart
  <2> SUFFICES ASSUME QInv, NEW b \in QBases, NEW p \in PointsIn(Collection(QOwner[b], b))
               PROVE  QOwner[p.base] = QOwner[b]
      BY DEF TenantsApart
  <2>1. QOwner[b] \in Range(QOwner)
      BY QAssumption DEF Range
  <2>2. Collection(QOwner[b], b) = QOwner[b]
      BY <2>1, QAssumption DEF Collection
  <2> QED BY <2>2 DEF QInv, Apart
<1>2. QInv => HalvesAgree
    BY DEF QInv, Agree, Sole, HalvesAgree
<1>3. QInv => QdrantSafe
    BY <1>1, <1>2 DEF QInv, QdrantSafe
<1> QED BY <1>3, QdrantInvariant, PTL

-----------------------------------------------------------------------------
(* The catalogue here and the vectors on another node.                     *)

\* The document requests that wait for the node, and its calls.
Calls == [op : {"add", "undo", "replace", "delete"}, at : Waiting, doc : RemDocs,
          for : Nat, got : {"nothing", "ok", "error", "404"}]
Messages == [nr : Nat, verb : {"add_batch", "delete_by_chunk_ids", "delete_by_doc"},
             doc : RemDocs]
Busy(t) == remCall[t].at # "idle"
AddCall(m) == m.verb = "add_batch"

RemTypes ==
    /\ remote \in [RemDocs -> 0..1]
    /\ wire \in SUBSET Messages /\ remCall \in [RemThreads -> {Free} \cup Calls]
    /\ remRow \in [RemDocs -> {"new", "there", "failed", "orphan", "deleted"}]
    /\ oldNode \in BOOLEAN /\ late \in SUBSET RemDocs
    /\ posts \in 0..MaxPosts /\ timeouts \in 0..MaxTimeouts /\ refusals \in 0..MaxRefusals

\* A call has a number of its own.
Sequenced == /\ \A m \in wire : m.nr < posts
             /\ \A m \in wire, n \in wire : m.nr = n.nr => m = n

\* A document has one request at a time, while its row is new or there; the
\* call that the request waits for is about it, and off the wire when answered.
Asking(t) ==
    /\ remRow[remCall[t].doc] \in {"new", "there"} /\ remCall[t].for < posts
    /\ \A m \in wire : m.nr = remCall[t].for =>
          /\ m.doc = remCall[t].doc /\ (AddCall(m) <=> remCall[t].at = "adding")
          /\ remCall[t].got \in {"nothing", "error"}
Requests == /\ \A t \in RemThreads : Busy(t) => Asking(t)
            /\ \A t \in RemThreads, u \in RemThreads :
                  Busy(t) /\ Busy(u) /\ t # u =>
                     /\ remCall[t].doc # remCall[u].doc
                     /\ remCall[t].for # remCall[u].for

\* An add that is on its way is the only one of its document, and finds nothing
\* of it: its request still waits for it, takes it back, or has failed.
Underway(m) ==
    \/ remRow[m.doc] \in {"failed", "orphan"}
    \/ \E t \in RemThreads :
          /\ Busy(t) /\ remCall[t].doc = m.doc
          /\ \/ remCall[t].at = "undoing"
             \/ remCall[t].at = "adding" /\ remCall[t].for = m.nr
OneAdd == \A m \in wire : AddCall(m) =>
    /\ remote[m.doc] = 0 /\ Underway(m)
    /\ \A n \in wire : AddCall(n) /\ n.doc = m.doc => n = m

\* A call about a document none of whose calls timed out is one that is waited for.
Awaited(m) == \E t \in RemThreads : /\ Busy(t) /\ remCall[t].doc = m.doc
                                    /\ remCall[t].for = m.nr /\ remCall[t].got = "nothing"
Prompt == \A m \in wire : m.doc \notin late => Awaited(m)

\* Where the node has nothing of a document.
Bare(d) ==
    \/ remRow[d] = "new" /\ Alone(d)
    \/ remRow[d] = "deleted"
    \/ remRow[d] = "failed" /\ d \notin late
    \/ \E t \in RemThreads :
          /\ Busy(t) /\ remCall[t].doc = d /\ remCall[t].got = "ok"
          /\ \/ remCall[t].at = "removing"
             \/ remCall[t].at = "undoing" /\ d \notin late
Gone == \A d \in RemDocs : Bare(d) => remote[d] = 0

\* A node that knows chunk ids is not asked to delete a path.
ByChunkIds == ~oldNode => /\ \A m \in wire : m.verb # "delete_by_doc"
                          /\ \A t \in RemThreads : Busy(t) => remCall[t].got # "404"

RemInv == RemTypes /\ Sequenced /\ Requests /\ OneAdd /\ Prompt /\ Gone /\ ByChunkIds

LEMMA RemInitInv == RemInit => RemInv
<1> SUFFICES ASSUME RemInit PROVE RemInv
    OBVIOUS
<1>1. RemTypes
    BY RemAssumption DEF RemInit, RemTypes, Free
<1>2. Requests /\ ByChunkIds /\ Sequenced /\ OneAdd /\ Prompt
    BY DEF RemInit, Free, Busy, Requests, ByChunkIds, Sequenced, OneAdd, Prompt
<1>3. Gone
    BY DEF RemInit, Gone
<1> QED BY <1>1, <1>2, <1>3 DEF RemInv

\* What a request knows of the node before it goes on.
LEMMA NoAdd ==
    ASSUME RemInv, NEW t \in RemThreads, Busy(t), NEW m \in wire,
           AddCall(m), m.doc = remCall[t].doc
    PROVE  \/ remCall[t].at = "undoing"
           \/ /\ remCall[t].at = "adding" /\ remCall[t].for = m.nr
              /\ remCall[t].got \in {"nothing", "error"}
<1>1. Asking(t) /\ Underway(m)
    BY DEF RemInv, Requests, OneAdd
<1>2. PICK u \in RemThreads :
          /\ Busy(u) /\ remCall[u].doc = m.doc
          /\ \/ remCall[u].at = "undoing"
             \/ remCall[u].at = "adding" /\ remCall[u].for = m.nr
    BY <1>1 DEF Asking, Underway
<1>3. u = t
    BY <1>2 DEF RemInv, Requests
<1> QED BY <1>1, <1>2, <1>3 DEF Asking

LEMMA NoCall ==
    ASSUME RemInv, NEW t \in RemThreads, Busy(t), remCall[t].got # "nothing",
           remCall[t].doc \notin late, NEW m \in wire
    PROVE  m.doc # remCall[t].doc
BY DEF RemInv, Prompt, Awaited, Requests

\* A thread sends a call: a free one about a document that has no request, or
\* one whose last call was answered or given up.
LEMMA PostStep ==
    ASSUME RemInv, NEW t \in RemThreads, NEW d \in RemDocs,
           NEW verb \in {"add_batch", "delete_by_chunk_ids", "delete_by_doc"},
           NEW op \in {"add", "undo", "replace", "delete"}, NEW at \in Waiting,
           Post(t, verb, op, at, d),
           UNCHANGED <<remote, remRow, oldNode, timeouts, refusals, late>>,
           remRow[d] \in {"new", "there"},
           \/ ~Busy(t) /\ Alone(d)
           \/ Busy(t) /\ remCall[t].doc = d /\ remCall[t].got # "nothing",
           verb = "add_batch" <=> at = "adding",
           at = "adding" => remote[d] = 0,
           at # "undoing" => \A m \in wire : AddCall(m) => m.doc # d,
           verb = "delete_by_doc" => oldNode
    PROVE  RemInv'
<1> DEFINE new == Message(verb, d)
           call == [op |-> op, at |-> at, doc |-> d, for |-> posts, got |-> "nothing"]
<1>1. /\ posts < MaxPosts /\ posts' = posts + 1 /\ wire' = wire \cup {new}
      /\ remCall' = [remCall EXCEPT ![t] = call]
    BY DEF Post
<1>2. /\ remCall \in [RemThreads -> {Free} \cup Calls] /\ wire \in SUBSET Messages
      /\ posts \in Nat /\ MaxPosts \in Nat /\ posts \in 0..MaxPosts
    BY RemAssumption DEF RemInv, RemTypes
<1>3. /\ new.nr = posts /\ new.verb = verb /\ new.doc = d /\ new \in Messages
      /\ call.op = op /\ call.at = at /\ call.doc = d /\ call.for = posts
      /\ call.got = "nothing" /\ call \in Calls /\ at # "idle"
    BY <1>2 DEF Message, Messages, Calls, Waiting
<1>4. \A m \in wire : m.nr \in Nat /\ m.nr < posts
    BY <1>2 DEF RemInv, Sequenced, Messages
<1> HIDE DEF new, call
<1>5. /\ remCall'[t] = call /\ \A u \in RemThreads : u # t => remCall'[u] = remCall[u]
      /\ Busy(t)' /\ \A u \in RemThreads : u # t => Busy(u)' = Busy(u)
    BY <1>1, <1>2, <1>3 DEF Busy
<1>6. \A u \in RemThreads : u # t /\ Busy(u) => /\ remCall[u].doc # d
                                                /\ remCall[u].for < posts /\ remCall[u].for \in Nat
  <2> SUFFICES ASSUME NEW u \in RemThreads, u # t, Busy(u)
               PROVE  remCall[u].doc # d /\ remCall[u].for < posts /\ remCall[u].for \in Nat
      OBVIOUS
  <2>1. remCall[u].doc # d
      BY DEF Alone, RemInv, Requests, Busy
  <2>2. remCall[u] \in Calls
      BY <1>2 DEF Busy, Free
  <2> QED BY <2>1, <2>2 DEF RemInv, Requests, Asking, Calls
<1>7. RemTypes'
  <2>1. posts' \in 0..MaxPosts
      BY <1>1, <1>2
  <2>2. wire' \in SUBSET Messages /\ remCall' \in [RemThreads -> {Free} \cup Calls]
      BY <1>1, <1>2, <1>3
  <2> QED BY <2>1, <2>2 DEF RemInv, RemTypes
<1>8. Sequenced'
  <2>1. \A m \in wire' : m.nr < posts'
      BY <1>1, <1>2, <1>3, <1>4
  <2>2. \A m \in wire : m.nr # posts
      BY <1>2, <1>4
  <2>3. \A m \in wire', n \in wire' : m.nr = n.nr => m = n
      BY <1>1, <1>3, <2>2 DEF RemInv, Sequenced
  <2> QED BY <2>1, <2>3 DEF Sequenced
<1>9. Requests'
  <2>1. ASSUME NEW u \in RemThreads, Busy(u)' PROVE Asking(u)'
    <3>1. CASE u = t
      <4>1. \A m \in wire' : m.nr = posts => m = new
          BY <1>1, <1>2, <1>4
      <4>2. posts < posts' /\ remRow'[d] \in {"new", "there"}
          BY <1>1, <1>2
      <4> QED BY <3>1, <4>1, <4>2, <1>3, <1>5 DEF Asking, AddCall
    <3>2. CASE u # t
      <4>1. Busy(u) /\ Asking(u) /\ remCall'[u] = remCall[u]
          BY <2>1, <3>2, <1>5 DEF RemInv, Requests
      <4>2. remCall[u].for < posts' /\ remCall[u].for # posts
          BY <3>2, <4>1, <1>1, <1>2, <1>6
      <4>3. \A m \in wire' : m.nr = remCall[u].for => m \in wire
          BY <4>2, <1>1, <1>3
      <4> QED BY <4>1, <4>2, <4>3 DEF Asking, AddCall
    <3> QED BY <3>1, <3>2
  <2>2. \A u \in RemThreads : u # t /\ Busy(u) => remCall[u].for # posts
      BY <1>2, <1>6
  <2>3. \A u \in RemThreads, v \in RemThreads :
           Busy(u)' /\ Busy(v)' /\ u # v =>
              /\ remCall'[u].doc # remCall'[v].doc
              /\ remCall'[u].for # remCall'[v].for
      BY <2>2, <1>3, <1>5, <1>6 DEF RemInv, Requests
  <2> QED BY <2>1, <2>3 DEF Requests
<1>10. OneAdd'
  <2> SUFFICES ASSUME NEW m \in wire', AddCall(m)
               PROVE  /\ remote[m.doc] = 0 /\ Underway(m)'
                      /\ \A n \in wire' : AddCall(n) /\ n.doc = m.doc => n = m
      BY DEF OneAdd, AddCall
  <2>1. CASE m = new
    <3>1. at = "adding" /\ remote[d] = 0 /\ \A n \in wire : AddCall(n) => n.doc # d
        BY <2>1, <1>3 DEF AddCall
    <3>2. Underway(m)'
        BY <2>1, <3>1, <1>3, <1>5 DEF Underway
    <3> QED BY <2>1, <3>1, <3>2, <1>1, <1>3
  <2>2. CASE m \in wire
    <3>1. remote[m.doc] = 0 /\ Underway(m) /\ \A n \in wire : AddCall(n) /\ n.doc = m.doc => n = m
        BY <2>2 DEF RemInv, OneAdd
    <3>2. CASE m.doc = d
      <4>1. at = "undoing"
          BY <2>2, <3>2
      <4>2. Underway(m)'
          BY <3>2, <4>1, <1>3, <1>5 DEF Underway
      <4>3. verb # "add_batch"
          BY <4>1
      <4> QED BY <3>1, <4>2, <4>3, <1>1, <1>3 DEF AddCall
    <3>3. CASE m.doc # d
      <4>1. Underway(m)'
        <5>1. CASE remRow[m.doc] \in {"failed", "orphan"}
            BY <5>1 DEF Underway
        <5>2. ASSUME NEW u \in RemThreads, Busy(u), remCall[u].doc = m.doc,
                     remCall[u].at = "undoing" \/ (remCall[u].at = "adding" /\ remCall[u].for = m.nr)
              PROVE  Underway(m)'
          <6>1. u # t
              BY <5>2, <3>3
          <6> QED BY <5>2, <6>1, <1>5 DEF Underway
        <5> QED BY <3>1, <5>1, <5>2 DEF Underway
      <4> QED BY <3>1, <3>3, <4>1, <1>1, <1>3
    <3> QED BY <3>2, <3>3
  <2> QED BY <2>1, <2>2, <1>1
<1>11. Prompt'
  <2> SUFFICES ASSUME NEW m \in wire', m.doc \notin late PROVE Awaited(m)'
      BY DEF Prompt
  <2>1. CASE m = new
      BY <2>1, <1>3, <1>5 DEF Awaited
  <2>2. CASE m \in wire
    <3>1. PICK u \in RemThreads : /\ Busy(u) /\ remCall[u].doc = m.doc
                                  /\ remCall[u].for = m.nr /\ remCall[u].got = "nothing"
        BY <2>2 DEF RemInv, Prompt, Awaited
    <3>2. u # t
        BY <3>1
    <3> QED BY <3>1, <3>2, <1>5 DEF Awaited
  <2> QED BY <2>1, <2>2, <1>1
<1>12. Gone'
  <2> SUFFICES ASSUME NEW x \in RemDocs, Bare(x)' PROVE remote[x] = 0
      BY DEF Gone
  <2>1. ASSUME NEW u \in RemThreads, Busy(u)', remCall'[u].doc = x, remCall'[u].got = "ok",
               remCall'[u].at = "removing" \/ (remCall'[u].at = "undoing" /\ x \notin late)
        PROVE  Bare(x)
    <3>1. u # t
        BY <2>1, <1>3, <1>5
    <3> QED BY <2>1, <3>1, <1>5 DEF Bare
  <2>2. ASSUME remRow[x] = "new", Alone(x)' PROVE Bare(x)
    <3>1. x # d
        BY <2>2, <1>3, <1>5 DEF Alone
    <3>2. Alone(x)
        BY <2>2, <3>1, <1>5 DEF Alone, Busy
    <3> QED BY <2>2, <3>2 DEF Bare
  <2>3. Bare(x)
      BY <2>1, <2>2 DEF Bare
  <2> QED BY <2>3 DEF RemInv, Gone
<1>13. ByChunkIds'
  <2> SUFFICES ASSUME ~oldNode
               PROVE  /\ \A m \in wire' : m.verb # "delete_by_doc"
                      /\ \A u \in RemThreads : Busy(u)' => remCall'[u].got # "404"
      BY DEF ByChunkIds
  <2>1. \A m \in wire' : m.verb # "delete_by_doc"
      BY <1>1, <1>3 DEF RemInv, ByChunkIds
  <2> QED BY <2>1, <1>3, <1>5 DEF RemInv, ByChunkIds
<1> QED BY <1>7, <1>8, <1>9, <1>10, <1>11, <1>12, <1>13 DEF RemInv

\* A request ends: its document is there, or was taken back, or is gone.
LEMMA EndStep ==
    ASSUME RemInv, NEW t \in RemThreads, Busy(t), remCall[t].got # "nothing",
           NEW state \in {"there", "failed", "orphan", "deleted"},
           Ended(t, remCall[t].doc, state),
           UNCHANGED <<remote, oldNode, timeouts, refusals, late>>,
           state \in {"there", "deleted"} =>
               \A m \in wire : AddCall(m) => m.doc # remCall[t].doc,
           (\/ state = "deleted"
            \/ state = "failed" /\ remCall[t].doc \notin late)
               => remote[remCall[t].doc] = 0
    PROVE  RemInv'
<1> DEFINE d == remCall[t].doc
<1>1. /\ remRow' = [remRow EXCEPT ![d] = state] /\ remCall' = [remCall EXCEPT ![t] = Free]
      /\ UNCHANGED <<posts, wire>>
    BY DEF Ended
<1>2. /\ remCall \in [RemThreads -> {Free} \cup Calls] /\ wire \in SUBSET Messages
      /\ remRow \in [RemDocs -> {"new", "there", "failed", "orphan", "deleted"}]
    BY DEF RemInv, RemTypes
<1>3. d \in RemDocs
    BY <1>2 DEF Busy, Free, Calls
<1>4. \A m \in wire : d \notin late => m.doc # d
    BY NoCall
<1> HIDE DEF d
<1>5. /\ ~Busy(t)'
      /\ \A u \in RemThreads : u # t => remCall'[u] = remCall[u] /\ Busy(u)' = Busy(u)
      /\ remRow'[d] = state /\ \A x \in RemDocs : x # d => remRow'[x] = remRow[x]
    BY <1>1, <1>2, <1>3 DEF Busy, Free
<1>6. \A u \in RemThreads : u # t /\ Busy(u) => remCall[u].doc # d /\ remCall[u].doc \in RemDocs
    BY <1>2 DEF RemInv, Requests, d, Busy, Free, Calls
<1>7. RemTypes'
    BY <1>1, <1>2, <1>3 DEF RemInv, RemTypes
<1>8. Sequenced'
    BY <1>1 DEF RemInv, Sequenced
<1>9. Requests'
  <2>1. ASSUME NEW u \in RemThreads, Busy(u)' PROVE Asking(u)'
    <3>1. u # t /\ Busy(u) /\ Asking(u) /\ remCall'[u] = remCall[u]
        BY <2>1, <1>5 DEF RemInv, Requests
    <3>2. remRow'[remCall[u].doc] = remRow[remCall[u].doc]
        BY <3>1, <1>5, <1>6
    <3> QED BY <3>1, <3>2, <1>1 DEF Asking, AddCall
  <2>2. \A u \in RemThreads : Busy(u)' => Busy(u) /\ remCall'[u] = remCall[u]
      BY <1>5
  <2> QED BY <2>1, <2>2 DEF RemInv, Requests
<1>10. OneAdd'
  <2> SUFFICES ASSUME NEW m \in wire, AddCall(m) PROVE Underway(m)'
      BY <1>1 DEF OneAdd, RemInv, AddCall
  <2>1. CASE m.doc = d
    <3>1. state \in {"failed", "orphan"}
        BY <2>1 DEF d
    <3> QED BY <2>1, <3>1, <1>5 DEF Underway
  <2>2. CASE m.doc # d
    <3>1. m.doc \in RemDocs /\ Underway(m)
        BY <1>2 DEF Messages, RemInv, OneAdd
    <3>2. CASE remRow[m.doc] \in {"failed", "orphan"}
        BY <2>2, <3>1, <3>2, <1>5 DEF Underway
    <3>3. ASSUME NEW u \in RemThreads, Busy(u), remCall[u].doc = m.doc,
                 remCall[u].at = "undoing" \/ (remCall[u].at = "adding" /\ remCall[u].for = m.nr)
          PROVE  Underway(m)'
      <4>1. u # t
          BY <3>3, <2>2 DEF d
      <4> QED BY <3>3, <4>1, <1>5 DEF Underway
    <3> QED BY <3>1, <3>2, <3>3 DEF Underway
  <2> QED BY <2>1, <2>2
<1>11. Prompt'
  <2> SUFFICES ASSUME NEW m \in wire, m.doc \notin late PROVE Awaited(m)'
      BY <1>1 DEF Prompt
  <2>1. PICK u \in RemThreads : /\ Busy(u) /\ remCall[u].doc = m.doc
                                /\ remCall[u].for = m.nr /\ remCall[u].got = "nothing"
      BY DEF RemInv, Prompt, Awaited
  <2>2. u # t
      BY <2>1
  <2> QED BY <2>1, <2>2, <1>5 DEF Awaited
<1>12. Gone'
  <2> SUFFICES ASSUME NEW x \in RemDocs, Bare(x)' PROVE remote[x] = 0
      BY DEF Gone
  <2>1. CASE x = d
    <3>1. ~ \E u \in RemThreads : Busy(u)' /\ remCall'[u].doc = x
        BY <2>1, <1>5, <1>6
    <3>2. \/ state = "deleted"
          \/ state = "failed" /\ d \notin late
        BY <2>1, <3>1, <1>5 DEF Bare
    <3> QED BY <2>1, <3>2 DEF d
  <2>2. CASE x # d
    <3>1. Alone(x)' => Alone(x)
        BY <2>2, <1>5 DEF Alone, Busy, d
    <3>2. Bare(x)
        BY <2>2, <3>1, <1>5 DEF Bare
    <3> QED BY <3>2 DEF RemInv, Gone
  <2> QED BY <2>1, <2>2
<1>13. ByChunkIds'
    BY <1>1, <1>5 DEF RemInv, ByChunkIds
<1> QED BY <1>7, <1>8, <1>9, <1>10, <1>11, <1>12, <1>13 DEF RemInv

\* What the node does to a document: an add finds nothing of its own, another
\* call takes away, and if it is done what it names is gone.
LEMMA AppliedStep ==
    ASSUME RemInv, NEW m \in wire, remote' \in {remote, Applied(m)}
    PROVE  /\ remote' \in [RemDocs -> 0..1]
           /\ AddCall(m) => \A x \in RemDocs : x # m.doc => remote'[x] = remote[x]
           /\ ~AddCall(m) => /\ \A x \in RemDocs : remote'[x] \in {remote[x], 0}
                             /\ remote' = Applied(m) => remote'[m.doc] = 0
<1>1. /\ remote \in [RemDocs -> 0..1] /\ m.doc \in RemDocs
      /\ m.verb \in {"add_batch", "delete_by_chunk_ids", "delete_by_doc"}
    BY DEF RemInv, RemTypes, Messages
<1>2. CASE remote' = remote /\ remote' # Applied(m)
    BY <1>1, <1>2
<1>3. CASE remote' = Applied(m) /\ m.verb = "add_batch"
  <2>1. remote' = [remote EXCEPT ![m.doc] = @ + 1] /\ remote[m.doc] = 0
      BY <1>3 DEF Applied, RemInv, OneAdd, AddCall
  <2> QED BY <1>1, <1>3, <2>1 DEF AddCall
<1>4. CASE remote' = Applied(m) /\ m.verb = "delete_by_chunk_ids"
  <2>1. remote' = [remote EXCEPT ![m.doc] = 0]
      BY <1>4 DEF Applied
  <2> QED BY <1>1, <1>4, <2>1 DEF AddCall
<1>5. CASE remote' = Applied(m) /\ m.verb = "delete_by_doc"
  <2>1. remote' = [d \in RemDocs |-> IF RemPath[d] = RemPath[m.doc] THEN 0 ELSE remote[d]]
      BY <1>5 DEF Applied
  <2> QED BY <1>1, <1>5, <2>1 DEF AddCall
<1> QED BY <1>1, <1>2, <1>3, <1>4, <1>5

\* The node works a call off and answers; a thread that waits for it hears.
LEMMA HandleStep ==
    ASSUME RemInv, NEW m \in wire, NEW got \in {"ok", "error", "404"},
           wire' = wire \ {m}, Deliver(m, got),
           remote' \in {remote, Applied(m)}, got = "ok" => remote' = Applied(m),
           got = "404" => oldNode, refusals' \in 0..MaxRefusals,
           UNCHANGED <<remRow, oldNode, posts, timeouts, late>>
    PROVE  RemInv'
<1>1. /\ remCall \in [RemThreads -> {Free} \cup Calls] /\ wire \in SUBSET Messages
      /\ remCall' = [t \in RemThreads |->
                  IF /\ remCall[t].at \in Waiting
                     /\ remCall[t].for = m.nr /\ remCall[t].got = "nothing"
                  THEN [remCall[t] EXCEPT !.got = got]
                  ELSE remCall[t]]
    BY DEF Deliver, RemInv, RemTypes
<1>2. /\ remote' \in [RemDocs -> 0..1]
      /\ AddCall(m) => \A x \in RemDocs : x # m.doc => remote'[x] = remote[x]
      /\ ~AddCall(m) => /\ \A x \in RemDocs : remote'[x] \in {remote[x], 0}
                        /\ remote' = Applied(m) => remote'[m.doc] = 0
    BY AppliedStep
<1>3. \A u \in RemThreads : ~Busy(u) => remCall'[u] = remCall[u] /\ ~Busy(u)'
    BY <1>1 DEF Busy, Free, Waiting
<1>4. ASSUME NEW u \in RemThreads, Busy(u)
      PROVE  /\ remCall[u] \in Calls /\ remCall'[u] \in Calls /\ Busy(u)'
             /\ remCall'[u].at = remCall[u].at /\ remCall'[u].doc = remCall[u].doc
             /\ remCall'[u].for = remCall[u].for
             /\ IF remCall[u].for = m.nr /\ remCall[u].got = "nothing"
                THEN remCall'[u].got = got ELSE remCall'[u].got = remCall[u].got
  <2>1. remCall[u] \in Calls
      BY <1>1, <1>4 DEF Busy, Free
  <2>2. /\ remCall[u].at \in Waiting
        /\ remCall'[u] = IF remCall[u].for = m.nr /\ remCall[u].got = "nothing"
                         THEN [remCall[u] EXCEPT !.got = got] ELSE remCall[u]
      BY <1>1, <2>1 DEF Calls
  <2> QED BY <2>1, <2>2 DEF Calls, Busy, Waiting
<1>5. RemTypes'
  <2>1. remCall' \in [RemThreads -> {Free} \cup Calls]
    <3>1. \A u \in RemThreads : remCall'[u] \in {Free} \cup Calls
        BY <1>1, <1>3, <1>4
    <3> QED BY <1>1, <3>1
  <2> QED BY <1>1, <1>2, <2>1 DEF RemInv, RemTypes
<1>6. Sequenced'
    BY DEF RemInv, Sequenced
<1>7. \A u \in RemThreads : Busy(u)' => Busy(u)
    BY <1>3
<1>8. Requests'
  <2>1. ASSUME NEW u \in RemThreads, Busy(u)' PROVE Asking(u)'
    <3>1. Busy(u) /\ Asking(u)
        BY <2>1, <1>7 DEF RemInv, Requests
    <3>2. ASSUME NEW n \in wire', n.nr = remCall[u].for PROVE n.nr # m.nr
        BY DEF RemInv, Sequenced
    <3> QED BY <3>1, <3>2, <1>4 DEF Asking, AddCall
  <2>2. \A u \in RemThreads, v \in RemThreads :
           Busy(u)' /\ Busy(v)' /\ u # v =>
              /\ remCall'[u].doc # remCall'[v].doc
              /\ remCall'[u].for # remCall'[v].for
      BY <1>4, <1>7 DEF RemInv, Requests
  <2> QED BY <2>1, <2>2 DEF Requests
<1>9. OneAdd'
  <2> SUFFICES ASSUME NEW n \in wire', AddCall(n)
               PROVE  /\ remote'[n.doc] = 0 /\ Underway(n)'
                      /\ \A k \in wire' : AddCall(k) /\ k.doc = n.doc => k = n
      BY DEF OneAdd, AddCall
  <2>1. /\ n \in wire /\ n # m /\ n.doc \in RemDocs /\ remote[n.doc] = 0 /\ Underway(n)
        /\ \A k \in wire : AddCall(k) /\ k.doc = n.doc => k = n
      BY <1>1 DEF RemInv, OneAdd, Messages
  <2>2. AddCall(m) => m.doc # n.doc
      BY <2>1
  <2>3. remote'[n.doc] = 0
      BY <1>2, <2>1, <2>2
  <2>4. Underway(n)'
      BY <1>4, <2>1 DEF Underway
  <2> QED BY <2>1, <2>3, <2>4
<1>10. Prompt'
  <2> SUFFICES ASSUME NEW n \in wire', n.doc \notin late PROVE Awaited(n)'
      BY DEF Prompt
  <2>1. PICK u \in RemThreads : /\ Busy(u) /\ remCall[u].doc = n.doc
                                /\ remCall[u].for = n.nr /\ remCall[u].got = "nothing"
      BY DEF RemInv, Prompt, Awaited
  <2>2. n.nr # m.nr
      BY DEF RemInv, Sequenced
  <2> QED BY <2>1, <2>2, <1>4 DEF Awaited
<1>11. Gone'
  <2> SUFFICES ASSUME NEW x \in RemDocs, Bare(x)' PROVE remote'[x] = 0
      BY DEF Gone
  <2>1. ASSUME NEW u \in RemThreads, Busy(u), remCall[u].doc = x, remCall[u].for = m.nr,
               remCall[u].got = "nothing", remCall[u].at # "adding"
        PROVE  got = "ok" => remote'[x] = 0
    <3>1. m.doc = x /\ ~AddCall(m)
        BY <2>1 DEF RemInv, Requests, Asking
    <3> QED BY <3>1, <1>2
  <2>2. CASE AddCall(m) /\ m.doc = x
    <3>1. Underway(m)
        BY <2>2 DEF RemInv, OneAdd
    <3>2. x \notin late => Awaited(m)
        BY <2>2 DEF RemInv, Prompt
    <3>3. \A u \in RemThreads : Busy(u) => remRow[remCall[u].doc] \in {"new", "there"}
        BY DEF RemInv, Requests, Asking
    <3>4. \A u \in RemThreads : Busy(u) /\ remCall[u].doc = x =>
              \/ remCall[u].at = "undoing"
              \/ remCall[u].at = "adding" /\ remCall[u].for = m.nr
        BY <2>2, NoAdd
    <3>5. PICK u \in RemThreads :
              /\ Busy(u)' /\ remCall'[u].doc = x /\ remCall'[u].got = "ok"
              /\ \/ remCall'[u].at = "removing"
                 \/ remCall'[u].at = "undoing" /\ x \notin late
      <4>1. ~ (remRow[x] = "new" /\ Alone(x)')
          BY <2>2, <3>1, <1>4 DEF Underway, Alone, Busy
      <4>2. remRow[x] # "deleted"
          BY <2>2, <3>1, <3>3 DEF Underway
      <4>3. ~ (remRow[x] = "failed" /\ x \notin late)
          BY <2>2, <3>2, <3>3 DEF Awaited
      <4> QED BY <4>1, <4>2, <4>3 DEF Bare
    <3>6. Busy(u) /\ remCall[u].doc = x /\ remCall[u].at = "undoing" /\ x \notin late
        BY <1>4, <1>7, <3>4, <3>5
    <3>7. PICK v \in RemThreads : Busy(v) /\ remCall[v].doc = m.doc /\ remCall[v].for = m.nr
        BY <3>2, <3>6 DEF Awaited
    <3>8. v = u
        BY <2>2, <3>6, <3>7 DEF RemInv, Requests
    <3>9. remCall[u].at = "adding"
        BY <2>2, <3>6, <3>7, <3>8 DEF RemInv, Requests, Asking
    <3> QED BY <3>6, <3>9
  <2>3. CASE ~(AddCall(m) /\ m.doc = x)
    <3>1. remote[x] = 0 => remote'[x] = 0
        BY <2>3, <1>2
    <3>2. Bare(x) \/ remote'[x] = 0
      <4>1. ASSUME NEW u \in RemThreads, Busy(u)', remCall'[u].doc = x, remCall'[u].got = "ok",
                   remCall'[u].at = "removing" \/ (remCall'[u].at = "undoing" /\ x \notin late)
            PROVE  Bare(x) \/ remote'[x] = 0
        <5>1. Busy(u) /\ remCall[u].doc = x /\ remCall'[u].at = remCall[u].at /\ remCall[u].at # "adding"
            BY <4>1, <1>4, <1>7
        <5>2. CASE remCall[u].for = m.nr /\ remCall[u].got = "nothing"
            BY <5>1, <5>2, <4>1, <2>1, <1>4
        <5>3. CASE ~(remCall[u].for = m.nr /\ remCall[u].got = "nothing")
            BY <5>1, <5>3, <4>1, <1>4 DEF Bare
        <5> QED BY <5>2, <5>3
      <4>2. Alone(x)' => Alone(x)
          BY <1>4 DEF Alone, Busy
      <4> QED BY <4>1, <4>2 DEF Bare
    <3> QED BY <3>1, <3>2 DEF RemInv, Gone
  <2> QED BY <2>2, <2>3
<1>12. ByChunkIds'
    BY <1>4, <1>7 DEF RemInv, ByChunkIds
<1> QED BY <1>5, <1>6, <1>8, <1>9, <1>10, <1>11, <1>12 DEF RemInv

\* A call that is given up stays on its way.
LEMMA TimeOutStep == ASSUME RemInv, NEW t \in RemThreads, TimeOut(t) PROVE RemInv'
<1>1. /\ remCall[t].at \in Waiting /\ remCall[t].got = "nothing"
      /\ timeouts < MaxTimeouts /\ timeouts' = timeouts + 1
      /\ remCall' = [remCall EXCEPT ![t].got = "error"]
      /\ late' = late \cup {remCall[t].doc}
      /\ UNCHANGED <<remote, wire, remRow, oldNode, posts, refusals>>
    BY DEF TimeOut
<1>2. /\ remCall \in [RemThreads -> {Free} \cup Calls] /\ timeouts \in 0..MaxTimeouts
      /\ MaxTimeouts \in Nat /\ remCall[t].at # "idle"
    BY <1>1, RemAssumption DEF RemInv, RemTypes, Waiting
<1>3. remCall[t] \in Calls
    BY <1>2 DEF Free
<1>4. /\ Busy(t) /\ Busy(t)' /\ remCall'[t] \in Calls
      /\ remCall'[t].at = remCall[t].at /\ remCall'[t].doc = remCall[t].doc
      /\ remCall'[t].for = remCall[t].for /\ remCall'[t].got = "error"
      /\ \A u \in RemThreads : u # t => remCall'[u] = remCall[u] /\ Busy(u)' = Busy(u)
    BY <1>1, <1>2, <1>3 DEF Busy, Calls
<1>5. ASSUME NEW u \in RemThreads
      PROVE  /\ Busy(u)' = Busy(u) /\ remCall'[u].at = remCall[u].at
             /\ Busy(u) => /\ remCall'[u].doc = remCall[u].doc
                           /\ remCall'[u].for = remCall[u].for
                           /\ remCall'[u].got \in {remCall[u].got, "error"}
  <2>1. CASE u = t
      BY <2>1, <1>4
  <2>2. CASE u # t
      BY <2>2, <1>4
  <2> QED BY <2>1, <2>2
<1>6. RemTypes'
  <2>1. timeouts' \in 0..MaxTimeouts
      BY <1>1, <1>2
  <2>2. remCall' \in [RemThreads -> {Free} \cup Calls]
      BY <1>1, <1>2, <1>4
  <2>3. late' \in SUBSET RemDocs
      BY <1>1, <1>3 DEF Calls, RemInv, RemTypes
  <2> QED BY <1>1, <2>1, <2>2, <2>3 DEF RemInv, RemTypes
<1>7. Sequenced'
    BY <1>1 DEF RemInv, Sequenced
<1>8. Requests'
  <2>1. ASSUME NEW u \in RemThreads, Busy(u)' PROVE Asking(u)'
    <3>1. Busy(u) /\ Asking(u)
        BY <2>1, <1>5 DEF RemInv, Requests
    <3> QED BY <3>1, <1>1, <1>5 DEF Asking, AddCall
  <2> QED BY <2>1, <1>5 DEF RemInv, Requests
<1>9. OneAdd'
    BY <1>1, <1>5 DEF RemInv, OneAdd, AddCall, Underway
<1>10. Prompt'
  <2> SUFFICES ASSUME NEW m \in wire, m.doc \notin late' PROVE Awaited(m)'
      BY <1>1 DEF Prompt
  <2>1. PICK u \in RemThreads : /\ Busy(u) /\ remCall[u].doc = m.doc
                                /\ remCall[u].for = m.nr /\ remCall[u].got = "nothing"
      BY <1>1 DEF RemInv, Prompt, Awaited
  <2>2. u # t
      BY <1>1, <2>1
  <2> QED BY <2>1, <2>2, <1>4 DEF Awaited
<1>11. Gone'
  <2> SUFFICES ASSUME NEW x \in RemDocs, Bare(x)' PROVE Bare(x)
      BY <1>1 DEF Gone, RemInv
  <2>1. Alone(x)' => Alone(x)
      BY <1>5 DEF Alone, Busy
  <2>2. x \notin late' => x \notin late
      BY <1>1
  <2>3. ASSUME NEW u \in RemThreads, Busy(u)', remCall'[u].doc = x, remCall'[u].got = "ok",
               remCall'[u].at = "removing" \/ (remCall'[u].at = "undoing" /\ x \notin late')
        PROVE  Bare(x)
      BY <2>2, <2>3, <1>5 DEF Bare
  <2> QED BY <2>1, <2>2, <2>3, <1>1 DEF Bare
<1>12. ByChunkIds'
    BY <1>1, <1>5 DEF RemInv, ByChunkIds
<1> QED BY <1>6, <1>7, <1>8, <1>9, <1>10, <1>11, <1>12 DEF RemInv

LEMMA HandleInv == ASSUME RemInv, NEW m \in wire, Handle(m) PROVE RemInv'
<1>1. /\ wire' = wire \ {m} /\ UNCHANGED <<remRow, oldNode, posts, timeouts, late>>
      /\ refusals \in 0..MaxRefusals /\ MaxRefusals \in Nat
    BY RemAssumption DEF Handle, RemInv, RemTypes
<1>2. CASE Unknown(m) /\ Deliver(m, "404") /\ UNCHANGED <<remote, refusals>>
    BY <1>1, <1>2, HandleStep DEF Unknown
<1>3. CASE ~Unknown(m) /\ remote' = Applied(m) /\ Deliver(m, "ok") /\ UNCHANGED refusals
    BY <1>1, <1>3, HandleStep
<1>4. CASE /\ refusals < MaxRefusals /\ refusals' = refusals + 1
           /\ remote' \in {remote} \cup (IF Unknown(m) THEN {} ELSE {Applied(m)})
           /\ Deliver(m, "error")
  <2>1. refusals' \in 0..MaxRefusals /\ remote' \in {remote, Applied(m)}
      BY <1>1, <1>4
  <2> QED BY <1>1, <1>4, <2>1, HandleStep
<1> QED BY <1>2, <1>3, <1>4 DEF Handle

LEMMA RemStep == RemInv /\ [RemNext]_remVars => RemInv'
<1> SUFFICES ASSUME RemInv, [RemNext]_remVars PROVE RemInv'
    OBVIOUS
<1>1. /\ remCall \in [RemThreads -> {Free} \cup Calls] /\ wire \in SUBSET Messages
      /\ remRow \in [RemDocs -> {"new", "there", "failed", "orphan", "deleted"}]
      /\ remote \in [RemDocs -> 0..1]
    BY DEF RemInv, RemTypes
<1>2. ASSUME NEW t \in RemThreads, Busy(t)
      PROVE  /\ remCall[t] \in Calls /\ remCall[t].doc \in RemDocs
             /\ remRow[remCall[t].doc] \in {"new", "there"}
    BY <1>1, <1>2 DEF Busy, Free, Calls, RemInv, Requests, Asking
<1>3. ASSUME NEW t \in RemThreads, Busy(t), remCall[t].got = "ok", remCall[t].at = "removing"
      PROVE  remote[remCall[t].doc] = 0
    BY <1>2, <1>3 DEF RemInv, Gone, Bare
<1>4. ASSUME NEW t \in RemThreads, NEW d \in RemDocs, BeginRemote(t, d) PROVE RemInv'
  <2>1. /\ ~Busy(t) /\ Alone(d)
        /\ UNCHANGED <<remote, remRow, oldNode, timeouts, refusals, late>>
      BY <1>4 DEF BeginRemote, Busy
  <2>2. \A m \in wire : AddCall(m) /\ remRow[d] \in {"new", "there"} => m.doc # d
      BY <2>1 DEF RemInv, OneAdd, Underway, Alone, Busy
  <2>3. CASE remRow[d] = "new" /\ Post(t, "add_batch", "add", "adding", d)
    <3>1. remote[d] = 0
        BY <2>1, <2>3 DEF RemInv, Gone, Bare
    <3> QED BY <2>1, <2>2, <2>3, <3>1, PostStep DEF Waiting
  <2>4. ASSUME NEW op \in {"replace", "delete"}, remRow[d] = "there",
               Post(t, "delete_by_chunk_ids", op, "removing", d)
        PROVE  RemInv'
      BY <2>1, <2>2, <2>4, PostStep DEF Waiting
  <2> QED BY <1>4, <2>3, <2>4 DEF BeginRemote
<1>5. ASSUME NEW t \in RemThreads, Added(t) PROVE RemInv'
  <2>1. /\ Busy(t) /\ remCall[t].at = "adding"
        /\ UNCHANGED <<remote, oldNode, timeouts, refusals, late>>
      BY <1>5 DEF Added, Busy
  <2>2. CASE remCall[t].got = "ok" /\ Ended(t, remCall[t].doc, "there")
    <3>1. \A m \in wire : AddCall(m) => m.doc # remCall[t].doc
        BY <2>1, <2>2, NoAdd
    <3> QED BY <2>1, <2>2, <3>1, EndStep
  <2>3. CASE /\ remCall[t].got \in {"ok", "error"}
             /\ Post(t, "delete_by_chunk_ids", "undo", "undoing", remCall[t].doc)
             /\ UNCHANGED remRow
      BY <2>1, <2>3, <1>2, PostStep DEF Waiting
  <2> QED BY <1>5, <2>2, <2>3 DEF Added
<1>6. ASSUME NEW t \in RemThreads, FallBack(t) PROVE RemInv'
  <2>1. /\ Busy(t) /\ remCall[t].at \in {"undoing", "removing"} /\ remCall[t].got = "404"
        /\ Post(t, "delete_by_doc", remCall[t].op, remCall[t].at, remCall[t].doc)
        /\ UNCHANGED <<remote, remRow, oldNode, timeouts, refusals, late>>
      BY <1>6 DEF FallBack, FallsBack, Busy
  <2>2. oldNode
      BY <2>1 DEF RemInv, RemTypes, ByChunkIds
  <2>3. remCall[t].at # "undoing" => \A m \in wire : AddCall(m) => m.doc # remCall[t].doc
      BY <2>1, NoAdd
  <2>4. remCall[t].op \in {"add", "undo", "replace", "delete"}
      BY <2>1, <1>2 DEF Calls
  <2> QED BY <2>1, <2>2, <2>3, <2>4, <1>2, PostStep DEF Waiting
<1>7. ASSUME NEW t \in RemThreads, Undone(t) PROVE RemInv'
  <2>1. /\ Busy(t) /\ remCall[t].at = "undoing" /\ remCall[t].got \in {"ok", "error"}
        /\ Ended(t, remCall[t].doc, Verdict(remCall[t].got))
        /\ UNCHANGED <<remote, oldNode, timeouts, refusals, late>>
      BY <1>7 DEF Undone, Busy
  <2>2. /\ Verdict(remCall[t].got) \in {"failed", "orphan"}
        /\ Verdict(remCall[t].got) = "failed" /\ remCall[t].doc \notin late
           => remote[remCall[t].doc] = 0
      BY <2>1, <1>2 DEF Verdict, RemInv, Gone, Bare
  <2> QED BY <2>1, <2>2, EndStep
<1>8. ASSUME NEW t \in RemThreads, Removed(t) PROVE RemInv'
  <2>1. /\ Busy(t) /\ remCall[t].at = "removing"
        /\ UNCHANGED <<remote, oldNode, timeouts, refusals, late>>
      BY <1>8 DEF Removed, Busy
  <2>2. \A m \in wire : AddCall(m) => m.doc # remCall[t].doc
      BY <2>1, NoAdd
  <2>3. CASE remCall[t].got = "ok" /\ Ended(t, remCall[t].doc, "deleted")
      BY <2>1, <2>2, <2>3, <1>3, EndStep
  <2>4. CASE /\ remCall[t].got = "ok" /\ UNCHANGED remRow
             /\ Post(t, "add_batch", "add", "adding", remCall[t].doc)
      BY <2>1, <2>2, <2>4, <1>2, <1>3, PostStep DEF Waiting
  <2>5. CASE remCall[t].got = "error" /\ Ended(t, remCall[t].doc, "there")
      BY <2>1, <2>2, <2>5, EndStep
  <2> QED BY <1>8, <2>3, <2>4, <2>5 DEF Removed
<1>9. CASE UNCHANGED remVars
    BY <1>9 DEF remVars, RemInv, RemTypes, Sequenced, Requests, Asking, OneAdd, Underway,
           Prompt, Awaited, Gone, Bare, Alone, ByChunkIds, Busy, AddCall
<1> QED BY <1>4, <1>5, <1>6, <1>7, <1>8, <1>9, TimeOutStep, HandleInv DEF RemNext

\* The node holds a document at most once, and what the wire and the requests
\* still hold of it is consistent with its row.
THEOREM RemoteInvariant == RemSpec => []RemInv
<1> QED BY RemInitInv, RemStep, PTL DEF RemSpec

LEMMA RemSafe == RemInv => RemTypeOK /\ StoredOnce /\ FailedClean
<1> SUFFICES ASSUME RemInv PROVE RemTypeOK /\ StoredOnce /\ FailedClean
    OBVIOUS
<1>1. /\ remote \in [RemDocs -> 0..1] /\ wire \in SUBSET Messages
      /\ remCall \in [RemThreads -> {Free} \cup Calls]
      /\ posts \in 0..MaxPosts /\ MaxPosts \in Nat
    BY RemAssumption DEF RemInv, RemTypes
<1>2. \A m \in wire : m.doc \in RemDocs /\ m.nr \in 0..(MaxPosts - 1)
  <2> SUFFICES ASSUME NEW m \in wire PROVE m.doc \in RemDocs /\ m.nr \in 0..(MaxPosts - 1)
      OBVIOUS
  <2>1. m.doc \in RemDocs /\ m.nr \in Nat /\ m.nr < posts
      BY <1>1 DEF Messages, RemInv, Sequenced
  <2> QED BY <1>1, <2>1
<1>3. \A t \in RemThreads : remCall[t].at = "idle" \/ remCall[t].at \in Waiting
    BY <1>1 DEF Free, Calls
<1>4. remote \in [RemDocs -> Nat]
    BY <1>1
<1>5. RemTypeOK
    BY <1>2, <1>3, <1>4 DEF RemTypeOK, RemInv, RemTypes
<1>6. StoredOnce
    BY <1>1 DEF StoredOnce
<1>7. FailedClean
    BY DEF FailedClean, RemInv, Gone, Bare
<1> QED BY <1>5, <1>6, <1>7

LEMMA Neighbours ==
    RemInv /\ [RemNext]_remVars =>
        [~oldNode => \A d \in RemDocs :
              remote'[d] < remote[d] => \E m \in wire \ wire' : m.doc = d]_remVars
<1> SUFFICES ASSUME RemInv, RemNext, ~oldNode, NEW d \in RemDocs, remote'[d] < remote[d]
             PROVE  \E m \in wire \ wire' : m.doc = d
    BY DEF remVars
<1>1. remote \in [RemDocs -> 0..1]
    BY DEF RemInv, RemTypes
<1>2. ~ UNCHANGED remote
    BY <1>1
<1>3. PICK m \in wire : Handle(m)
    BY <1>2 DEF RemNext, BeginRemote, Added, FallBack, Undone, Removed, TimeOut
<1>4. /\ m \in wire \ wire' /\ m.doc \in RemDocs /\ remote' = Applied(m)
      /\ m.verb \in {"add_batch", "delete_by_chunk_ids"}
  <2>1. m \in wire \ wire' /\ remote' = Applied(m)
      BY <1>2, <1>3 DEF Handle
  <2>2. m \in Messages /\ m.verb # "delete_by_doc"
      BY DEF RemInv, RemTypes, ByChunkIds
  <2> QED BY <2>1, <2>2 DEF Messages
<1>5. CASE m.verb = "add_batch"
  <2>1. remote' = [remote EXCEPT ![m.doc] = @ + 1]
      BY <1>4, <1>5 DEF Applied
  <2> QED BY <1>1, <1>4, <2>1
<1>6. CASE m.verb = "delete_by_chunk_ids"
  <2>1. remote' = [remote EXCEPT ![m.doc] = 0]
      BY <1>4, <1>6 DEF Applied
  <2> QED BY <1>1, <1>4, <2>1
<1> QED BY <1>4, <1>5, <1>6

\* Whatever calls the node gives up, refuses or applies late, it holds one copy,
\* nothing of a clean failure, and the neighbours on a path
\* (store/remote_backend.py, api/routes_store.py), for any number of them.
THEOREM RemoteCorrect == RemSpec => RemoteSafe
<1> QED BY RemoteInvariant, RemSafe, Neighbours, PTL DEF RemSpec, RemoteSafe, NeighboursKept

-----------------------------------------------------------------------------
(* The sides of the templates and of the audit log.                        *)

\* What is at a path is what the side with a handle makes of it.
Made == \A k \in Kinds, side \in Sides : <<k, side>> \in pooled => node[k] = Means(side)

\* A search under way has a number.
Numbered == \A s \in Searchers : finder[s].stage # "idle" => finder[s].number > 0

AdmInv == AdmTypeOK /\ searches \in Nat /\ Made /\ Numbered

LEMMA AdmInitInv == AdmInit => AdmInv
<1> SUFFICES ASSUME AdmInit PROVE AdmInv
    OBVIOUS
<1>1. AdmTypeOK
    BY DEF AdmInit, AdmTypeOK, Kinds, Sides
<1> QED BY <1>1 DEF AdmInit, AdmInv, Made, Numbered

\* A step on the handles leaves what is there as it is, and one side out.
Stays(k) == /\ node[k] # "nothing" => node'[k] = node[k]
            /\ ~({<<k, "admin">>, <<k, "search">>} \subseteq pooled')
HandlesKept == /\ node' \in [Kinds -> {"nothing", "file", "directory"}]
               /\ pooled' \subseteq Kinds \X Sides /\ Made'
               /\ \A k \in Kinds : Stays(k)

LEMMA Opened ==
    ASSUME AdmInv, NEW k \in Kinds, NEW side \in Sides, OpenStore(k, side)
    PROVE  HandlesKept
<1>1. /\ <<k, side>> \in pooled \/ node[k] \in {"nothing", Means(side)}
      /\ node' = [node EXCEPT ![k] = Means(side)] /\ pooled' = pooled \cup {<<k, side>>}
    BY DEF OpenStore, Opens
<1>2. /\ Means(side) \in {"file", "directory"} /\ Means("admin") # Means("search")
      /\ "admin" \in Sides /\ "search" \in Sides
    BY DEF Means, Sides
<1>3. node \in [Kinds -> {"nothing", "file", "directory"}] /\ pooled \subseteq Kinds \X Sides /\ Made
    BY DEF AdmInv, AdmTypeOK
<1>4. node[k] \in {"nothing", Means(side)}
    BY <1>1, <1>3 DEF Made
<1>5. node' \in [Kinds -> {"nothing", "file", "directory"}] /\ pooled' \subseteq Kinds \X Sides
    BY <1>1, <1>2, <1>3
<1>6. \A j \in Kinds : node[j] # "nothing" => node'[j] = node[j]
    BY <1>1, <1>3, <1>4
<1>7. Made'
  <2> SUFFICES ASSUME NEW j \in Kinds, NEW s \in Sides, <<j, s>> \in pooled'
               PROVE  node'[j] = Means(s)
      BY DEF Made, Means
  <2>1. CASE <<j, s>> = <<k, side>>
      BY <2>1, <1>1, <1>3
  <2>2. CASE <<j, s>> \in pooled
    <3>1. node[j] = Means(s) /\ Means(s) # "nothing"
        BY <2>2, <1>3 DEF Made, Means
    <3> QED BY <3>1, <1>6
  <2> QED BY <2>1, <2>2, <1>1
<1>8. \A j \in Kinds : Stays(j)
    BY <1>2, <1>6, <1>7 DEF Stays, Made, Means
<1> QED BY <1>5, <1>7, <1>8 DEF HandlesKept

LEMMA NotOpened ==
    ASSUME AdmInv, UNCHANGED node, pooled' \in {pooled, {}}
    PROVE  HandlesKept
<1>1. /\ Means("admin") # Means("search") /\ "admin" \in Sides /\ "search" \in Sides
      /\ \A side : Means(side)' = Means(side)
    BY DEF Means, Sides
<1>2. Made'
    BY <1>1 DEF AdmInv, Made
<1>3. \A j \in Kinds : Stays(j)
    BY <1>1, <1>2 DEF Stays, Made
<1> QED BY <1>2, <1>3 DEF HandlesKept, AdmInv, AdmTypeOK

LEMMA AdmStep == AdmInv /\ [AdmNext]_admVars => AdmInv' /\ \A k \in Kinds : Stays(k)
<1> SUFFICES ASSUME AdmInv, [AdmNext]_admVars PROVE AdmInv' /\ \A k \in Kinds : Stays(k)
    OBVIOUS
<1>1. /\ own \in [Sides -> SUBSET Names] /\ rows \in [Sides -> SUBSET (1..searches)]
      /\ finder \in [Searchers -> [stage : {"idle", "read", "answered", "failed"},
                                   number : 0..searches, used : {"own", "builtin", "none"}]]
      /\ answered \subseteq 1..searches /\ searches \in Nat
      /\ "admin" \in Sides /\ "search" \in Sides /\ "audit" \in Kinds /\ "templates" \in Kinds
    BY DEF AdmInv, AdmTypeOK, Sides, Kinds
<1>2. ASSUME HandlesKept, own' \in [Sides -> SUBSET Names],
             UNCHANGED <<rows, finder, answered, searches>>
      PROVE  AdmInv'
    BY <1>2 DEF AdmInv, AdmTypeOK, HandlesKept, Numbered
<1>3. ASSUME NEW name \in Names, CreateTemplate(name) PROVE HandlesKept /\ AdmInv'
  <2>1. HandlesKept
      BY <1>1, <1>3, Opened, NotOpened DEF CreateTemplate, OpenFails
  <2>2. own' \in [Sides -> SUBSET Names]
      BY <1>1, <1>3 DEF CreateTemplate
  <2> QED BY <1>2, <1>3, <2>1, <2>2 DEF CreateTemplate
<1>4. ASSUME NEW name \in Names, DeleteTemplate(name) PROVE HandlesKept /\ AdmInv'
  <2>1. HandlesKept
      BY <1>1, <1>4, Opened DEF DeleteTemplate
  <2>2. own' \in [Sides -> SUBSET Names]
      BY <1>1, <1>4 DEF DeleteTemplate
  <2> QED BY <1>2, <1>4, <2>1, <2>2 DEF DeleteTemplate
<1>5. ASSUME ListTemplates \/ ListAudit \/ UNCHANGED admVars PROVE HandlesKept /\ AdmInv'
  <2>1. HandlesKept
      BY <1>1, <1>5, Opened, NotOpened DEF ListTemplates, ListAudit, OpenFails, admVars
  <2>2. UNCHANGED <<own, rows, finder, answered, searches>>
      BY <1>5 DEF ListTemplates, ListAudit, admVars
  <2> QED BY <1>1, <1>2, <2>1, <2>2
<1>6. ASSUME NEW s \in Searchers, BeginSearch(s) PROVE HandlesKept /\ AdmInv'
  <2>1. HandlesKept
      BY <1>1, <1>6, Opened, NotOpened DEF BeginSearch, OpenFails
  <2>2. /\ searches' = searches + 1 /\ UNCHANGED <<own, rows, answered>>
        /\ \E stage \in {"failed", "read"}, used \in {"own", "builtin", "none"} :
              finder' = [finder EXCEPT ![s] = [stage |-> stage, number |-> searches', used |-> used]]
      BY <1>6 DEF BeginSearch, Found
  <2>3. PICK stage \in {"failed", "read"}, used \in {"own", "builtin", "none"} :
            finder' = [finder EXCEPT ![s] = [stage |-> stage, number |-> searches', used |-> used]]
      BY <2>2
  <2>4. /\ searches' \in Nat /\ searches' > 0 /\ searches' \in 0..searches'
        /\ \A n \in 0..searches : n \in 0..searches'
        /\ \A n \in 1..searches : n \in 1..searches'
      BY <1>1, <2>2
  <2>5. finder' \in [Searchers -> [stage : {"idle", "read", "answered", "failed"},
                                   number : 0..searches', used : {"own", "builtin", "none"}]]
    <3>1. \A t \in Searchers : finder[t] \in [stage : {"idle", "read", "answered", "failed"},
                                   number : 0..searches', used : {"own", "builtin", "none"}]
        BY <1>1, <2>4
    <3> QED BY <1>1, <2>3, <2>4, <3>1
  <2>6. rows' \in [Sides -> SUBSET (1..searches')] /\ answered' \subseteq 1..searches'
      BY <1>1, <2>2, <2>4
  <2>7. Numbered'
      BY <1>1, <2>3, <2>4 DEF AdmInv, Numbered
  <2>8. AdmTypeOK'
      BY <1>1, <2>1, <2>2, <2>5, <2>6 DEF AdmTypeOK, HandlesKept
  <2> QED BY <2>1, <2>4, <2>7, <2>8 DEF AdmInv, HandlesKept
<1>7. ASSUME NEW s \in Searchers, LogAndAnswer(s) PROVE HandlesKept /\ AdmInv'
  <2>1. HandlesKept
      BY <1>1, <1>7, Opened, NotOpened DEF LogAndAnswer, OpenFails
  <2>2. finder[s].number \in 1..searches
      BY <1>1, <1>7 DEF LogAndAnswer, AdmInv, Numbered
  <2>3. /\ rows' \in {rows, [rows EXCEPT !["search"] = @ \cup {finder[s].number}]}
        /\ finder' = [finder EXCEPT ![s].stage = "answered"]
        /\ answered' = answered \cup {finder[s].number}
        /\ UNCHANGED <<own, searches>>
      BY <1>7 DEF LogAndAnswer
  <2>4. rows' \in [Sides -> SUBSET (1..searches)] /\ answered' \subseteq 1..searches
      BY <1>1, <2>2, <2>3
  <2>5. finder' \in [Searchers -> [stage : {"idle", "read", "answered", "failed"},
                                   number : 0..searches, used : {"own", "builtin", "none"}]]
      BY <1>1, <2>3
  <2>6. Numbered'
      BY <1>1, <2>2, <2>3 DEF AdmInv, Numbered
  <2>7. AdmTypeOK'
      BY <1>1, <2>1, <2>3, <2>4, <2>5 DEF AdmTypeOK, HandlesKept
  <2> QED BY <1>1, <2>1, <2>3, <2>6, <2>7 DEF AdmInv, HandlesKept
<1>8. ASSUME Checkpoint PROVE HandlesKept /\ AdmInv'
  <2> DEFINE opened == IF Opens("templates", "admin")
                       THEN IF Opens("audit", "admin") THEN Kinds ELSE {"templates"}
                       ELSE {}
  <2>1. /\ node' = [k \in Kinds |-> IF k \in opened THEN "file" ELSE node[k]]
        /\ pooled' = pooled \cup (opened \X {"admin"})
        /\ UNCHANGED <<own, rows, finder, answered, searches>>
      BY <1>8 DEF Checkpoint
  <2>2. opened \subseteq Kinds /\ \A k \in opened : Opens(k, "admin")
      BY DEF Kinds
  <2> HIDE DEF opened
  <2>3. /\ node \in [Kinds -> {"nothing", "file", "directory"}]
        /\ pooled \subseteq Kinds \X Sides /\ Made
      BY DEF AdmInv, AdmTypeOK
  <2>4. \A k \in opened : node[k] \in {"nothing", "file"}
      BY <1>1, <2>2, <2>3 DEF Opens, Made, Means
  <2>5. node' \in [Kinds -> {"nothing", "file", "directory"}] /\ pooled' \subseteq Kinds \X Sides
      BY <1>1, <2>1, <2>2, <2>3
  <2>6. \A j \in Kinds : node[j] # "nothing" => node'[j] = node[j]
      BY <2>1, <2>2, <2>3, <2>4
  <2>7. Made'
    <3> SUFFICES ASSUME NEW j \in Kinds, NEW t \in Sides, <<j, t>> \in pooled'
                 PROVE  node'[j] = Means(t)
        BY DEF Made, Means
    <3>1. CASE <<j, t>> \in opened \X {"admin"}
        BY <3>1, <2>1 DEF Means
    <3>2. CASE <<j, t>> \in pooled
      <4>1. node[j] = Means(t) /\ Means(t) # "nothing"
          BY <3>2, <2>3 DEF Made, Means
      <4> QED BY <4>1, <2>6
    <3> QED BY <3>1, <3>2, <2>1
  <2>8. \A j \in Kinds : Stays(j)
      BY <1>1, <2>6, <2>7 DEF Stays, Made, Means
  <2>9. HandlesKept
      BY <2>5, <2>7, <2>8 DEF HandlesKept
  <2> QED BY <1>1, <1>2, <2>1, <2>9
<1>9. ASSUME Start PROVE HandlesKept /\ AdmInv'
  <2>1. HandlesKept
      BY <1>9, NotOpened DEF Start
  <2>2. /\ finder' = [t \in Searchers |-> [stage |-> "idle", number |-> 0, used |-> "none"]]
        /\ UNCHANGED <<own, rows, answered, searches>>
      BY <1>9 DEF Start
  <2>3. 0 \in 0..searches
      BY <1>1
  <2>4. finder' \in [Searchers -> [stage : {"idle", "read", "answered", "failed"},
                                   number : 0..searches, used : {"own", "builtin", "none"}]]
      BY <2>2, <2>3
  <2>5. Numbered'
      BY <2>2 DEF Numbered
  <2> QED BY <1>1, <2>1, <2>2, <2>4, <2>5 DEF AdmInv, AdmTypeOK, HandlesKept
<1>10. HandlesKept /\ AdmInv'
    BY <1>3, <1>4, <1>5, <1>6, <1>7, <1>8, <1>9 DEF AdmNext
<1> QED BY <1>10 DEF HandlesKept

\* What is at the path of a store is what the side that holds a handle makes of it,
\* and a search under way has a number.
THEOREM AdminInvariant == AdmSpec => []AdmInv
<1>1. AdmInv /\ [AdmNext]_admVars => AdmInv'
    BY AdmStep
<1> QED BY <1>1, AdmInitInv, PTL DEF AdmSpec

\* The side that made the file or the folder of the templates or of the audit log
\* first keeps the path, and the other side never opens it beside it
\* (app_state.py, search_template.py, audit_logger.py), for any number of templates
\* and searches.
THEOREM SidesApartCorrect == AdmSpec => SidesApart
<1>1. AdmInv => AdmTypeOK
    BY DEF AdmInv
<1>2. AdmInv /\ [AdmNext]_admVars =>
          [\A k \in Kinds : /\ node[k] # "nothing" => node'[k] = node[k]
                            /\ ~({<<k, "admin">>, <<k, "search">>} \subseteq pooled')]_admVars
    BY AdmStep DEF Stays
<1> QED BY <1>1, <1>2, AdminInvariant, PTL DEF AdmSpec, SidesApart, FirstSideStays

=============================================================================
