-------------------------- MODULE Services_proofs ---------------------------
(***************************************************************************)
(* Proofs about Bm25Index, Trajectory, BnupLessons, DirectorySync and      *)
(* GraphRag, for every number of threads, requests, files, chunks and names.*)
(* Each part has an invariant of its own.                                  *)
(***************************************************************************)
EXTENDS Bm25Index, Trajectory, BnupLessons, DirectorySync, GraphRag,
        FiniteSetTheorems, WellFoundedInduction, TLAPS

(* The keyword index.  A chunk that no call works on is in memory, on the  *)
(* connection and on disk what was promised (AtRest); the connection has   *)
(* of the others what their call has written (AtWork).                     *)

\* The texts of a chunk, and the tokens it is posted under.
TextsOf(t, i) == {x \in SUBSET Tokens : <<i, x>> \in t}
KeysOf(p, i)  == {k \in Tokens : <<k, i>> \in p}

\* What a copy of the index has of a chunk.
Has(t, p, i, x) == TextsOf(t, i) = x /\ (i \notin again => KeysOf(p, i) = UNION x)
Current(t, p, i) == Has(t, p, i, TextsOf(want, i))

Busy(w) == pc[w] # "idle"
Resting(i) == \A w \in Writers : Busy(w) => i \notin op[w].batch

\* A chunk that no call works on is what was promised, in every copy.
AtRest == \A i \in Ids \ spoiled : Resting(i) =>
    Current(texts, inverted, i) /\ Current(txn.docs, txn.postings, i)
    /\ Current(disk.docs, disk.postings, i)

\* As long as calls do not overlap, the disk is behind until the commit.
DiskBehind == ~crossed => \A i \in Ids \ spoiled : Current(disk.docs, disk.postings, i)

\* A call is for a document of its own.
Consistent(w) ==
    /\ op[w].batch \in Batches /\ op[w].gone \subseteq op[w].batch /\ op[w].todo \subseteq op[w].batch
    /\ op[w].kind # "none"
    /\ pc[w] \in {"docs", "postings", "undo"} => op[w].kind = "add"
    /\ pc[w] \in {"delPostings", "delDocs"} => op[w].kind # "add"
    /\ op[w].kind = "add" => op[w].batch \subseteq Indexed(texts)
    /\ op[w].kind = "add" /\ pc[w] = "stats" => op[w].todo = op[w].batch
Calls == /\ \A w \in Writers : Busy(w) => Consistent(w)
         /\ \A v \in Writers, w \in Writers : Busy(v) /\ Busy(w) /\ v # w =>
                op[v].batch # op[w].batch /\ crossed

\* What a call makes of its chunks, and how far it has come.
Aim(w) == IF op[w].kind = "add" THEN {op[w].text} ELSE {}
DocDone(w, i) == IF op[w].kind = "add"
                 THEN pc[w] \in {"postings", "commit"} \/ (pc[w] = "docs" /\ i \notin op[w].todo)
                 ELSE i \notin op[w].gone \/ pc[w] = "commit"
PostingsDone(w, i) == IF op[w].kind = "add" THEN pc[w] = "commit"
                      ELSE i \notin op[w].gone \/ pc[w] \in {"delDocs", "commit"}
Unposted(w) == op[w].kind = "add" /\ pc[w] \in {"stats", "docs", "postings"}

Working(w, i) ==
    /\ Has(texts, inverted, i, Aim(w))
    /\ DocDone(w, i) => TextsOf(txn.docs, i) = Aim(w)
    /\ i \notin again => /\ PostingsDone(w, i) => KeysOf(txn.postings, i) = UNION Aim(w)
                         /\ Unposted(w) => KeysOf(txn.postings, i) = {}
AtWork == \A w \in Writers : Busy(w) => \A i \in op[w].batch \ spoiled : Working(w, i)

Finite == /\ IsFiniteSet(Indexed(texts)) /\ IsFiniteSet(inverted)
          /\ IsFiniteSet(Indexed(txn.docs)) /\ IsFiniteSet(txn.postings)
          /\ IsFiniteSet(Indexed(disk.docs)) /\ IsFiniteSet(disk.postings)

\* The statistics, while no two calls have overlapped.
Counting(w) == /\ op[w].stats = size
               /\ pc[w] # "stats" => txn.size = size
Counted == ~crossed /\ spoiled = {} =>
    /\ size = Cardinality(Indexed(texts)) /\ disk.size = Cardinality(Indexed(disk.docs))
    /\ \A w \in Writers : pc[w] \notin {"idle", "undo"} => Counting(w)

BmInv == /\ TypeOK /\ Finite /\ Calls /\ AtRest /\ DiskBehind /\ AtWork
         /\ Counted /\ FrequencyExact

-----------------------------------------------------------------------------
(* Texts and postings of a chunk after a statement.                        *)

\* The postings of the texts that a batch has.
Old(t, b) == Postings({r \in t : r[1] \in b})

LEMMA TextsAfter ==
    ASSUME NEW t \in SUBSET Rows, NEW b, NEW i
    PROVE  /\ TextsOf(Without(t, b), i) = IF i \in b THEN {} ELSE TextsOf(t, i)
           /\ \A x \in SUBSET Tokens :
                 TextsOf(Without(t, b) \cup (b \X {x}), i) = IF i \in b THEN {x} ELSE TextsOf(t, i)
BY DEF TextsOf, Without, Rows

LEMMA KeysPosted ==
    ASSUME NEW t \in SUBSET Rows, NEW b, NEW i
    PROVE  KeysOf(Old(t, b), i) = IF i \in b THEN UNION TextsOf(t, i) ELSE {}
<1>1. ASSUME NEW k PROVE <<k, i>> \in Old(t, b) <=>
                             i \in b /\ \E x : <<i, x>> \in t /\ k \in x
  <2>1. ASSUME NEW r \in t, r[1] \in b, <<k, i>> \in r[2] \X {r[1]}
        PROVE  i \in b /\ <<i, r[2]>> \in t /\ k \in r[2]
    <3>1. r = <<r[1], r[2]>>
        BY DEF Rows
    <3> QED BY <2>1, <3>1
  <2>2. ASSUME NEW x, i \in b, <<i, x>> \in t, k \in x
        PROVE  <<k, i>> \in Old(t, b)
    <3>1. <<i, x>> \in {r \in t : r[1] \in b} /\ <<k, i>> \in <<i, x>>[2] \X {<<i, x>>[1]}
        BY <2>2
    <3> QED BY <3>1 DEF Old, Postings
  <2>3. <<k, i>> \in Old(t, b) =>
            \E r \in t : r[1] \in b /\ <<k, i>> \in r[2] \X {r[1]}
      BY DEF Old, Postings
  <2> QED BY <2>1, <2>2, <2>3
<1>2. \A x : <<i, x>> \in t => x \in SUBSET Tokens
    BY DEF Rows
<1> QED BY <1>1, <1>2 DEF KeysOf, TextsOf

LEMMA IndexedAfter ==
    ASSUME NEW t \in SUBSET Rows, NEW b
    PROVE  /\ Indexed(Without(t, b)) = Indexed(t) \ b
           /\ \A x : Indexed(Without(t, b) \cup (b \X {x})) = Indexed(t) \cup b
<1> SUFFICES ASSUME NEW x
             PROVE  /\ Indexed(Without(t, b)) = Indexed(t) \ b
                    /\ Indexed(Without(t, b) \cup (b \X {x})) = Indexed(t) \cup b
    OBVIOUS
<1>4. Indexed(b \X {x}) = b
  <2>1. \A i \in b : <<i, x>> \in b \X {x} /\ <<i, x>>[1] = i
      OBVIOUS
  <2>2. \A r \in b \X {x} : r[1] \in b
      OBVIOUS
  <2>3. \A i \in b : i \in {r[1] : r \in b \X {x}}
      BY <2>1
  <2> QED BY <2>2, <2>3 DEF Indexed
<1>5. Indexed(Without(t, b) \cup (b \X {x})) = Indexed(Without(t, b)) \cup Indexed(b \X {x})
    BY DEF Indexed
<1>6. Indexed(Without(t, b)) = Indexed(t) \ b
    BY DEF Indexed, Without
<1> QED BY <1>4, <1>5, <1>6

\* The chunks with a text are those in the index.
LEMMA IndexedTexts ==
    ASSUME NEW t \in SUBSET Rows, NEW i
    PROVE  i \in Indexed(t) <=> TextsOf(t, i) # {}
<1>1. ASSUME NEW r \in t, r[1] = i PROVE TextsOf(t, i) # {}
  <2>1. r = <<i, r[2]>> /\ r[2] \in SUBSET Tokens
      BY <1>1 DEF Rows
  <2> QED BY <2>1 DEF TextsOf
<1>2. ASSUME NEW x \in TextsOf(t, i) PROVE i \in Indexed(t)
  <2>1. <<i, x>> \in t /\ <<i, x>>[1] = i
      BY DEF TextsOf
  <2> QED BY <2>1 DEF Indexed
<1> QED BY <1>1, <1>2 DEF Indexed

LEMMA Apart ==
    ASSUME NEW b \in Batches, NEW c \in Batches, b # c
    PROVE  b \cap c = {}
BY BatchAssumption

LEMMA BatchIds == \A b \in Batches : b \subseteq Ids /\ IsFiniteSet(b) /\ b # {}
BY BatchAssumption DEF Ids

-----------------------------------------------------------------------------
(* Types and the discipline of calls.                                      *)

OpType == [kind : {"none", "add", "remove", "undo"}, batch : Batches \cup {{}},
           text : SUBSET Tokens, gone : SUBSET Ids, stats : Int, todo : SUBSET Ids]

LEMMA InitInv == Init => BmInv
<1> SUFFICES ASSUME Init PROVE BmInv
    OBVIOUS
<1>1. TypeOK
  <2>1. txn \in Tables /\ disk \in Tables
      BY DEF Init, Tables, Image
  <2>2. op \in [Writers -> OpType]
      BY DEF Init, NoCall, OpType
  <2>3. ops \in 0..MaxOps /\ faults \in 0..MaxFaults /\ restarts \in 0..MaxRestarts
      BY LimitAssumption DEF Init
  <2>4. df \in [Tokens -> Nat] /\ size \in Int
      BY DEF Init
  <2>5. /\ texts \subseteq Rows /\ inverted \subseteq Tokens \X Ids /\ want \subseteq Rows
        /\ spoiled \subseteq Ids /\ again \subseteq Ids /\ crossed \in BOOLEAN
        /\ pc \in [Writers -> {"idle", "stats", "docs", "postings", "delPostings",
                              "delDocs", "commit", "undo"}]
      BY DEF Init
  <2> QED BY <2>1, <2>2, <2>3, <2>4, <2>5 DEF TypeOK, OpType
<1>2. Indexed({}) = {} /\ IsFiniteSet({}) /\ Cardinality({}) = 0
    BY FS_EmptySet DEF Indexed
<1>3. /\ texts = {} /\ inverted = {} /\ txn.docs = {} /\ txn.postings = {} /\ txn.size = 0
      /\ disk = txn /\ size = 0 /\ want = {}
    BY DEF Init, Image
<1>4. Finite
    BY <1>2, <1>3 DEF Finite
<1>5. \A w \in Writers : ~Busy(w)
    BY DEF Init, Busy
<1>6. Calls /\ AtWork /\ Counted
    BY <1>2, <1>3, <1>5 DEF Calls, AtWork, Counted, Busy
<1>7. \A i : TextsOf({}, i) = {} /\ KeysOf({}, i) = {}
    BY DEF TextsOf, KeysOf
<1>8. \A i : Current({}, {}, i)
    BY <1>3, <1>7 DEF Current, Has
<1>9. AtRest /\ DiskBehind
    BY <1>3, <1>8 DEF AtRest, DiskBehind
<1>10. FrequencyExact
    BY <1>3 DEF FrequencyExact
<1> QED BY <1>1, <1>4, <1>6, <1>9, <1>10 DEF BmInv

\* Frequencies of finite postings are numbers.
LEMMA FrequencyNat == ASSUME NEW p, IsFiniteSet(p), NEW k PROVE Frequency(p, k) \in Nat
BY FS_Subset, FS_CardinalityType DEF Frequency

\* What an add leaves in memory.
LEMMA AddMemory ==
    ASSUME TypeOK, Finite, NEW w \in Writers, NEW b \in Batches, NEW t \in SUBSET Tokens, Add(w, b, t)
    PROVE  /\ texts' \in SUBSET Rows /\ inverted' \in SUBSET (Tokens \X Ids)
           /\ df' \in [Tokens -> Nat] /\ size' \in Int /\ want' = want
           /\ Indexed(texts') = Indexed(texts) \cup b
           /\ IsFiniteSet(Indexed(texts')) /\ IsFiniteSet(inverted')
           /\ size = Cardinality(Indexed(texts)) => size' = Cardinality(Indexed(texts'))
<1>1. /\ texts' = Without(texts, b) \cup (b \X {t}) /\ inverted' = Retracted(b) \cup (t \X b)
      /\ df' = [k \in Tokens |-> IF k \in t THEN Frequency(inverted', k) ELSE df[k]]
      /\ size' = size + Cardinality(b \ Indexed(texts)) /\ want' = want
    BY DEF Add, Posted, Grown
<1>2. /\ texts \in SUBSET Rows /\ inverted \in SUBSET (Tokens \X Ids)
      /\ df \in [Tokens -> Nat] /\ size \in Int
    BY DEF TypeOK
<1>3. b \subseteq Ids /\ IsFiniteSet(b)
    BY BatchIds
<1>4. texts' \in SUBSET Rows /\ inverted' \in SUBSET (Tokens \X Ids)
    BY <1>1, <1>2, <1>3 DEF Rows, Without, Retracted
<1>5. Indexed(texts') = Indexed(texts) \cup b
    BY <1>1, <1>2, IndexedAfter
<1>6. IsFiniteSet(Indexed(texts')) /\ IsFiniteSet(Indexed(texts))
    BY <1>3, <1>5, FS_Union DEF Finite
<1>7. IsFiniteSet(inverted')
  <2>1. IsFiniteSet(t)
      BY TokensAssumption, FS_Subset
  <2>2. IsFiniteSet(t \X b)
      BY <1>3, <2>1, FS_Product
  <2>3. IsFiniteSet(Retracted(b))
      BY FS_Subset DEF Finite, Retracted
  <2> QED BY <1>1, <2>2, <2>3, FS_Union
<1>8. df' \in [Tokens -> Nat]
    BY <1>1, <1>2, <1>7, FrequencyNat
<1>9. /\ Cardinality(b \ Indexed(texts)) \in Nat /\ Cardinality(Indexed(texts)) \in Nat
      /\ Cardinality(Indexed(texts')) = Cardinality(Indexed(texts)) + Cardinality(b \ Indexed(texts))
  <2>1. IsFiniteSet(b \ Indexed(texts)) /\ Indexed(texts) \cap (b \ Indexed(texts)) = {}
      BY <1>3, FS_Subset
  <2>2. Indexed(texts') = Indexed(texts) \cup (b \ Indexed(texts))
      BY <1>5
  <2>3. Cardinality(Indexed(texts) \cap (b \ Indexed(texts))) = 0
      BY <2>1, FS_EmptySet
  <2>4. Cardinality(Indexed(texts')) = Cardinality(Indexed(texts)) + Cardinality(b \ Indexed(texts))
                - Cardinality(Indexed(texts) \cap (b \ Indexed(texts)))
      BY <1>6, <2>1, <2>2, FS_Union
  <2>5. Cardinality(b \ Indexed(texts)) \in Nat /\ Cardinality(Indexed(texts)) \in Nat
      BY <1>6, <2>1, FS_CardinalityType
  <2> QED BY <2>3, <2>4, <2>5
<1>10. size' \in Int /\ (size = Cardinality(Indexed(texts)) => size' = Cardinality(Indexed(texts')))
  <2>1. size' = size + Cardinality(b \ Indexed(texts)) /\ size \in Int
      BY <1>1, <1>2
  <2> QED BY <1>9, <2>1
<1> QED BY <1>1, <1>4, <1>5, <1>6, <1>7, <1>8, <1>10

\* What a removal that finds something leaves in memory.
LEMMA RetractMemory ==
    ASSUME TypeOK, Finite, NEW w \in Writers, NEW b \in Batches, NEW kind, Retract(w, b, kind),
           b \cap Indexed(texts) # {}
    PROVE  /\ texts' \in SUBSET Rows /\ inverted' \in SUBSET (Tokens \X Ids)
           /\ df' \in [Tokens -> Nat] /\ size' \in Int /\ want' = want
           /\ Indexed(texts') = Indexed(texts) \ b
           /\ IsFiniteSet(Indexed(texts')) /\ IsFiniteSet(inverted')
           /\ size = Cardinality(Indexed(texts)) => size' = Cardinality(Indexed(texts'))
<1> DEFINE gone == b \cap Indexed(texts)
           leaving == Postings({r \in texts : r[1] \in b}) \cap inverted
<1>1. /\ texts' = Without(texts, b) /\ inverted' = inverted \ leaving
      /\ df' = Recounted(leaving) /\ size' = size - Cardinality(gone) /\ want' = want
    BY DEF Retract
<1>2. /\ texts \in SUBSET Rows /\ inverted \in SUBSET (Tokens \X Ids)
      /\ df \in [Tokens -> Nat] /\ size \in Int
    BY DEF TypeOK
<1>3. texts' \in SUBSET Rows /\ inverted' \in SUBSET (Tokens \X Ids)
    BY <1>1, <1>2 DEF Without
<1>4. Indexed(texts') = Indexed(texts) \ b
    BY <1>1, <1>2, IndexedAfter
<1>5. IsFiniteSet(Indexed(texts')) /\ IsFiniteSet(Indexed(texts)) /\ IsFiniteSet(inverted')
    BY <1>1, <1>4, FS_Subset DEF Finite
<1>6. df' \in [Tokens -> Nat]
  <2>1. \A k \in Tokens : Frequency(inverted \ leaving, k) \in Nat
      BY <1>1, <1>5, FrequencyNat
  <2> QED BY <1>1, <1>2, <2>1 DEF Recounted
<1>7. /\ Cardinality(gone) \in Nat /\ Cardinality(Indexed(texts)) \in Nat
      /\ Cardinality(Indexed(texts')) = Cardinality(Indexed(texts)) - Cardinality(gone)
  <2>1. Indexed(texts) \cap b = gone
      OBVIOUS
  <2>2. Cardinality(Indexed(texts')) = Cardinality(Indexed(texts)) - Cardinality(Indexed(texts) \cap b)
      BY <1>4, <1>5, BatchIds, FS_Difference
  <2>3. IsFiniteSet(gone)
      BY <1>5, FS_Subset
  <2>4. Cardinality(gone) \in Nat /\ Cardinality(Indexed(texts)) \in Nat
      BY <1>5, <2>3, FS_CardinalityType
  <2> QED BY <2>1, <2>2, <2>4
<1> QED BY <1>1, <1>2, <1>3, <1>4, <1>5, <1>6, <1>7

\* What a restart loads.
LEMMA RestartMemory ==
    ASSUME TypeOK, Finite, Restart
    PROVE  df' \in [Tokens -> Nat] /\ df' = [k \in Tokens |-> Frequency(inverted', k)]
BY FrequencyNat DEF Finite, Restart

LEMMA FiniteStep == TypeOK /\ Finite /\ Calls /\ [Next]_vars => Finite'
<1> SUFFICES ASSUME TypeOK, Finite, Calls, [Next]_vars PROVE Finite'
    OBVIOUS
<1>1. /\ IsFiniteSet(Indexed(texts)) /\ IsFiniteSet(inverted)
      /\ IsFiniteSet(Indexed(txn.docs)) /\ IsFiniteSet(txn.postings)
      /\ IsFiniteSet(Indexed(disk.docs)) /\ IsFiniteSet(disk.postings)
    BY DEF Finite
<1>2. txn \in Tables /\ disk \in Tables
    BY DEF TypeOK
<1>3. ASSUME UNCHANGED <<texts, inverted>>, txn' \in {txn, disk}, disk' \in {txn, disk} PROVE Finite'
    BY <1>1, <1>3 DEF Finite
<1>4. ASSUME NEW w \in Writers, NEW b \in Batches, NEW t \in SUBSET Tokens, Add(w, b, t) PROVE Finite'
    BY <1>1, <1>4, AddMemory DEF Finite, Add
<1>5. ASSUME NEW w \in Writers, NEW b \in Batches, NEW kind, Retract(w, b, kind), UNCHANGED disk
      PROVE Finite'
  <2>1. UNCHANGED txn
      BY <1>5 DEF Retract
  <2>2. CASE b \cap Indexed(texts) # {}
      BY <1>1, <1>5, <2>1, <2>2, RetractMemory DEF Finite
  <2>3. CASE b \cap Indexed(texts) = {}
    <3>1. UNCHANGED <<texts, inverted>>
        BY <1>5, <2>3 DEF Retract, memory
    <3> QED BY <1>3, <1>5, <2>1, <3>1
  <2> QED BY <2>2, <2>3
<1>6. ASSUME UNCHANGED <<memory, disk>>, IsFiniteSet(Indexed(txn'.docs)), IsFiniteSet(txn'.postings)
      PROVE Finite'
    BY <1>1, <1>6 DEF Finite, memory
<1>7. ASSUME NEW w \in Writers, NEW b \in Batches, Remove(w, b) PROVE Finite'
    BY <1>5, <1>7 DEF Remove, Retract, memory
<1>8. ASSUME NEW w \in Writers, Undo(w) PROVE Finite'
  <2>1. op[w].batch \in Batches
      BY <1>8 DEF Undo, Calls, Busy, Consistent
  <2> QED BY <1>5, <1>8, <2>1 DEF Undo, Retract, memory
<1>9. ASSUME NEW w \in Writers, WriteStats(w) PROVE Finite'
  <2>1. txn'.docs = txn.docs /\ txn'.postings = txn.postings /\ UNCHANGED <<memory, disk>>
      BY <1>2, <1>9 DEF WriteStats, Run, Tables
  <2> QED BY <1>1, <1>6, <2>1
<1>10. ASSUME NEW w \in Writers, WriteDoc(w) PROVE Finite'
  <2>1. PICK i : /\ txn' = [txn EXCEPT !.docs = Without(txn.docs, {i}) \cup {<<i, op[w].text>>}]
                 /\ UNCHANGED <<memory, disk>>
      BY <1>10 DEF WriteDoc, Run
  <2>2. /\ txn'.docs = Without(txn.docs, {i}) \cup ({i} \X {op[w].text})
        /\ txn'.postings = txn.postings
      BY <1>2, <2>1 DEF Tables
  <2>3. Indexed(txn'.docs) = Indexed(txn.docs) \cup {i}
    <3>1. txn.docs \in SUBSET Rows
        BY <1>2 DEF Tables
    <3>2. Indexed(Without(txn.docs, {i}) \cup ({i} \X {op[w].text})) = Indexed(txn.docs) \cup {i}
        BY <3>1, IndexedAfter
    <3> QED BY <2>2, <3>2
  <2>4. IsFiniteSet(Indexed(txn'.docs))
      BY <1>1, <2>3, FS_AddElement
  <2> QED BY <1>1, <1>6, <2>1, <2>2, <2>4
<1>11. ASSUME NEW w \in Writers, WritePostings(w) PROVE Finite'
  <2>1. /\ txn'.docs = txn.docs /\ txn'.postings = txn.postings \cup (op[w].text \X op[w].batch)
        /\ UNCHANGED <<memory, disk>>
      BY <1>2, <1>11 DEF WritePostings, Run, Tables, Posted
  <2>2. op[w].text \in SUBSET Tokens /\ op[w].batch \in Batches
      BY <1>11 DEF WritePostings, Run, TypeOK, Calls, Busy, Consistent
  <2>3. IsFiniteSet(op[w].text) /\ IsFiniteSet(op[w].batch)
      BY <2>2, TokensAssumption, FS_Subset, BatchIds
  <2>4. IsFiniteSet(txn'.postings)
    <3>1. IsFiniteSet(op[w].text \X op[w].batch)
        BY <2>3, FS_Product
    <3>2. IsFiniteSet(txn.postings \cup (op[w].text \X op[w].batch))
        BY <1>1, <3>1, FS_Union
    <3> QED BY <2>1, <3>2
  <2> QED BY <1>1, <1>6, <2>1, <2>4
<1>12. ASSUME NEW w \in Writers, DeletePostings(w) \/ DeleteDocs(w) PROVE Finite'
  <2>1. /\ \/ txn' = [txn EXCEPT !.postings = WithoutPostings(op[w].gone)]
           \/ txn' = [txn EXCEPT !.docs = Without(txn.docs, op[w].gone)]
        /\ UNCHANGED <<memory, disk>>
      BY <1>12 DEF DeletePostings, DeleteDocs, Run
  <2>2. /\ txn'.docs \in {txn.docs, Without(txn.docs, op[w].gone)}
        /\ txn'.postings \in {txn.postings, WithoutPostings(op[w].gone)}
      BY <1>2, <2>1 DEF Tables
  <2>3. txn'.postings \subseteq txn.postings /\ Indexed(txn'.docs) \subseteq Indexed(txn.docs)
      BY <2>2 DEF WithoutPostings, Without, Indexed
  <2> QED BY <1>1, <1>6, <2>1, <2>3, FS_Subset
<1>13. ASSUME NEW w \in Writers, UndoFails(w) \/ Commit(w) \/ Fails(w) PROVE Finite'
    BY <1>3, <1>13 DEF UndoFails, Commit, Fails, memory
<1>14. CASE Restart
    BY <1>1, <1>14 DEF Restart, Finite
<1>15. CASE UNCHANGED vars
    BY <1>3, <1>15 DEF vars
<1> QED BY <1>4, <1>7, <1>8, <1>9, <1>10, <1>11, <1>12, <1>13, <1>14, <1>15 DEF Next, Waiting

Places == {"idle", "stats", "docs", "postings", "delPostings", "delDocs", "commit", "undo"}

\* The part of the type invariant that is not about memory.
CallTypes ==
    /\ txn \in Tables /\ disk \in Tables
    /\ pc \in [Writers -> Places] /\ op \in [Writers -> OpType]
    /\ ops \in 0..MaxOps /\ faults \in 0..MaxFaults /\ restarts \in 0..MaxRestarts
    /\ want \subseteq Rows /\ spoiled \subseteq Ids /\ again \subseteq Ids
    /\ crossed \in BOOLEAN
MemoryTypes ==
    /\ texts \subseteq Rows /\ inverted \subseteq Tokens \X Ids
    /\ df \in [Tokens -> Nat] /\ size \in Int

LEMMA Types == TypeOK <=> CallTypes /\ MemoryTypes
BY DEF TypeOK, CallTypes, MemoryTypes, Places, OpType

LEMMA MemoryStep == TypeOK /\ Finite /\ Calls /\ [Next]_vars => MemoryTypes'
<1> SUFFICES ASSUME TypeOK, Finite, Calls, [Next]_vars PROVE MemoryTypes'
    OBVIOUS
<1>1. ASSUME UNCHANGED memory PROVE MemoryTypes'
    BY <1>1, Types DEF MemoryTypes, memory
<1>2. ASSUME NEW w \in Writers, NEW b \in Batches, NEW t \in SUBSET Tokens, Add(w, b, t)
      PROVE  MemoryTypes'
    BY <1>2, AddMemory DEF MemoryTypes
<1>3. ASSUME NEW w \in Writers, NEW b \in Batches, NEW kind, Retract(w, b, kind) PROVE MemoryTypes'
  <2>1. CASE b \cap Indexed(texts) # {}
      BY <1>3, <2>1, RetractMemory DEF MemoryTypes
  <2>2. CASE b \cap Indexed(texts) = {}
      BY <1>1, <1>3, <2>2 DEF Retract
  <2> QED BY <2>1, <2>2
<1>4. ASSUME NEW w \in Writers, Undo(w) PROVE MemoryTypes'
  <2>1. op[w].batch \in Batches
      BY <1>4 DEF Undo, Calls, Busy, Consistent
  <2> QED BY <1>3, <1>4, <2>1 DEF Undo
<1>5. CASE Restart
  <2>1. texts' \subseteq Rows /\ inverted' \subseteq Tokens \X Ids /\ size' \in Int
      BY <1>5, Types DEF Restart, CallTypes, Tables
  <2> QED BY <1>5, <2>1, RestartMemory DEF MemoryTypes
<1>6. CASE UNCHANGED vars
    BY <1>1, <1>6 DEF vars, memory
<1>7. ASSUME NEW w \in Writers,
             \/ UndoFails(w) \/ WriteStats(w) \/ WriteDoc(w) \/ WritePostings(w)
             \/ DeletePostings(w) \/ DeleteDocs(w) \/ Commit(w) \/ Fails(w)
      PROVE  MemoryTypes'
  <2>1. UNCHANGED memory
      BY <1>7 DEF UndoFails, WriteStats, WriteDoc, WritePostings, DeletePostings, DeleteDocs,
         Commit, Fails, Run
  <2> QED BY <1>1, <2>1
<1> QED BY <1>2, <1>3, <1>4, <1>5, <1>6, <1>7 DEF Next, Waiting, Remove

LEMMA CallTypesStep == TypeOK /\ Finite /\ Calls /\ [Next]_vars => CallTypes'
<1> SUFFICES ASSUME TypeOK, Finite, Calls, [Next]_vars PROVE CallTypes'
    OBVIOUS
<1>1. CallTypes
    BY Types
<1>2. /\ MaxOps \in Nat /\ MaxFaults \in Nat /\ MaxRestarts \in Nat /\ NoCall \in OpType
      /\ size \in Int /\ size' \in Int
    BY LimitAssumption, MemoryStep DEF NoCall, OpType, MemoryTypes, TypeOK
<1>3. ASSUME NEW w \in Writers, Busy(w)
      PROVE  /\ op[w] \in OpType /\ op[w].batch \in Batches
             /\ op[w].batch \subseteq Ids /\ op[w].batch \X {op[w].text} \subseteq Rows
  <2>1. op[w] \in OpType /\ op[w].batch \in Batches
      BY <1>1, <1>3 DEF CallTypes, Calls, Consistent
  <2>2. op[w].batch \subseteq Ids /\ op[w].text \in SUBSET Tokens
      BY <2>1, BatchIds DEF OpType
  <2> QED BY <2>1, <2>2 DEF Rows
<1>4. UNION {op[w].batch : w \in Writers} \subseteq Ids
  <2>1. \A w \in Writers : op[w].batch \subseteq Ids
      BY <1>1, BatchIds DEF CallTypes, OpType
  <2> QED BY <2>1
<1>5. ASSUME NEW w \in Writers, NEW b \in Batches, NEW t \in SUBSET Tokens, Add(w, b, t)
      PROVE  CallTypes'
  <2>1. b \subseteq Ids
      BY BatchIds
  <2>2. [kind |-> "add", batch |-> b, text |-> t, gone |-> {}, stats |-> size', todo |-> b] \in OpType
      BY <1>2, <2>1 DEF OpType
  <2>3. op' \in [Writers -> OpType] /\ pc' \in [Writers -> Places]
      BY <1>1, <1>5, <2>2 DEF Add, CallTypes, Places
  <2>4. ops' \in 0..MaxOps /\ crossed' \in BOOLEAN
      BY <1>1, <1>2, <1>5 DEF Add, Call, CallTypes
  <2>5. again' \subseteq Ids
      BY <1>1, <1>5, <2>1 DEF Add, CallTypes
  <2> QED BY <1>1, <1>5, <2>3, <2>4, <2>5 DEF Add, CallTypes
<1>6. ASSUME NEW w \in Writers, NEW b \in Batches, NEW kind \in {"remove", "undo"},
             Retract(w, b, kind)
      PROVE  /\ op' \in [Writers -> OpType] /\ pc' \in [Writers -> Places]
             /\ want' \subseteq Rows /\ UNCHANGED <<txn, spoiled>>
  <2>1. b \subseteq Ids
      BY BatchIds
  <2>2. CASE b \cap Indexed(texts) # {}
    <3>1. [kind |-> kind, batch |-> b, text |-> {}, gone |-> b \cap Indexed(texts),
           stats |-> size', todo |-> {}] \in OpType
        BY <1>2, <2>1 DEF OpType
    <3> QED BY <1>1, <1>6, <2>2, <3>1 DEF Retract, CallTypes, Places
  <2>3. CASE b \cap Indexed(texts) = {}
      BY <1>1, <1>2, <1>6, <2>3 DEF Retract, CallTypes, Places, Promise, Without
  <2> QED BY <2>2, <2>3
<1>7. ASSUME NEW w \in Writers, NEW b \in Batches, Remove(w, b) PROVE CallTypes'
  <2>1. ops' \in 0..MaxOps /\ crossed' \in BOOLEAN
      BY <1>1, <1>2, <1>7 DEF Remove, Call, CallTypes
  <2>2. UNCHANGED disk
      BY <1>7 DEF Remove, Retract
  <2> QED BY <1>1, <1>6, <1>7, <2>1, <2>2 DEF Remove, CallTypes
<1>8. ASSUME NEW w \in Writers, Undo(w) PROVE CallTypes'
  <2>1. op[w].batch \in Batches /\ UNCHANGED disk
      BY <1>3, <1>8 DEF Undo, Busy, Retract
  <2> QED BY <1>1, <1>6, <1>8, <2>1 DEF Undo, CallTypes, bounds
<1>9. ASSUME NEW w \in Writers, UndoFails(w) PROVE CallTypes'
  <2>1. op[w].batch \subseteq Ids
      BY <1>3, <1>9 DEF UndoFails, Busy
  <2>2. faults' \in 0..MaxFaults
      BY <1>1, <1>2, <1>9 DEF UndoFails, CallTypes
  <2>3. op' \in [Writers -> OpType] /\ pc' \in [Writers -> Places]
      BY <1>1, <1>2, <1>9 DEF UndoFails, CallTypes, Places
  <2> QED BY <1>1, <1>9, <2>1, <2>2, <2>3 DEF UndoFails, CallTypes
<1>10. ASSUME NEW w \in Writers, NEW at, NEW then \in Places, NEW image \in Tables,
              Run(w, at, then, image), op' \in [Writers -> OpType]
       PROVE  CallTypes'
  <2>1. pc' \in [Writers -> Places]
      BY <1>1, <1>10 DEF Run, CallTypes
  <2> QED BY <1>1, <1>10, <2>1 DEF Run, CallTypes, bounds
<1>11. ASSUME NEW w \in Writers, WriteStats(w) PROVE CallTypes'
  <2>1. [txn EXCEPT !.size = op[w].stats] \in Tables
      BY <1>1 DEF CallTypes, Tables, OpType
  <2>2. op' \in [Writers -> OpType]
      BY <1>1, <1>11 DEF WriteStats, CallTypes
  <2> QED BY <1>10, <1>11, <2>1, <2>2 DEF WriteStats, Places
<1>12. ASSUME NEW w \in Writers, WriteDoc(w) PROVE CallTypes'
  <2>1. PICK i \in op[w].todo :
           /\ op' = [op EXCEPT ![w].todo = op[w].todo \ {i}]
           /\ Run(w, "docs", IF op[w].todo = {i} THEN "postings" ELSE "docs",
                  [txn EXCEPT !.docs = Without(txn.docs, {i}) \cup {<<i, op[w].text>>}])
      BY <1>12 DEF WriteDoc
  <2>2. op[w] \in OpType /\ i \in Ids
      BY <1>1, <2>1 DEF CallTypes, OpType
  <2>3. Without(txn.docs, {i}) \cup {<<i, op[w].text>>} \subseteq Rows
      BY <1>1, <2>2 DEF CallTypes, Tables, OpType, Rows, Without
  <2>4. [txn EXCEPT !.docs = Without(txn.docs, {i}) \cup {<<i, op[w].text>>}] \in Tables
      BY <1>1, <2>3 DEF CallTypes, Tables
  <2>5. op' \in [Writers -> OpType]
      BY <1>1, <2>1 DEF CallTypes, OpType
  <2> QED BY <1>10, <2>1, <2>4, <2>5 DEF Places
<1>13. ASSUME NEW w \in Writers, WritePostings(w) PROVE CallTypes'
  <2>1. op[w].text \X op[w].batch \subseteq Tokens \X Ids
      BY <1>3, <1>13 DEF WritePostings, Run, Busy, OpType
  <2>2. [txn EXCEPT !.postings = txn.postings \cup Posted(op[w].text, op[w].batch)] \in Tables
      BY <1>1, <2>1 DEF CallTypes, Tables, Posted
  <2>3. op' \in [Writers -> OpType]
      BY <1>1, <1>13 DEF WritePostings, CallTypes
  <2> QED BY <1>10, <1>13, <2>2, <2>3 DEF WritePostings, Places
<1>14. ASSUME NEW w \in Writers, DeletePostings(w) \/ DeleteDocs(w) PROVE CallTypes'
  <2>1. /\ [txn EXCEPT !.postings = WithoutPostings(op[w].gone)] \in Tables
        /\ [txn EXCEPT !.docs = Without(txn.docs, op[w].gone)] \in Tables
      BY <1>1 DEF CallTypes, Tables, WithoutPostings, Without
  <2>2. op' \in [Writers -> OpType]
      BY <1>1, <1>14 DEF DeletePostings, DeleteDocs, CallTypes
  <2> QED BY <1>10, <1>14, <2>1, <2>2 DEF DeletePostings, DeleteDocs, Places
<1>15. ASSUME NEW w \in Writers, Commit(w) PROVE CallTypes'
  <2>1. op[w].batch \X {op[w].text} \subseteq Rows
      BY <1>3, <1>15 DEF Commit, Busy
  <2>2. want' \subseteq Rows
      BY <1>1, <1>15, <2>1 DEF Commit, Promise, Without, CallTypes
  <2>3. op' \in [Writers -> OpType] /\ pc' \in [Writers -> Places]
      BY <1>1, <1>2, <1>15 DEF Commit, CallTypes, Places
  <2> QED BY <1>1, <1>15, <2>2, <2>3 DEF Commit, CallTypes, bounds
<1>16. ASSUME NEW w \in Writers, Fails(w) PROVE CallTypes'
  <2>1. spoiled' \subseteq Ids
    <3>1. op[w].batch \subseteq Ids /\ UNION {op[v].batch : v \in Others(w)} \subseteq Ids
        BY <1>3, <1>4, <1>16 DEF Fails, Busy, Others
    <3> QED BY <1>1, <1>16, <3>1 DEF Fails, CallTypes
  <2>2. faults' \in 0..MaxFaults
      BY <1>1, <1>2, <1>16 DEF Fails, CallTypes
  <2>3. op' \in [Writers -> OpType]
      BY <1>1, <1>2, <1>16 DEF Fails, CallTypes
  <2>4. pc' \in [Writers -> Places]
      BY <1>1, <1>16 DEF Fails, CallTypes, AfterFailure, Places
  <2>5. txn' \in Tables
      BY <1>1, <1>16 DEF Fails, CallTypes
  <2> QED BY <1>1, <1>16, <2>1, <2>2, <2>3, <2>4, <2>5 DEF Fails, CallTypes
<1>17. CASE Restart
  <2>1. restarts' \in 0..MaxRestarts
      BY <1>1, <1>2, <1>17 DEF Restart, CallTypes
  <2>2. spoiled' \subseteq Ids
      BY <1>1, <1>4, <1>17 DEF Restart, CallTypes
  <2>3. op' \in [Writers -> OpType] /\ pc' \in [Writers -> Places]
      BY <1>2, <1>17 DEF Restart, Places
  <2> QED BY <1>1, <1>17, <2>1, <2>2, <2>3 DEF Restart, CallTypes
<1>18. CASE UNCHANGED vars
    BY <1>1, <1>18 DEF vars, CallTypes
<1> QED BY <1>5, <1>7, <1>8, <1>9, <1>11, <1>12, <1>13, <1>14, <1>15, <1>16, <1>17, <1>18
    DEF Next, Waiting

LEMMA TypeStep == TypeOK /\ Finite /\ Calls /\ [Next]_vars => TypeOK'
<1> SUFFICES ASSUME TypeOK, Finite, Calls, [Next]_vars PROVE TypeOK'
    OBVIOUS
<1>1. CallTypes' /\ MemoryTypes'
    BY CallTypesStep, MemoryStep
<1> QED BY <1>1 DEF TypeOK, CallTypes, MemoryTypes, Places, OpType

\* The frequencies follow the postings that a call adds and takes away.
LEMMA FrequencyStep == TypeOK /\ FrequencyExact /\ [Next]_vars => FrequencyExact'
<1> SUFFICES ASSUME TypeOK, FrequencyExact, [Next]_vars, again' = {}, NEW p \in inverted'
             PROVE  df'[p[1]] = Frequency(inverted', p[1])
    BY DEF FrequencyExact, Frequency
<1>1. /\ inverted \in SUBSET (Tokens \X Ids) /\ df \in [Tokens -> Nat] /\ texts \in SUBSET Rows
      /\ txn \in Tables /\ disk \in Tables
    BY DEF TypeOK
<1>2. again = {} => \A q \in inverted : q[1] \in Tokens /\ df[q[1]] = Frequency(inverted, q[1])
    BY <1>1 DEF FrequencyExact
<1>3. ASSUME UNCHANGED <<memory, again>> PROVE df'[p[1]] = Frequency(inverted', p[1])
    BY <1>2, <1>3 DEF memory
<1>4. ASSUME NEW w \in Writers, NEW b \in Batches, NEW t \in SUBSET Tokens, Add(w, b, t)
      PROVE  df'[p[1]] = Frequency(inverted', p[1])
  <2>1. again = {} /\ b \cap Indexed(texts) = {}
      BY <1>4 DEF Add
  <2>2. {r \in texts : r[1] \in b} = {}
      BY <2>1 DEF Indexed
  <2>3. Retracted(b) = inverted
      BY <2>2 DEF Retracted, Postings
  <2>4. /\ inverted' = inverted \cup (t \X b)
        /\ df' = [k \in Tokens |-> IF k \in t THEN Frequency(inverted', k) ELSE df[k]]
      BY <1>4, <2>3 DEF Add, Posted
  <2>5. CASE p[1] \in t
      BY <2>4, <2>5
  <2>6. CASE p[1] \notin t
    <3>1. p \in inverted
        BY <2>4, <2>6
    <3>2. {q \in inverted' : q[1] = p[1]} = {q \in inverted : q[1] = p[1]}
        BY <2>4, <2>6
    <3>3. df'[p[1]] = df[p[1]] /\ df[p[1]] = Frequency(inverted, p[1])
        BY <1>2, <2>1, <2>4, <2>6, <3>1
    <3> QED BY <3>2, <3>3 DEF Frequency
  <2> QED BY <2>5, <2>6
<1>5. ASSUME NEW w, NEW b, NEW kind, Retract(w, b, kind), UNCHANGED again
      PROVE  df'[p[1]] = Frequency(inverted', p[1])
  <2> DEFINE leaving == Postings({r \in texts : r[1] \in b}) \cap inverted
  <2>1. CASE b \cap Indexed(texts) = {}
      BY <1>3, <1>5, <2>1 DEF Retract
  <2>2. CASE b \cap Indexed(texts) # {}
    <3>1. inverted' = inverted \ leaving /\ df' = Recounted(leaving)
        BY <1>5, <2>2 DEF Retract
    <3>2. leaving \subseteq inverted
        OBVIOUS
    <3> HIDE DEF leaving
    <3>3. p \in inverted /\ p[1] \in Tokens
        BY <1>1, <3>1
    <3>4. df' = [k \in Tokens |-> IF \E q \in leaving : q[1] = k THEN Frequency(inverted \ leaving, k) ELSE df[k]]
        BY <3>1 DEF Recounted
    <3>5. CASE \E q \in leaving : q[1] = p[1]
        BY <3>1, <3>3, <3>4, <3>5
    <3>6. CASE ~ \E q \in leaving : q[1] = p[1]
      <4>1. {q \in inverted' : q[1] = p[1]} = {q \in inverted : q[1] = p[1]}
          BY <3>1, <3>6
      <4>2. df'[p[1]] = df[p[1]] /\ df[p[1]] = Frequency(inverted, p[1])
          BY <1>2, <1>5, <3>3, <3>4, <3>6
      <4> QED BY <4>1, <4>2 DEF Frequency
    <3> QED BY <3>5, <3>6
  <2> QED BY <2>1, <2>2
<1>6. CASE Restart
  <2>1. /\ inverted' = disk.postings /\ df' = [k \in Tokens |-> Frequency(disk.postings, k)]
        /\ p[1] \in Tokens
      BY <1>1, <1>6 DEF Restart, Tables
  <2> QED BY <2>1
<1>7. ASSUME NEW w \in Writers,
             \/ UndoFails(w) \/ WriteStats(w) \/ WriteDoc(w) \/ WritePostings(w)
             \/ DeletePostings(w) \/ DeleteDocs(w) \/ Commit(w) \/ Fails(w)
      PROVE  df'[p[1]] = Frequency(inverted', p[1])
  <2>1. UNCHANGED <<memory, again>>
      BY <1>7 DEF UndoFails, WriteStats, WriteDoc, WritePostings, DeletePostings, DeleteDocs,
         Commit, Fails, Run
  <2> QED BY <1>3, <2>1
<1>8. CASE UNCHANGED vars
    BY <1>3, <1>8 DEF vars, memory
<1> QED BY <1>4, <1>5, <1>6, <1>7, <1>8 DEF Next, Waiting, Remove, Undo

-----------------------------------------------------------------------------
(* What a step of one thread leaves to the others.                         *)

\* A thread w is at work on the document b, or begins to be.
Owns(w, b) == \/ Busy(w) /\ op[w].batch = b
              \/ ~Busy(w) /\ \A v \in Others(w) : op[v].batch # b

\* Only w goes on; it stays with b or ends its call.
OnlyOf(w, b) == /\ \A v \in Writers \ {w} : pc'[v] = pc[v] /\ op'[v] = op[v]
                /\ pc'[w] # "idle" => op'[w].batch = b
                /\ crossed' \in BOOLEAN /\ (crossed => crossed') /\ (~crossed' => Others(w) = {})

LEMMA CallsFrame ==
    ASSUME TypeOK, Calls, NEW w \in Writers, NEW b \in Batches, Owns(w, b), OnlyOf(w, b),
           \A i \in Ids \ b : i \in Indexed(texts) => i \in Indexed(texts'),
           Busy(w)' => Consistent(w)'
    PROVE  Calls'
<1>1. ASSUME NEW v \in Writers, Busy(v)' PROVE Consistent(v)'
  <2>1. CASE v = w
      BY <1>1, <2>1
  <2>2. CASE v # w
    <3>1. Busy(v) /\ Consistent(v) /\ pc'[v] = pc[v] /\ op'[v] = op[v] /\ op[v].batch # b
        BY <1>1, <2>2 DEF OnlyOf, Calls, Owns, Others, Busy
    <3>2. op[v].batch \in Batches /\ op[v].batch \subseteq Ids /\ op[v].batch \cap b = {}
        BY <3>1, BatchIds, Apart DEF Consistent
    <3>3. op[v].batch \subseteq Indexed(texts) => op[v].batch \subseteq Indexed(texts')
        BY <3>2
    <3> QED BY <3>1, <3>3 DEF Consistent
  <2> QED BY <2>1, <2>2
<1>2. ASSUME NEW u \in Writers, NEW v \in Writers, Busy(u)', Busy(v)', u # v
      PROVE  op'[u].batch # op'[v].batch /\ crossed'
  <2>1. CASE u # w /\ v # w
      BY <1>2, <2>1 DEF OnlyOf, Calls, Busy
  <2>2. CASE u = w \/ v = w
    <3>1. \A x \in Writers \ {w} : Busy(x)' => x \in Others(w) /\ op[x].batch # b /\ op'[x] = op[x]
        BY DEF OnlyOf, Owns, Calls, Others, Busy
    <3> QED BY <1>2, <2>2, <3>1 DEF OnlyOf, Busy
  <2> QED BY <2>1, <2>2
<1> QED BY <1>1, <1>2 DEF Calls

\* Where the step is not at work, nothing changes but the promise to roll back.
Elsewhere(b) == \A i \in Ids \ b :
    /\ TextsOf(texts', i) = TextsOf(texts, i) /\ KeysOf(inverted', i) = KeysOf(inverted, i)
    /\ TextsOf(want', i) = TextsOf(want, i) /\ (i \in again' => i \in again)
    /\ i \in again => i \in again'
TxnElsewhere(b) == \A i \in Ids \ b : /\ TextsOf(txn'.docs, i) = TextsOf(txn.docs, i)
                                      /\ KeysOf(txn'.postings, i) = KeysOf(txn.postings, i)
RolledBack(w) == txn' = disk /\ \A v \in Others(w) : op[v].batch \subseteq spoiled'

LEMMA ChunksFrame ==
    ASSUME TypeOK, Calls, AtRest, DiskBehind, AtWork,
           NEW w \in Writers, NEW b \in Batches, Owns(w, b), OnlyOf(w, b),
           Elsewhere(b), TxnElsewhere(b) \/ RolledBack(w), disk' \in {disk, txn},
           disk' = txn => TxnElsewhere(b),
           spoiled \subseteq spoiled',
           \A i \in b \ spoiled' :
               IF Busy(w)' THEN Working(w, i)'
               ELSE /\ Current(texts, inverted, i)' /\ Current(txn.docs, txn.postings, i)'
                    /\ Current(disk.docs, disk.postings, i)',
           ~crossed' => \A i \in b \ spoiled' : Current(disk.docs, disk.postings, i)'
    PROVE  AtRest' /\ DiskBehind' /\ AtWork'
<1>1. ASSUME NEW v \in Writers \ {w}, Busy(v)'
      PROVE  /\ Busy(v) /\ pc'[v] = pc[v] /\ op'[v] = op[v] /\ op[v].batch # b
             /\ op[v].batch \in Batches /\ op[v].batch \subseteq Ids /\ op[v].batch \cap b = {}
             /\ v \in Others(w)
  <2>1. Busy(v) /\ pc'[v] = pc[v] /\ op'[v] = op[v] /\ v \in Others(w)
      BY <1>1 DEF OnlyOf, Busy, Others
  <2>2. op[v].batch # b /\ op[v].batch \in Batches
      BY <2>1 DEF Owns, Calls, Consistent, Busy
  <2> QED BY <2>1, <2>2, BatchIds, Apart
<1>2. b \subseteq Ids
    BY BatchIds
<1>3. \A v \in Writers \ {w} : Busy(v) => Busy(v)' /\ op'[v] = op[v]
    BY DEF OnlyOf, Busy
<1>4. ASSUME NEW v \in Writers, Busy(v)', NEW i \in op'[v].batch \ spoiled' PROVE Working(v, i)'
  <2>1. CASE v = w
      BY <1>4, <2>1 DEF OnlyOf, Busy
  <2>2. CASE v # w
    <3>1. Working(v, i) /\ i \in Ids \ b
        BY <1>1, <1>4, <2>2 DEF AtWork
    <3>2. TxnElsewhere(b)
        BY <1>1, <1>4, <2>2 DEF RolledBack
    <3>3. /\ Aim(v)' = Aim(v) /\ DocDone(v, i)' = DocDone(v, i)
          /\ PostingsDone(v, i)' = PostingsDone(v, i) /\ Unposted(v)' = Unposted(v)
        BY <1>1, <1>4, <2>2 DEF Aim, DocDone, PostingsDone, Unposted
    <3> QED BY <3>1, <3>2, <3>3 DEF Elsewhere, TxnElsewhere, Working, Has
  <2> QED BY <2>1, <2>2
<1>5. ASSUME NEW i \in Ids \ b, i \notin spoiled', Resting(i)'
      PROVE  Resting(i)
  <2>1. Busy(w) => i \notin op[w].batch
      BY <1>5 DEF Owns
  <2> QED BY <1>3, <1>5, <2>1 DEF Resting
<1>6. ASSUME NEW i \in Ids \ b, i \notin spoiled', Resting(i)
      PROVE  /\ Current(texts, inverted, i)' /\ Current(txn.docs, txn.postings, i)'
             /\ Current(disk.docs, disk.postings, i)'
  <2>1. /\ Current(texts, inverted, i) /\ Current(txn.docs, txn.postings, i)
        /\ Current(disk.docs, disk.postings, i)
      BY <1>6 DEF AtRest
  <2>2. /\ TextsOf(texts', i) = TextsOf(texts, i) /\ KeysOf(inverted', i) = KeysOf(inverted, i)
        /\ TextsOf(want', i) = TextsOf(want, i) /\ (i \in again' <=> i \in again)
      BY DEF Elsewhere
  <2>3. Current(texts, inverted, i)'
      BY <2>1, <2>2 DEF Current, Has
  <2>4. Current(txn.docs, txn.postings, i)'
    <3>1. CASE TxnElsewhere(b)
        BY <2>1, <2>2, <3>1 DEF Current, Has, TxnElsewhere
    <3>2. CASE txn' = disk
        BY <2>1, <2>2, <3>2 DEF Current, Has
    <3> QED BY <3>1, <3>2 DEF RolledBack
  <2>5. Current(disk.docs, disk.postings, i)'
    <3>1. CASE disk' = disk
        BY <2>1, <2>2, <3>1 DEF Current, Has
    <3>2. CASE disk' = txn
        BY <2>1, <2>2, <3>2 DEF Current, Has
    <3> QED BY <3>1, <3>2
  <2> QED BY <2>3, <2>4, <2>5
<1>7. AtRest'
  <2> SUFFICES ASSUME NEW i \in Ids, i \notin spoiled', Resting(i)'
               PROVE  /\ Current(texts, inverted, i)' /\ Current(txn.docs, txn.postings, i)'
                      /\ Current(disk.docs, disk.postings, i)'
      BY DEF AtRest
  <2>1. CASE i \in b
    <3>1. ~ Busy(w)'
        BY <2>1 DEF Resting, OnlyOf, Busy
    <3> QED BY <2>1, <3>1
  <2>2. CASE i \notin b
      BY <2>2, <1>5, <1>6
  <2> QED BY <2>1, <2>2
<1>8. DiskBehind'
  <2> SUFFICES ASSUME ~crossed', NEW i \in Ids, i \notin spoiled', i \notin b
               PROVE  Current(disk.docs, disk.postings, i)'
      BY DEF DiskBehind
  <2>1. Others(w) = {}
      BY DEF OnlyOf
  <2>2. Resting(i)
      BY <2>1 DEF Resting, Owns, Others, Busy
  <2> QED BY <1>6, <2>2
<1>9. AtWork'
    BY <1>4 DEF AtWork
<1> QED BY <1>7, <1>8, <1>9

-----------------------------------------------------------------------------
(* The calls, step by step.                                                *)

Core == Calls /\ AtRest /\ DiskBehind /\ AtWork

\* The chunks of a document that nobody works on are at rest.
LEMMA Unclaimed ==
    ASSUME Core, NEW w \in Writers, NEW b \in Batches, Owns(w, b), ~Busy(w), NEW i \in b \ spoiled
    PROVE  /\ Current(texts, inverted, i) /\ Current(txn.docs, txn.postings, i)
           /\ Current(disk.docs, disk.postings, i)
<1>1. \A v \in Writers : Busy(v) => op[v].batch \in Batches /\ op[v].batch # b
    BY DEF Core, Calls, Consistent, Owns, Others, Busy
<1>2. Resting(i)
    BY <1>1, Apart DEF Resting
<1> QED BY <1>2, BatchIds DEF Core, AtRest

LEMMA AddStep ==
    ASSUME TypeOK, Finite, Core, NEW w \in Writers, NEW b \in Batches, NEW t \in SUBSET Tokens,
           Add(w, b, t)
    PROVE  Core'
<1> DEFINE call == [kind |-> "add", batch |-> b, text |-> t, gone |-> {}, stats |-> size', todo |-> b]
<1>1. /\ Call(w, b) /\ again' = again \cup (b \cap Indexed(texts))
      /\ texts' = Without(texts, b) \cup (b \X {t}) /\ inverted' = Retracted(b) \cup (t \X b)
      /\ op' = [op EXCEPT ![w] = call] /\ pc' = [pc EXCEPT ![w] = "stats"]
      /\ UNCHANGED <<txn, disk, want, spoiled>>
    BY DEF Add, Posted
<1>2. /\ op \in [Writers -> OpType] /\ pc \in [Writers -> Places] /\ crossed \in BOOLEAN
      /\ texts \in SUBSET Rows /\ inverted \in SUBSET (Tokens \X Ids) /\ want \in SUBSET Rows
    BY Types DEF CallTypes, MemoryTypes
<1>3. /\ op'[w].kind = "add" /\ op'[w].batch = b /\ op'[w].text = t /\ op'[w].gone = {}
      /\ op'[w].todo = b /\ pc'[w] = "stats" /\ Busy(w)'
      /\ \A v \in Writers \ {w} : pc'[v] = pc[v] /\ op'[v] = op[v]
    BY <1>1, <1>2 DEF Busy
<1>4. Owns(w, b) /\ ~Busy(w) /\ OnlyOf(w, b)
    BY <1>1, <1>2, <1>3 DEF Call, Owns, OnlyOf, Busy
<1>5. \A i : /\ TextsOf(texts', i) = IF i \in b THEN {t} ELSE TextsOf(texts, i)
             /\ KeysOf(inverted', i) = IF i \in b THEN (KeysOf(inverted, i) \ UNION TextsOf(texts, i)) \cup t
                                                  ELSE KeysOf(inverted, i)
  <2> SUFFICES ASSUME NEW i
               PROVE  /\ TextsOf(texts', i) = IF i \in b THEN {t} ELSE TextsOf(texts, i)
                      /\ KeysOf(inverted', i) = IF i \in b
                            THEN (KeysOf(inverted, i) \ UNION TextsOf(texts, i)) \cup t
                            ELSE KeysOf(inverted, i)
      OBVIOUS
  <2> DEFINE prior == Old(texts, b)
  <2>1. KeysOf(prior, i) = IF i \in b THEN UNION TextsOf(texts, i) ELSE {}
      BY <1>2, KeysPosted
  <2>2. inverted' = (inverted \ prior) \cup (t \X b)
      BY <1>1 DEF Retracted, Old
  <2> HIDE DEF prior
  <2>3. KeysOf(inverted \ prior, i) = KeysOf(inverted, i) \ KeysOf(prior, i)
      BY DEF KeysOf
  <2>4. KeysOf(inverted', i) = IF i \in b THEN KeysOf(inverted \ prior, i) \cup t
                               ELSE KeysOf(inverted \ prior, i)
      BY <2>2 DEF KeysOf
  <2>5. TextsOf(texts', i) = IF i \in b THEN {t} ELSE TextsOf(texts, i)
      BY <1>1, <1>2 DEF TextsOf, Without, Rows
  <2> QED BY <2>1, <2>3, <2>4, <2>5
<1>6. Elsewhere(b) /\ TxnElsewhere(b)
    BY <1>1, <1>5 DEF Elsewhere, TxnElsewhere
<1>7. Indexed(texts') = Indexed(texts) \cup b
    BY AddMemory
<1>8. Calls'
  <2>1. Consistent(w)'
      BY <1>3, <1>7 DEF Consistent
  <2> QED BY <1>4, <1>7, <2>1, CallsFrame DEF Core
<1>9. ASSUME NEW i \in b \ spoiled' PROVE Working(w, i)'
  <2>1. Current(texts, inverted, i) /\ Current(txn.docs, txn.postings, i)
      BY <1>1, <1>4, Unclaimed
  <2>2. Aim(w)' = {t} /\ DocDone(w, i)' = FALSE /\ PostingsDone(w, i)' = FALSE
      BY <1>3 DEF Aim, DocDone, PostingsDone
  <2>3. ASSUME i \notin again' PROVE KeysOf(inverted, i) = {} /\ KeysOf(txn.postings, i) = {}
    <3>1. i \notin again /\ i \notin Indexed(texts)
        BY <1>1, <2>3
    <3>2. TextsOf(texts, i) = {}
        BY <1>2, <3>1, IndexedTexts
    <3> QED BY <2>1, <3>1, <3>2 DEF Current, Has
  <2>4. Has(texts, inverted, i, Aim(w))'
      BY <1>5, <2>2, <2>3 DEF Has
  <2> QED BY <1>1, <2>2, <2>3, <2>4 DEF Working
<1>10. ~crossed' => \A i \in b \ spoiled' : Current(disk.docs, disk.postings, i)'
  <2>1. ~crossed' => ~crossed
      BY <1>4 DEF OnlyOf
  <2> QED BY <1>1, <2>1, BatchIds DEF Core, DiskBehind, Current, Has
<1>11. AtRest' /\ DiskBehind' /\ AtWork'
    BY <1>1, <1>3, <1>4, <1>6, <1>9, <1>10, ChunksFrame DEF Core
<1> QED BY <1>8, <1>11 DEF Core

\* A removal, and the one that takes an add back.
LEMMA RetractStep ==
    ASSUME TypeOK, Finite, Core, NEW w \in Writers, NEW b \in Batches, NEW kind \in {"remove", "undo"},
           Retract(w, b, kind), Owns(w, b), crossed' \in BOOLEAN, crossed => crossed',
           ~crossed' => Others(w) = {}, UNCHANGED <<disk, again>>,
           Busy(w) => pc[w] = "undo"
    PROVE  Core'
<1> DEFINE gone == b \cap Indexed(texts)
<1>1. /\ op \in [Writers -> OpType] /\ pc \in [Writers -> Places] /\ crossed \in BOOLEAN
      /\ texts \in SUBSET Rows /\ inverted \in SUBSET (Tokens \X Ids) /\ want \in SUBSET Rows
    BY Types DEF CallTypes, MemoryTypes
<1>2. UNCHANGED <<txn, spoiled>>
    BY DEF Retract
<1>3. Busy(w) => b \subseteq Indexed(texts) /\ op[w].kind = "add" /\ op[w].batch = b
    BY DEF Core, Calls, Consistent, Owns
<1>4. ~crossed' => \A i \in b \ spoiled : Current(disk.docs, disk.postings, i)
    BY BatchIds DEF Core, DiskBehind
<1>5. ASSUME NEW i \in b \ spoiled, i \notin again PROVE KeysOf(inverted, i) = UNION TextsOf(texts, i)
  <2>1. CASE Busy(w)
      BY <1>3, <1>5, <2>1 DEF Core, AtWork, Working, Has
  <2>2. CASE ~Busy(w)
      BY <1>5, <2>2, Unclaimed DEF Current, Has
  <2> QED BY <2>1, <2>2
<1>6. CASE gone = {}
  <2>1. ~Busy(w)
      BY <1>3, <1>6, BatchIds
  <2>2. /\ pc' = [pc EXCEPT ![w] = "idle"] /\ op' = [op EXCEPT ![w] = NoCall]
        /\ want' = Without(want, b) /\ UNCHANGED <<texts, inverted>>
      BY <1>6 DEF Retract, Promise, memory
  <2>3. OnlyOf(w, b) /\ ~Busy(w)'
      BY <1>1, <2>2 DEF OnlyOf, Busy
  <2>4. \A i : TextsOf(want', i) = IF i \in b THEN {} ELSE TextsOf(want, i)
      BY <1>1, <2>2, TextsAfter
  <2>5. Elsewhere(b) /\ TxnElsewhere(b)
      BY <1>2, <2>2, <2>4 DEF Elsewhere, TxnElsewhere
  <2>6. Calls'
      BY <2>2, <2>3, CallsFrame DEF Core
  <2>7. ASSUME NEW i \in b \ spoiled
        PROVE  /\ Current(texts, inverted, i)' /\ Current(txn.docs, txn.postings, i)'
               /\ Current(disk.docs, disk.postings, i)'
    <3>1. /\ Current(texts, inverted, i) /\ Current(txn.docs, txn.postings, i)
          /\ Current(disk.docs, disk.postings, i)
        BY <2>1, Unclaimed
    <3>2. i \notin Indexed(texts)
        BY <1>6
    <3>3. TextsOf(texts, i) = {}
        BY <1>1, <3>2, IndexedTexts
    <3>4. TextsOf(want', i) = TextsOf(want, i)
        BY <2>4, <3>1, <3>3 DEF Current, Has
    <3> QED BY <1>2, <2>2, <3>1, <3>4 DEF Current, Has
  <2>8. AtRest' /\ DiskBehind' /\ AtWork'
      BY <1>2, <2>3, <2>5, <2>7, ChunksFrame DEF Core
  <2> QED BY <2>6, <2>8 DEF Core
<1>7. CASE gone # {}
  <2> DEFINE prior == Old(texts, b)
             call == [kind |-> kind, batch |-> b, text |-> {}, gone |-> gone, stats |-> size', todo |-> {}]
  <2>1. /\ texts' = Without(texts, b) /\ inverted' = inverted \ (prior \cap inverted)
        /\ op' = [op EXCEPT ![w] = call] /\ pc' = [pc EXCEPT ![w] = "stats"] /\ UNCHANGED want
      BY <1>7 DEF Retract, Old
  <2>2. /\ op'[w].kind = kind /\ op'[w].batch = b /\ op'[w].gone = gone
        /\ op'[w].todo = {} /\ pc'[w] = "stats" /\ Busy(w)'
        /\ \A v \in Writers \ {w} : pc'[v] = pc[v] /\ op'[v] = op[v]
      BY <1>1, <2>1 DEF Busy
  <2>3. OnlyOf(w, b)
      BY <2>2 DEF OnlyOf
  <2>4. \A i : /\ TextsOf(texts', i) = IF i \in b THEN {} ELSE TextsOf(texts, i)
               /\ KeysOf(inverted', i) = IF i \in b THEN KeysOf(inverted, i) \ UNION TextsOf(texts, i)
                                                    ELSE KeysOf(inverted, i)
    <3> SUFFICES ASSUME NEW i
                 PROVE  /\ TextsOf(texts', i) = IF i \in b THEN {} ELSE TextsOf(texts, i)
                        /\ KeysOf(inverted', i) = IF i \in b
                              THEN KeysOf(inverted, i) \ UNION TextsOf(texts, i)
                              ELSE KeysOf(inverted, i)
        OBVIOUS
    <3>1. KeysOf(prior, i) = IF i \in b THEN UNION TextsOf(texts, i) ELSE {}
        BY <1>1, KeysPosted
    <3> HIDE DEF prior
    <3>2. inverted' = inverted \ prior
        BY <2>1
    <3>3. KeysOf(inverted', i) = KeysOf(inverted, i) \ KeysOf(prior, i)
        BY <3>2 DEF KeysOf
    <3>4. TextsOf(texts', i) = IF i \in b THEN {} ELSE TextsOf(texts, i)
        BY <1>1, <2>1 DEF TextsOf, Without, Rows
    <3> QED BY <3>1, <3>3, <3>4
  <2>5. Elsewhere(b) /\ TxnElsewhere(b)
      BY <1>2, <2>1, <2>4 DEF Elsewhere, TxnElsewhere
  <2>6. Calls'
    <3>1. Consistent(w)'
        BY <2>2 DEF Consistent
    <3>2. \A i \in Ids \ b : i \in Indexed(texts) => i \in Indexed(texts')
        BY <1>1, <2>1, IndexedAfter
    <3> QED BY <2>3, <3>1, <3>2, CallsFrame DEF Core
  <2>7. ASSUME NEW i \in b \ spoiled PROVE Working(w, i)'
    <3>1. /\ Aim(w)' = {} /\ (DocDone(w, i)' <=> i \notin gone)
          /\ (PostingsDone(w, i)' <=> i \notin gone) /\ ~Unposted(w)'
        BY <2>2 DEF Aim, DocDone, PostingsDone, Unposted
    <3>2. Has(texts, inverted, i, Aim(w))'
        BY <1>5, <2>4, <3>1 DEF Has
    <3>3. ASSUME i \notin gone PROVE /\ TextsOf(txn.docs, i) = {}
                                     /\ i \notin again => KeysOf(txn.postings, i) = {}
      <4>1. ~Busy(w) /\ i \notin Indexed(texts)
          BY <1>3, <3>3
      <4>2. TextsOf(texts, i) = {}
          BY <1>1, <4>1, IndexedTexts
      <4>3. Current(texts, inverted, i) /\ Current(txn.docs, txn.postings, i)
          BY <4>1, Unclaimed
      <4> QED BY <4>2, <4>3 DEF Current, Has
    <3> QED BY <1>2, <3>1, <3>2, <3>3 DEF Working
  <2>8. ~crossed' => \A i \in b \ spoiled' : Current(disk.docs, disk.postings, i)'
      BY <1>2, <1>4, <2>1 DEF Current, Has
  <2>9. AtRest' /\ DiskBehind' /\ AtWork'
      BY <1>2, <2>2, <2>3, <2>5, <2>7, <2>8, ChunksFrame DEF Core
  <2> QED BY <2>6, <2>9 DEF Core
<1> QED BY <1>6, <1>7

\* A statement of a call.
LEMMA RunStep ==
    ASSUME TypeOK, Core, NEW w \in Writers, Busy(w),
           NEW at, NEW then \in Places \ {"idle", "undo"}, NEW image, Run(w, at, then, image),
           \A v \in Writers \ {w} : op'[v] = op[v],
           op'[w].batch = op[w].batch, op'[w].gone = op[w].gone,
           op'[w].kind = op[w].kind, op'[w].text = op[w].text,
           Consistent(w)', TxnElsewhere(op[w].batch),
           \A i \in op[w].batch \ spoiled : Working(w, i) =>
               /\ DocDone(w, i)' => TextsOf(txn'.docs, i) = Aim(w)
               /\ i \notin again => /\ PostingsDone(w, i)' => KeysOf(txn'.postings, i) = UNION Aim(w)
                                    /\ Unposted(w)' => KeysOf(txn'.postings, i) = {}
    PROVE  Core'
<1> DEFINE b == op[w].batch
<1>1. /\ pc' = [pc EXCEPT ![w] = then] /\ txn' = image
      /\ UNCHANGED <<memory, disk, bounds, want, spoiled, again, crossed>>
    BY DEF Run
<1>2. pc \in [Writers -> Places] /\ crossed \in BOOLEAN /\ b \in Batches
    BY Types DEF CallTypes, Core, Calls, Consistent
<1>3. Busy(w)' /\ \A v \in Writers \ {w} : pc'[v] = pc[v]
    BY <1>1, <1>2 DEF Busy
<1>4. Owns(w, b) /\ OnlyOf(w, b)
    BY <1>1, <1>2, <1>3 DEF Owns, OnlyOf, Core, Calls, Others, Busy
<1>5. Elsewhere(b)
    BY <1>1 DEF Elsewhere, memory
<1>6. Calls'
    BY <1>1, <1>2, <1>3, <1>4, CallsFrame DEF Core, memory
<1>7. ASSUME NEW i \in b \ spoiled' PROVE Working(w, i)'
  <2>1. Working(w, i) /\ Aim(w)' = Aim(w)
      BY <1>1 DEF Core, AtWork, Aim
  <2> QED BY <1>1, <2>1 DEF Working, Has, memory
<1>8. ~crossed' => \A i \in b \ spoiled' : Current(disk.docs, disk.postings, i)'
    BY <1>1, <1>2, BatchIds DEF Core, DiskBehind, Current, Has
<1>9. AtRest' /\ DiskBehind' /\ AtWork'
    BY <1>1, <1>2, <1>3, <1>4, <1>5, <1>7, <1>8, ChunksFrame DEF Core
<1> QED BY <1>6, <1>9 DEF Core

LEMMA WriteStatsStep ==
    ASSUME TypeOK, Core, NEW w \in Writers, WriteStats(w)
    PROVE  Core'
<1> DEFINE then == IF op[w].kind = "add" THEN "docs" ELSE "delPostings"
<1>1. /\ pc[w] = "stats" /\ pc' = [pc EXCEPT ![w] = then] /\ UNCHANGED <<op, memory>>
      /\ Run(w, "stats", then, [txn EXCEPT !.size = op[w].stats])
    BY DEF WriteStats, Run
<1>2. /\ Busy(w) /\ Consistent(w) /\ pc'[w] = then /\ txn \in Tables
      /\ then \in Places \ {"idle", "undo"}
    BY <1>1 DEF Core, Calls, Busy, TypeOK, Places
<1>3. txn'.docs = txn.docs /\ txn'.postings = txn.postings
    BY <1>1, <1>2 DEF Run, Tables
<1>4. TxnElsewhere(op[w].batch)
    BY <1>3 DEF TxnElsewhere
<1>5. Consistent(w)'
    BY <1>1, <1>2 DEF Consistent, memory
<1>6. ASSUME NEW i \in op[w].batch, Working(w, i)
      PROVE  /\ DocDone(w, i)' => TextsOf(txn'.docs, i) = Aim(w)
             /\ i \notin again => /\ PostingsDone(w, i)' => KeysOf(txn'.postings, i) = UNION Aim(w)
                                  /\ Unposted(w)' => KeysOf(txn'.postings, i) = {}
  <2>1. CASE op[w].kind = "add"
      BY <1>1, <1>2, <1>3, <1>6, <2>1 DEF Working, DocDone, PostingsDone, Unposted, Consistent
  <2>2. CASE op[w].kind # "add"
      BY <1>1, <1>2, <1>3, <1>6, <2>2 DEF Working, DocDone, PostingsDone, Unposted
  <2> QED BY <2>1, <2>2
<1> HIDE DEF then
<1> QED BY <1>1, <1>2, <1>4, <1>5, <1>6, RunStep

LEMMA WriteDocStep ==
    ASSUME TypeOK, Core, NEW w \in Writers, WriteDoc(w)
    PROVE  Core'
<1>1. PICK i \in op[w].todo :
         /\ op' = [op EXCEPT ![w].todo = op[w].todo \ {i}]
         /\ Run(w, "docs", IF op[w].todo = {i} THEN "postings" ELSE "docs",
                [txn EXCEPT !.docs = Without(txn.docs, {i}) \cup {<<i, op[w].text>>}])
    BY DEF WriteDoc
<1> DEFINE then == IF op[w].todo = {i} THEN "postings" ELSE "docs"
           image == [txn EXCEPT !.docs = Without(txn.docs, {i}) \cup {<<i, op[w].text>>}]
<1>2. /\ pc[w] = "docs" /\ pc' = [pc EXCEPT ![w] = then] /\ txn' = image /\ UNCHANGED memory
      /\ Run(w, "docs", then, image)
    BY <1>1 DEF Run
<1>3. /\ Busy(w) /\ Consistent(w) /\ op[w].kind = "add" /\ pc'[w] = then /\ txn \in Tables
      /\ then \in Places \ {"idle", "undo"} /\ op \in [Writers -> OpType]
    BY <1>2, Types DEF Core, Calls, Busy, Consistent, CallTypes, Places
<1>4. /\ \A v \in Writers \ {w} : op'[v] = op[v]
      /\ op'[w].batch = op[w].batch /\ op'[w].gone = op[w].gone /\ op'[w].kind = op[w].kind
      /\ op'[w].text = op[w].text /\ op'[w].todo = op[w].todo \ {i}
    BY <1>1, <1>3 DEF OpType
<1>5. /\ txn'.docs = Without(txn.docs, {i}) \cup ({i} \X {op[w].text})
      /\ txn'.postings = txn.postings
    BY <1>2, <1>3 DEF Tables
<1>6. op[w].text \in SUBSET Tokens /\ txn.docs \in SUBSET Rows
    BY <1>3 DEF OpType, Tables
<1>7. \A j : TextsOf(txn'.docs, j) = IF j = i THEN {op[w].text} ELSE TextsOf(txn.docs, j)
    BY <1>5, <1>6 DEF TextsOf, Without, Rows
<1>8. TxnElsewhere(op[w].batch)
    BY <1>1, <1>3, <1>5, <1>7 DEF TxnElsewhere, Consistent
<1>9. Consistent(w)'
    BY <1>2, <1>3, <1>4 DEF Consistent, memory
<1>10. ASSUME NEW j \in op[w].batch, Working(w, j)
       PROVE  /\ DocDone(w, j)' => TextsOf(txn'.docs, j) = Aim(w)
              /\ j \notin again => /\ PostingsDone(w, j)' => KeysOf(txn'.postings, j) = UNION Aim(w)
                                   /\ Unposted(w)' => KeysOf(txn'.postings, j) = {}
  <2>1. Aim(w) = {op[w].text}
      BY <1>3 DEF Aim
  <2>2. DocDone(w, j)' => j = i \/ DocDone(w, j)
      BY <1>2, <1>3, <1>4 DEF DocDone
  <2>3. TextsOf(txn'.docs, j) = {op[w].text} \/ (j # i /\ TextsOf(txn'.docs, j) = TextsOf(txn.docs, j))
      BY <1>7
  <2>4. ~PostingsDone(w, j)' /\ Unposted(w)
      BY <1>2, <1>3, <1>4 DEF PostingsDone, Unposted
  <2> QED BY <1>5, <1>10, <2>1, <2>2, <2>3, <2>4 DEF Working
<1> HIDE DEF then, image
<1> QED BY <1>2, <1>3, <1>4, <1>8, <1>9, <1>10, RunStep

LEMMA WritePostingsStep ==
    ASSUME TypeOK, Core, NEW w \in Writers, WritePostings(w)
    PROVE  Core'
<1> DEFINE image == [txn EXCEPT !.postings = txn.postings \cup Posted(op[w].text, op[w].batch)]
<1>1. /\ pc[w] = "postings" /\ pc' = [pc EXCEPT ![w] = "commit"] /\ txn' = image
      /\ UNCHANGED <<op, memory>> /\ Run(w, "postings", "commit", image)
    BY DEF WritePostings, Run
<1>2. /\ Busy(w) /\ Consistent(w) /\ op[w].kind = "add" /\ pc'[w] = "commit" /\ txn \in Tables
      /\ "commit" \in Places \ {"idle", "undo"} /\ op[w] \in OpType
    BY <1>1, Types DEF Core, Calls, Busy, Consistent, CallTypes, Places
<1>3. /\ txn'.docs = txn.docs /\ txn'.postings = txn.postings \cup (op[w].text \X op[w].batch)
      /\ op[w].text \in SUBSET Tokens
    BY <1>1, <1>2 DEF Tables, Posted, OpType
<1>4. \A i : KeysOf(txn'.postings, i) = IF i \in op[w].batch
                 THEN KeysOf(txn.postings, i) \cup op[w].text ELSE KeysOf(txn.postings, i)
    BY <1>3 DEF KeysOf
<1>5. TxnElsewhere(op[w].batch)
    BY <1>3, <1>4 DEF TxnElsewhere
<1>6. Consistent(w)'
    BY <1>1, <1>2 DEF Consistent, memory
<1>7. ASSUME NEW i \in op[w].batch, Working(w, i)
      PROVE  /\ DocDone(w, i)' => TextsOf(txn'.docs, i) = Aim(w)
             /\ i \notin again => /\ PostingsDone(w, i)' => KeysOf(txn'.postings, i) = UNION Aim(w)
                                  /\ Unposted(w)' => KeysOf(txn'.postings, i) = {}
  <2>1. Aim(w) = {op[w].text} /\ DocDone(w, i) /\ Unposted(w) /\ ~Unposted(w)'
      BY <1>1, <1>2 DEF Aim, DocDone, Unposted
  <2>2. i \notin again => KeysOf(txn'.postings, i) = op[w].text
      BY <1>4, <1>7, <2>1 DEF Working
  <2>3. UNION Aim(w) = op[w].text
      BY <2>1
  <2> QED BY <1>3, <1>7, <2>1, <2>2, <2>3 DEF Working
<1> HIDE DEF image
<1> QED BY <1>1, <1>2, <1>5, <1>6, <1>7, RunStep

LEMMA DeletePostingsStep ==
    ASSUME TypeOK, Core, NEW w \in Writers, DeletePostings(w)
    PROVE  Core'
<1> DEFINE image == [txn EXCEPT !.postings = WithoutPostings(op[w].gone)]
<1>1. /\ pc[w] = "delPostings" /\ pc' = [pc EXCEPT ![w] = "delDocs"] /\ txn' = image
      /\ UNCHANGED <<op, memory>> /\ Run(w, "delPostings", "delDocs", image)
    BY DEF DeletePostings, Run
<1>2. /\ Busy(w) /\ Consistent(w) /\ op[w].kind # "add" /\ pc'[w] = "delDocs" /\ txn \in Tables
      /\ "delDocs" \in Places \ {"idle", "undo"}
    BY <1>1, Types DEF Core, Calls, Busy, Consistent, CallTypes, Places
<1>3. txn'.docs = txn.docs /\ txn'.postings = {p \in txn.postings : p[2] \notin op[w].gone}
    BY <1>1, <1>2 DEF Tables, WithoutPostings
<1>4. \A i : KeysOf(txn'.postings, i) = IF i \in op[w].gone THEN {} ELSE KeysOf(txn.postings, i)
    BY <1>3 DEF KeysOf
<1>5. TxnElsewhere(op[w].batch)
    BY <1>2, <1>3, <1>4 DEF TxnElsewhere, Consistent
<1>6. Consistent(w)'
    BY <1>1, <1>2 DEF Consistent, memory
<1>7. ASSUME NEW i \in op[w].batch, Working(w, i)
      PROVE  /\ DocDone(w, i)' => TextsOf(txn'.docs, i) = Aim(w)
             /\ i \notin again => /\ PostingsDone(w, i)' => KeysOf(txn'.postings, i) = UNION Aim(w)
                                  /\ Unposted(w)' => KeysOf(txn'.postings, i) = {}
  <2>1. Aim(w) = {} /\ ~Unposted(w)' /\ DocDone(w, i)' = DocDone(w, i)
      BY <1>1, <1>2 DEF Aim, DocDone, Unposted
  <2>2. i \notin op[w].gone => PostingsDone(w, i)
      BY <1>2 DEF PostingsDone
  <2>3. i \notin again => KeysOf(txn'.postings, i) = {}
      BY <1>4, <1>7, <2>1, <2>2 DEF Working
  <2> QED BY <1>3, <1>7, <2>1, <2>3 DEF Working
<1> HIDE DEF image
<1> QED BY <1>1, <1>2, <1>5, <1>6, <1>7, RunStep

LEMMA DeleteDocsStep ==
    ASSUME TypeOK, Core, NEW w \in Writers, DeleteDocs(w)
    PROVE  Core'
<1> DEFINE image == [txn EXCEPT !.docs = Without(txn.docs, op[w].gone)]
<1>1. /\ pc[w] = "delDocs" /\ pc' = [pc EXCEPT ![w] = "commit"] /\ txn' = image
      /\ UNCHANGED <<op, memory>> /\ Run(w, "delDocs", "commit", image)
    BY DEF DeleteDocs, Run
<1>2. /\ Busy(w) /\ Consistent(w) /\ op[w].kind # "add" /\ pc'[w] = "commit" /\ txn \in Tables
      /\ "commit" \in Places \ {"idle", "undo"}
    BY <1>1, Types DEF Core, Calls, Busy, Consistent, CallTypes, Places
<1>3. /\ txn'.docs = Without(txn.docs, op[w].gone) /\ txn'.postings = txn.postings
      /\ txn.docs \in SUBSET Rows
    BY <1>1, <1>2 DEF Tables
<1>4. \A i : TextsOf(txn'.docs, i) = IF i \in op[w].gone THEN {} ELSE TextsOf(txn.docs, i)
    BY <1>3 DEF TextsOf, Without, Rows
<1>5. TxnElsewhere(op[w].batch)
    BY <1>2, <1>3, <1>4 DEF TxnElsewhere, Consistent
<1>6. Consistent(w)'
    BY <1>1, <1>2 DEF Consistent, memory
<1>7. ASSUME NEW i \in op[w].batch, Working(w, i)
      PROVE  /\ DocDone(w, i)' => TextsOf(txn'.docs, i) = Aim(w)
             /\ i \notin again => /\ PostingsDone(w, i)' => KeysOf(txn'.postings, i) = UNION Aim(w)
                                  /\ Unposted(w)' => KeysOf(txn'.postings, i) = {}
  <2>1. Aim(w) = {} /\ ~Unposted(w)' /\ PostingsDone(w, i)
      BY <1>1, <1>2 DEF Aim, PostingsDone, Unposted
  <2>2. i \notin op[w].gone => DocDone(w, i)
      BY <1>2 DEF DocDone
  <2>3. TextsOf(txn'.docs, i) = {}
      BY <1>4, <1>7, <2>1, <2>2 DEF Working
  <2> QED BY <1>3, <1>7, <2>1, <2>3 DEF Working
<1> HIDE DEF image
<1> QED BY <1>1, <1>2, <1>5, <1>6, <1>7, RunStep

LEMMA CommitStep ==
    ASSUME TypeOK, Core, NEW w \in Writers, Commit(w)
    PROVE  Core'
<1> DEFINE b == op[w].batch
           rows == IF op[w].kind = "add" THEN b \X {op[w].text} ELSE {}
<1>1. /\ pc[w] = "commit" /\ disk' = txn /\ want' = Without(want, b) \cup rows
      /\ pc' = [pc EXCEPT ![w] = "idle"] /\ op' = [op EXCEPT ![w] = NoCall]
      /\ UNCHANGED <<memory, txn, bounds, spoiled, again, crossed>>
    BY DEF Commit, Promise
<1>2. /\ pc \in [Writers -> Places] /\ op \in [Writers -> OpType] /\ crossed \in BOOLEAN
      /\ want \in SUBSET Rows /\ Busy(w) /\ b \in Batches /\ op[w].text \in SUBSET Tokens
    BY <1>1, Types DEF CallTypes, Core, Calls, Busy, Consistent, OpType
<1>3. Owns(w, b) /\ OnlyOf(w, b) /\ ~Busy(w)'
    BY <1>1, <1>2 DEF Owns, OnlyOf, Core, Calls, Others, Busy
<1>4. \A i : TextsOf(want', i) = IF i \in b THEN Aim(w) ELSE TextsOf(want, i)
  <2>1. CASE op[w].kind = "add"
      BY <1>1, <1>2, <2>1 DEF TextsOf, Without, Rows, Aim
  <2>2. CASE op[w].kind # "add"
      BY <1>1, <1>2, <2>2 DEF TextsOf, Without, Rows, Aim
  <2> QED BY <2>1, <2>2
<1>5. Elsewhere(b) /\ TxnElsewhere(b)
    BY <1>1, <1>4 DEF Elsewhere, TxnElsewhere, memory
<1>6. Calls'
    BY <1>1, <1>2, <1>3, CallsFrame DEF Core, memory
<1>7. ASSUME NEW i \in b \ spoiled'
      PROVE  /\ Current(texts, inverted, i)' /\ Current(txn.docs, txn.postings, i)'
             /\ Current(disk.docs, disk.postings, i)'
  <2>1. Working(w, i) /\ DocDone(w, i) /\ PostingsDone(w, i)
      BY <1>1, <1>2 DEF Core, AtWork, DocDone, PostingsDone
  <2>2. TextsOf(want', i) = Aim(w)
      BY <1>4
  <2>3. Has(texts, inverted, i, Aim(w)) /\ Has(txn.docs, txn.postings, i, Aim(w))
      BY <2>1 DEF Working, Has
  <2> QED BY <1>1, <2>2, <2>3 DEF Current, Has, memory
<1>8. AtRest' /\ DiskBehind' /\ AtWork'
    BY <1>1, <1>2, <1>3, <1>5, <1>7, ChunksFrame DEF Core
<1> QED BY <1>6, <1>8 DEF Core

\* A statement or a removal that raises: what it may have damaged is spoiled,
\* but for an add, whose chunks stay in memory to be taken back.
LEMMA FailStep ==
    ASSUME TypeOK, Core, NEW w \in Writers, Fails(w) \/ UndoFails(w)
    PROVE  Core'
<1> DEFINE b == op[w].batch
<1>1. /\ pc[w] # "idle" /\ txn' \in {txn, disk}
      /\ \/ pc' = [pc EXCEPT ![w] = "idle"] /\ op' = [op EXCEPT ![w] = NoCall] /\ b \subseteq spoiled'
         \/ pc' = [pc EXCEPT ![w] = "undo"] /\ UNCHANGED op /\ op[w].kind = "add"
      /\ txn' # txn => \A v \in Others(w) : op[v].batch \subseteq spoiled'
      /\ spoiled \subseteq spoiled'
      /\ UNCHANGED <<memory, disk, want, again, crossed>>
  <2>1. CASE UndoFails(w)
      BY <2>1 DEF UndoFails
  <2>2. CASE Fails(w)
      BY <2>2 DEF Fails, AfterFailure
  <2> QED BY <2>1, <2>2
<1>2. /\ pc \in [Writers -> Places] /\ op \in [Writers -> OpType] /\ crossed \in BOOLEAN
      /\ Busy(w) /\ Consistent(w) /\ b \in Batches
    BY <1>1, Types DEF CallTypes, Core, Calls, Busy, Consistent
<1>3. Owns(w, b) /\ OnlyOf(w, b)
    BY <1>1, <1>2 DEF Owns, OnlyOf, Core, Calls, Others, Busy
<1>4. Elsewhere(b)
    BY <1>1 DEF Elsewhere, memory
<1>5. TxnElsewhere(b) \/ RolledBack(w)
    BY <1>1 DEF TxnElsewhere, RolledBack
<1>6. disk' = txn => TxnElsewhere(b)
    BY <1>1 DEF TxnElsewhere
<1>7. Calls'
  <2>1. Busy(w)' => Consistent(w)'
      BY <1>1, <1>2 DEF Consistent, Busy, memory
  <2> QED BY <1>1, <1>2, <1>3, <2>1, CallsFrame DEF Core, memory
<1>8. ASSUME NEW i \in b \ spoiled' PROVE Busy(w)' /\ Working(w, i)'
  <2>1. pc'[w] = "undo" /\ op' = op /\ op[w].kind = "add" /\ Working(w, i)
      BY <1>1, <1>2, <1>8 DEF Core, AtWork
  <2>2. Aim(w)' = Aim(w) /\ ~DocDone(w, i)' /\ ~PostingsDone(w, i)' /\ ~Unposted(w)'
      BY <2>1 DEF Aim, DocDone, PostingsDone, Unposted
  <2> QED BY <1>1, <2>1, <2>2 DEF Working, Has, memory, Busy
<1>9. ~crossed' => \A i \in b \ spoiled' : Current(disk.docs, disk.postings, i)'
    BY <1>1, <1>2, BatchIds DEF Core, DiskBehind, Current, Has
<1>10. AtRest' /\ DiskBehind' /\ AtWork'
    BY <1>1, <1>2, <1>3, <1>4, <1>5, <1>6, <1>8, <1>9, ChunksFrame DEF Core
<1> QED BY <1>7, <1>10 DEF Core

LEMMA RestartStep ==
    ASSUME TypeOK, Core, Restart
    PROVE  Core'
<1>1. /\ texts' = disk.docs /\ inverted' = disk.postings /\ txn' = disk
      /\ pc' = [w \in Writers |-> "idle"]
      /\ spoiled' = IF crossed THEN spoiled \cup UNION {op[w].batch : w \in Writers} ELSE spoiled
      /\ UNCHANGED <<disk, want, again, crossed>>
    BY DEF Restart
<1>2. \A w \in Writers : ~Busy(w)'
    BY <1>1 DEF Busy
<1>3. ASSUME NEW i \in Ids, i \notin spoiled' PROVE Current(disk.docs, disk.postings, i)
  <2>1. CASE crossed
    <3>1. Resting(i) /\ i \notin spoiled
        BY <1>1, <1>3, <2>1 DEF Resting
    <3> QED BY <3>1 DEF Core, AtRest
  <2>2. CASE ~crossed
      BY <1>1, <1>3, <2>2 DEF Core, DiskBehind
  <2> QED BY <2>1, <2>2
<1>4. AtRest' /\ DiskBehind'
    BY <1>1, <1>3 DEF AtRest, DiskBehind, Current, Has
<1> QED BY <1>2, <1>4 DEF Core, Calls, AtWork

LEMMA CoreStep == TypeOK /\ Finite /\ Core /\ [Next]_vars => Core'
<1> SUFFICES ASSUME TypeOK, Finite, Core, [Next]_vars PROVE Core'
    OBVIOUS
<1>1. ASSUME NEW w \in Writers, NEW b \in Batches, Remove(w, b) PROVE Core'
  <2>1. /\ Owns(w, b) /\ ~Busy(w) /\ crossed' = (crossed \/ Others(w) # {})
        /\ Retract(w, b, "remove") /\ UNCHANGED again
      BY <1>1 DEF Remove, Call, Owns, Busy
  <2>2. UNCHANGED disk /\ crossed \in BOOLEAN
      BY <2>1 DEF Retract, TypeOK
  <2> QED BY <2>1, <2>2, RetractStep
<1>2. ASSUME NEW w \in Writers, Undo(w) PROVE Core'
  <2>1. /\ Busy(w) /\ pc[w] = "undo" /\ Retract(w, op[w].batch, "undo") /\ UNCHANGED <<again, crossed>>
      BY <1>2 DEF Undo, Busy
  <2>2. UNCHANGED disk /\ crossed \in BOOLEAN /\ op[w].batch \in Batches
      BY <2>1 DEF Retract, TypeOK, Core, Calls, Consistent
  <2>3. Owns(w, op[w].batch) /\ (~crossed' => Others(w) = {})
      BY <2>1, <2>2 DEF Owns, Others, Core, Calls, Busy
  <2> QED BY <2>1, <2>2, <2>3, RetractStep
<1>3. CASE UNCHANGED vars
  <2>1. Calls'
      BY <1>3 DEF vars, Core, Calls, Consistent, Busy
  <2>2. AtRest' /\ DiskBehind'
      BY <1>3 DEF vars, Core, AtRest, DiskBehind, Resting, Busy, Current, Has
  <2>3. AtWork'
    <3> SUFFICES ASSUME NEW w \in Writers, Busy(w)', NEW i \in op'[w].batch \ spoiled'
                 PROVE  Working(w, i)'
        BY DEF AtWork
    <3>1. Working(w, i)
        BY <1>3 DEF vars, Core, AtWork, Busy
    <3> QED BY <1>3, <3>1 DEF vars, Working, Has, Aim, DocDone, PostingsDone, Unposted
  <2> QED BY <2>1, <2>2, <2>3 DEF Core
<1> QED BY <1>1, <1>2, <1>3, AddStep, WriteStatsStep, WriteDocStep, WritePostingsStep,
           DeletePostingsStep, DeleteDocsStep, CommitStep, FailStep, RestartStep DEF Next, Waiting

-----------------------------------------------------------------------------
(* The statistics and the theorems.                                        *)

\* The index on the connection and in memory have the same chunks when a call
\* that is alone commits.
LEMMA CommittedIds ==
    ASSUME TypeOK, Core, NEW w \in Writers, pc[w] = "commit", ~crossed, spoiled = {}
    PROVE  Indexed(txn.docs) = Indexed(texts)
<1>1. txn.docs \in SUBSET Rows /\ texts \in SUBSET Rows
    BY DEF TypeOK, Tables
<1>2. ASSUME NEW i \in Ids PROVE TextsOf(txn.docs, i) = TextsOf(texts, i)
  <2>1. CASE i \in op[w].batch
    <3>1. Working(w, i) /\ DocDone(w, i)
        BY <2>1 DEF Core, AtWork, Busy, DocDone
    <3> QED BY <3>1 DEF Working, Has
  <2>2. CASE i \notin op[w].batch
    <3>1. Resting(i)
        BY <2>2 DEF Resting, Core, Calls, Busy
    <3> QED BY <3>1 DEF Core, AtRest, Current, Has
  <2> QED BY <2>1, <2>2
<1>3. \A i \in Indexed(txn.docs) \cup Indexed(texts) : i \in Ids
    BY <1>1 DEF Indexed, Rows
<1>4. \A i \in Ids : i \in Indexed(txn.docs) <=> i \in Indexed(texts)
    BY <1>1, <1>2, IndexedTexts
<1> QED BY <1>3, <1>4

LEMMA CountStep == BmInv /\ [Next]_vars => Counted'
<1> SUFFICES ASSUME BmInv, [Next]_vars, ~crossed', spoiled' = {}
             PROVE  /\ size' = Cardinality(Indexed(texts')) /\ disk'.size = Cardinality(Indexed(disk'.docs))
                    /\ \A w \in Writers : pc'[w] \notin {"idle", "undo"} => Counting(w)'
    BY DEF Counted
<1>1. /\ TypeOK /\ Finite /\ Core /\ crossed \in BOOLEAN
      /\ op \in [Writers -> OpType] /\ pc \in [Writers -> Places] /\ txn \in Tables
    BY Types DEF BmInv, Core, CallTypes
<1>2. ~crossed
    BY <1>1 DEF Next, Waiting, Add, Remove, Call, Undo, UndoFails, WriteStats, WriteDoc, WritePostings,
       DeletePostings, DeleteDocs, Commit, Fails, Restart, Run, vars
<1>3. spoiled = {}
  <2>1. ASSUME NEW w \in Writers,
               \/ \E b \in Batches : (\E t \in SUBSET Tokens : Add(w, b, t)) \/ Remove(w, b)
               \/ Undo(w) \/ UndoFails(w) \/ Fails(w)
        PROVE  spoiled \subseteq spoiled'
      BY <2>1 DEF Add, Remove, Retract, Undo, UndoFails, Fails, memory
  <2>2. ASSUME NEW w \in Writers,
               \/ WriteStats(w) \/ WriteDoc(w) \/ WritePostings(w)
               \/ DeletePostings(w) \/ DeleteDocs(w) \/ Commit(w)
        PROVE  spoiled' = spoiled
      BY <2>2 DEF WriteStats, WriteDoc, WritePostings, DeletePostings, DeleteDocs, Commit, Run
  <2>3. Restart \/ Waiting \/ UNCHANGED vars => spoiled \subseteq spoiled'
      BY DEF Restart, Waiting, vars
  <2> QED BY <2>1, <2>2, <2>3 DEF Next
<1>4. /\ size = Cardinality(Indexed(texts)) /\ disk.size = Cardinality(Indexed(disk.docs))
      /\ \A w \in Writers : pc[w] \notin {"idle", "undo"} => Counting(w)
    BY <1>2, <1>3 DEF BmInv, Counted
<1>5. \A v \in Writers, w \in Writers : Busy(v) /\ Busy(w) => v = w
    BY <1>1, <1>2 DEF Core, Calls
<1>6. ASSUME NEW w \in Writers, NEW b \in Batches, NEW t \in SUBSET Tokens, Add(w, b, t)
      PROVE  /\ size' = Cardinality(Indexed(texts')) /\ disk'.size = Cardinality(Indexed(disk'.docs))
             /\ \A v \in Writers : pc'[v] \notin {"idle", "undo"} => Counting(v)'
  <2>1. size' = Cardinality(Indexed(texts')) /\ UNCHANGED disk
      BY <1>1, <1>4, <1>6, AddMemory DEF Add
  <2>2. pc'[w] = "stats" /\ op'[w].stats = size'
      BY <1>1, <1>6 DEF Add
  <2>3. \A v \in Writers \ {w} : pc'[v] = "idle"
      BY <1>1, <1>2, <1>6 DEF Add, Call, Others
  <2> QED BY <1>4, <2>1, <2>2, <2>3 DEF Counting
<1>7. ASSUME NEW w \in Writers, NEW b \in Batches, NEW kind, Retract(w, b, kind), UNCHANGED disk,
             \A v \in Writers \ {w} : pc[v] = "idle"
      PROVE  /\ size' = Cardinality(Indexed(texts')) /\ disk'.size = Cardinality(Indexed(disk'.docs))
             /\ \A v \in Writers : pc'[v] \notin {"idle", "undo"} => Counting(v)'
  <2>1. CASE b \cap Indexed(texts) # {}
    <3>1. size' = Cardinality(Indexed(texts'))
        BY <1>1, <1>4, <1>7, <2>1, RetractMemory
    <3>2. pc'[w] = "stats" /\ op'[w].stats = size' /\ \A v \in Writers \ {w} : pc'[v] = "idle"
        BY <1>1, <1>7, <2>1 DEF Retract
    <3> QED BY <1>4, <1>7, <3>1, <3>2 DEF Counting
  <2>2. CASE b \cap Indexed(texts) = {}
    <3>1. UNCHANGED <<texts, size>> /\ \A v \in Writers : pc'[v] = "idle"
        BY <1>1, <1>7, <2>2 DEF Retract, memory
    <3> QED BY <1>4, <1>7, <3>1
  <2> QED BY <2>1, <2>2
<1>8. ASSUME NEW w \in Writers, NEW b \in Batches, Remove(w, b)
      PROVE  /\ size' = Cardinality(Indexed(texts')) /\ disk'.size = Cardinality(Indexed(disk'.docs))
             /\ \A v \in Writers : pc'[v] \notin {"idle", "undo"} => Counting(v)'
  <2>1. \A v \in Writers \ {w} : pc[v] = "idle"
      BY <1>1, <1>2, <1>8 DEF Remove, Call, Others
  <2>2. UNCHANGED disk
      BY <1>8 DEF Remove, Retract
  <2> QED BY <1>7, <1>8, <2>1, <2>2 DEF Remove
<1>9. ASSUME NEW w \in Writers, Undo(w)
      PROVE  /\ size' = Cardinality(Indexed(texts')) /\ disk'.size = Cardinality(Indexed(disk'.docs))
             /\ \A v \in Writers : pc'[v] \notin {"idle", "undo"} => Counting(v)'
  <2>1. Busy(w) /\ op[w].batch \in Batches
      BY <1>1, <1>9 DEF Undo, Busy, Core, Calls, Consistent
  <2>2. \A v \in Writers \ {w} : pc[v] = "idle"
      BY <1>5, <2>1 DEF Busy
  <2>3. UNCHANGED disk
      BY <1>9 DEF Undo, Retract
  <2> QED BY <1>7, <1>9, <2>1, <2>2, <2>3 DEF Undo
<1>10. ASSUME NEW w \in Writers, UNCHANGED <<texts, size, disk>>, Busy(w),
              \A v \in Writers \ {w} : pc'[v] = pc[v],
              pc'[w] \notin {"idle", "undo"} => Counting(w)'
       PROVE  /\ size' = Cardinality(Indexed(texts')) /\ disk'.size = Cardinality(Indexed(disk'.docs))
              /\ \A v \in Writers : pc'[v] \notin {"idle", "undo"} => Counting(v)'
  <2>1. \A v \in Writers \ {w} : pc'[v] = "idle"
      BY <1>5, <1>10 DEF Busy
  <2> QED BY <1>4, <1>10, <2>1
<1>11. ASSUME NEW w \in Writers, UndoFails(w) \/ Fails(w)
       PROVE  /\ size' = Cardinality(Indexed(texts')) /\ disk'.size = Cardinality(Indexed(disk'.docs))
              /\ \A v \in Writers : pc'[v] \notin {"idle", "undo"} => Counting(v)'
  <2>1. UNCHANGED <<texts, size, disk>> /\ Busy(w)
      BY <1>11 DEF UndoFails, Fails, memory, Busy
  <2>2. /\ \A v \in Writers \ {w} : pc'[v] = pc[v]
        /\ pc'[w] \in {"idle", "undo"}
      BY <1>1, <1>11 DEF UndoFails, Fails, AfterFailure
  <2> QED BY <1>10, <2>1, <2>2
<1>12. ASSUME NEW w \in Writers, WriteStats(w)
       PROVE  /\ size' = Cardinality(Indexed(texts')) /\ disk'.size = Cardinality(Indexed(disk'.docs))
              /\ \A v \in Writers : pc'[v] \notin {"idle", "undo"} => Counting(v)'
  <2>1. /\ UNCHANGED <<texts, size, disk, op>> /\ Busy(w) /\ pc[w] = "stats"
        /\ \A v \in Writers \ {w} : pc'[v] = pc[v]
      BY <1>1, <1>12 DEF WriteStats, Run, memory, Busy
  <2>2. op[w].stats = size /\ op[w].stats \in Int
      BY <1>1, <1>4, <2>1 DEF Counting, OpType
  <2>3. txn'.size = op[w].stats
      BY <1>1, <1>12, <2>2 DEF WriteStats, Run, Tables
  <2> QED BY <1>10, <2>1, <2>2, <2>3 DEF Counting
<1>13. ASSUME NEW w \in Writers, WriteDoc(w) \/ WritePostings(w) \/ DeletePostings(w) \/ DeleteDocs(w)
       PROVE  /\ size' = Cardinality(Indexed(texts')) /\ disk'.size = Cardinality(Indexed(disk'.docs))
              /\ \A v \in Writers : pc'[v] \notin {"idle", "undo"} => Counting(v)'
  <2>1. /\ UNCHANGED <<texts, size, disk>> /\ Busy(w) /\ pc[w] \notin {"idle", "undo", "stats"}
        /\ \A v \in Writers \ {w} : pc'[v] = pc[v]
      BY <1>1, <1>13 DEF WriteDoc, WritePostings, DeletePostings, DeleteDocs, Run, memory, Busy
  <2>2. op'[w].stats = op[w].stats
    <3>1. CASE WriteDoc(w)
        BY <1>1, <3>1 DEF WriteDoc, OpType
    <3>2. CASE WritePostings(w) \/ DeletePostings(w) \/ DeleteDocs(w)
        BY <3>2 DEF WritePostings, DeletePostings, DeleteDocs
    <3> QED BY <1>13, <3>1, <3>2
  <2>3. txn'.size = txn.size
      BY <1>1, <1>13 DEF WriteDoc, WritePostings, DeletePostings, DeleteDocs, Run, Tables
  <2>4. op[w].stats = size /\ txn.size = size
      BY <1>4, <2>1 DEF Counting
  <2> QED BY <1>10, <2>1, <2>2, <2>3, <2>4 DEF Counting
<1>14. ASSUME NEW w \in Writers, Commit(w)
       PROVE  /\ size' = Cardinality(Indexed(texts')) /\ disk'.size = Cardinality(Indexed(disk'.docs))
              /\ \A v \in Writers : pc'[v] \notin {"idle", "undo"} => Counting(v)'
  <2>1. /\ pc[w] = "commit" /\ disk' = txn /\ UNCHANGED <<texts, size>>
        /\ pc'[w] = "idle" /\ \A v \in Writers \ {w} : pc'[v] = pc[v]
      BY <1>1, <1>14 DEF Commit, memory
  <2>2. txn.size = size
      BY <1>4, <2>1 DEF Counting
  <2>3. Indexed(txn.docs) = Indexed(texts)
      BY <1>1, <1>2, <1>3, <2>1, CommittedIds
  <2>4. \A v \in Writers : pc'[v] = "idle"
      BY <1>5, <2>1 DEF Busy
  <2> QED BY <1>4, <2>1, <2>2, <2>3, <2>4
<1>15. CASE Restart
    BY <1>4, <1>15 DEF Restart
<1>16. CASE UNCHANGED vars
    BY <1>4, <1>16 DEF vars, Counting
<1> QED BY <1>6, <1>8, <1>9, <1>11, <1>12, <1>13, <1>14, <1>15, <1>16 DEF Next, Waiting

LEMMA BmStep == BmInv /\ [Next]_vars => BmInv'
<1> SUFFICES ASSUME BmInv, [Next]_vars PROVE BmInv'
    OBVIOUS
<1>1. TypeOK /\ Finite /\ Calls /\ Core /\ FrequencyExact
    BY DEF BmInv, Core
<1>2. TypeOK' /\ Finite' /\ Core' /\ FrequencyExact' /\ Counted'
    BY <1>1, TypeStep, FiniteStep, CoreStep, FrequencyStep, CountStep
<1> QED BY <1>2 DEF BmInv, Core

\* A call alone works on its chunks, and every other chunk is in memory, on the
\* connection and on disk what the answered calls promised (bm25_index.py).
THEOREM BmInvariant == Spec => []BmInv
<1> QED BY InitInv, BmStep, PTL DEF Spec

\* A copy whose chunks are current holds what was promised.
LEMMA HoldsWhat ==
    ASSUME NEW t \in SUBSET Rows, NEW p \in SUBSET (Tokens \X Ids), want \in SUBSET Rows,
           \A i \in Ids \ spoiled : Current(t, p, i)
    PROVE  Holds(t, p, Ids \ (spoiled \cup again))
<1> DEFINE S == Ids \ (spoiled \cup again)
<1>1. ASSUME NEW r \in Rows, r[1] \notin spoiled PROVE r \in t <=> r \in want
  <2>1. r = <<r[1], r[2]>> /\ r[1] \in Ids /\ r[2] \in SUBSET Tokens
      BY DEF Rows
  <2>2. TextsOf(t, r[1]) = TextsOf(want, r[1])
      BY <1>1, <2>1 DEF Current, Has
  <2>3. r[2] \in TextsOf(t, r[1]) <=> r[2] \in TextsOf(want, r[1])
      BY <2>2
  <2> QED BY <2>1, <2>3 DEF TextsOf
<1>2. Without(t, spoiled) = Without(want, spoiled)
    BY <1>1 DEF Without
<1>3. ASSUME NEW q \in Tokens \X Ids, q[2] \in S
      PROVE  q \in p <=> q \in Postings({r \in want : r[1] \in S})
  <2>1. q = <<q[1], q[2]>> /\ q[1] \in Tokens
      OBVIOUS
  <2>2. KeysOf(p, q[2]) = UNION TextsOf(want, q[2])
      BY <1>3 DEF Current, Has
  <2>3. KeysOf(Old(want, S), q[2]) = UNION TextsOf(want, q[2])
      BY <1>3, KeysPosted
  <2>4. q[1] \in KeysOf(p, q[2]) <=> q[1] \in KeysOf(Old(want, S), q[2])
      BY <2>2, <2>3
  <2> QED BY <2>1, <2>4 DEF KeysOf, Old
<1>4. ASSUME NEW q \in Postings({r \in want : r[1] \in S}) PROVE q \in Tokens \X Ids /\ q[2] \in S
  <2>1. PICK r \in want : r[1] \in S /\ q \in r[2] \X {r[1]}
      BY DEF Postings
  <2> QED BY <2>1 DEF Rows
<1>5. {q \in p : q[2] \in S} = Postings({r \in want : r[1] \in S})
    BY <1>3, <1>4
<1> QED BY <1>2, <1>5 DEF Holds

\* Between calls memory and bm25_index.db hold what the answered calls added and
\* did not remove (L6, bm25_index.py), for any number of threads and documents.
THEOREM KeptCorrect == Spec => []Kept
<1>1. BmInv => Kept
  <2> SUFFICES ASSUME BmInv, Quiet
               PROVE  /\ Holds(texts, inverted, Ids \ (spoiled \cup again))
                      /\ Holds(disk.docs, disk.postings, Ids \ (spoiled \cup again))
      BY DEF Kept
  <2>1. /\ texts \in SUBSET Rows /\ inverted \in SUBSET (Tokens \X Ids) /\ want \in SUBSET Rows
        /\ disk.docs \in SUBSET Rows /\ disk.postings \in SUBSET (Tokens \X Ids)
      BY DEF BmInv, TypeOK, Tables
  <2>2. \A i \in Ids \ spoiled : Current(texts, inverted, i) /\ Current(disk.docs, disk.postings, i)
      BY DEF BmInv, AtRest, Resting, Quiet, Busy
  <2> QED BY <2>1, <2>2, HoldsWhat
<1> QED BY <1>1, BmInvariant, PTL

\* The number of chunks and the frequencies of tokens are exact (P0-1, P3-2,
\* bm25_index.py), for any number of threads, documents and tokens.
THEOREM StatisticsCorrect == Spec => []StatisticsExact
<1>1. BmInv => StatisticsExact
    BY DEF BmInv, StatisticsExact, CountExact, Counted
<1> QED BY <1>1, BmInvariant, PTL

-----------------------------------------------------------------------------
(* The trajectory log.                                                     *)

(* The trajectory log.  The bound on the file follows from one on its      *)
(* lines and the threads that may append together; that rotated files are  *)
(* kept follows from how far a rotation that is alone has moved them down. *)

Steps     == {"idle", "check", "append"} \cup Rotating
Appending == {t \in Tracers : tracer[t].step = "append"}
Rotators  == {t \in Tracers : tracer[t].step \in Rotating}

\* Numbers a thread works with fit what it is at.
Placed == \A t \in Tracers : /\ tracer[t].step # "idle" => tracer[t].line > 0
                             /\ tracer[t].step = "shift" => tracer[t].file > 0

\* Threads that have checked the size add no more than they may.
Room == Cardinality(active \ Absent) + Cardinality(Appending)
            <= FileSize + Cardinality(Tracers) - 1

\* The last closed files are in their places, ...
InPlace == \A i \in 1..KeepFiles : i <= Len(closed) => old[i] = closed[i]
\* ... or those after the first f have moved down by one.
Moved(f) ==
    \A i \in 1..KeepFiles : i <= Len(closed) =>
        /\ i <= f => old[i] = closed[i]
        /\ i > f /\ i < KeepFiles => old[i + 1] = closed[i]

Rotation(t) == /\ active # Absent /\ \A u \in Rotators : u = t
               /\ tracer[t].step = "unlink" => InPlace
               /\ tracer[t].step = "shift" => Moved(tracer[t].file)
               /\ tracer[t].step = "move" => Moved(0)

Alone == ~overlapped => /\ \A t \in Rotators : Rotation(t)
                        /\ Rotators = {} => InPlace

Typed == /\ TrajTypeOK /\ Placed /\ lines \in Nat
         /\ closed \in Seq(SUBSET Nat) /\ \A i \in 1..Len(closed) : closed[i] # Absent

TrajInv == Typed /\ Room /\ Alone

-----------------------------------------------------------------------------
(* Types.                                                                  *)

\* A file has finitely many lines.
LEMMA FiniteLines ==
  ASSUME NEW l \in Nat, NEW A, A \subseteq 0..l
  PROVE  IsFiniteSet(A) /\ IsFiniteSet(A \ Absent)
                        /\ Cardinality(A \ Absent) \in Nat /\ Cardinality(A) \in Nat
                        /\ Cardinality(A \ Absent) <= Cardinality(A)
<1>1. IsFiniteSet(0..l)
  BY FS_Interval
<1>2. IsFiniteSet(A)
  BY <1>1, FS_Subset
<1>3. IsFiniteSet(A \ Absent) /\ Cardinality(A \ Absent) <= Cardinality(A)
  BY <1>2, FS_Subset, A \ Absent \subseteq A
<1> QED
  BY <1>2, <1>3, FS_CardinalityType

\* The fields of a thread's record.
LEMMA TracerFields ==
  ASSUME Typed, NEW t \in Tracers
  PROVE  /\ tracer[t] \in [step : Steps, line : 0..lines, file : 0..(KeepFiles - 1)]
         /\ tracer[t].step \in Steps /\ tracer[t].line \in 0..lines
         /\ tracer[t].file \in 0..(KeepFiles - 1)
BY DEF Typed, TrajTypeOK, Steps

\* A thread that goes on keeps its record's type.
LEMMA TracerTyped ==
  ASSUME Typed, NEW t \in Tracers, NEW s \in Steps, NEW l \in 0..lines,
         NEW f \in 0..(KeepFiles - 1), lines' = lines,
         tracer' = [tracer EXCEPT ![t] = [step |-> s, line |-> l, file |-> f]]
  PROVE  tracer' \in [Tracers -> [step : Steps, line : 0..lines', file : 0..(KeepFiles - 1)]]
BY DEF Typed, TrajTypeOK, Steps

\* A rotation that goes on to file f.
LEMMA ContinueTyped ==
  ASSUME Typed, NEW t \in Tracers, NEW f \in 0..(KeepFiles - 1), Continue(t, f), lines' = lines
  PROVE  /\ tracer' \in [Tracers -> [step : Steps, line : 0..lines', file : 0..(KeepFiles - 1)]]
         /\ tracer'[t].step = IF f > 0 THEN "shift" ELSE "move"
         /\ tracer'[t].file = f /\ tracer'[t].line = tracer[t].line
         /\ \A u \in Tracers \ {t} : tracer'[u] = tracer[u]
<1> DEFINE next == IF f > 0 THEN "shift" ELSE "move"
<1>1. tracer' = [tracer EXCEPT ![t] = [step |-> next, line |-> tracer[t].line, file |-> f]]
  BY DEF Continue
<1>2. next \in Steps
  BY DEF Steps, Rotating
<1>3. tracer[t].line \in 0..lines
  BY TracerFields
<1> QED
  BY <1>1, <1>2, <1>3, TracerTyped DEF Typed, TrajTypeOK

\* A thread that goes on to another step with its numbers.
LEMMA StepTyped ==
  ASSUME Typed, NEW t \in Tracers, NEW s \in Steps, lines' = lines,
         tracer' = [tracer EXCEPT ![t].step = s]
  PROVE  /\ tracer' \in [Tracers -> [step : Steps, line : 0..lines', file : 0..(KeepFiles - 1)]]
         /\ tracer'[t].step = s
         /\ tracer'[t].file = tracer[t].file /\ tracer'[t].line = tracer[t].line
         /\ \A u \in Tracers \ {t} : tracer'[u] = tracer[u]
BY DEF Typed, TrajTypeOK, Steps

\* The types hold of the threads when one has changed.
LEMMA PlacedKept ==
  ASSUME Placed, NEW t \in Tracers, \A u \in Tracers \ {t} : tracer'[u] = tracer[u],
         tracer'[t].step # "idle" => tracer'[t].line > 0,
         tracer'[t].step = "shift" => tracer'[t].file > 0
  PROVE  Placed'
BY DEF Placed

\* What a step of the loop leaves in each place.
LEMMA ShiftedFiles ==
  ASSUME Typed, NEW f \in 1..(KeepFiles - 1)
  PROVE  /\ Shifted(f) \in [1..KeepFiles -> SUBSET (0..lines)]
         /\ old[f] # Absent => Shifted(f)[f + 1] = old[f]
         /\ \A i \in 1..KeepFiles : i \notin {f, f + 1} => Shifted(f)[i] = old[i]
<1> USE TrajSizes
<1>1. /\ old \in [1..KeepFiles -> SUBSET (0..lines)] /\ lines \in Nat
      /\ f \in 1..KeepFiles /\ f + 1 \in 1..KeepFiles
  BY DEF Typed, TrajTypeOK
<1>2. Absent \in SUBSET (0..lines) /\ old[f] \in SUBSET (0..lines)
  BY <1>1 DEF Absent
<1>3. CASE old[f] = Absent
  BY <1>1, <1>3 DEF Shifted
<1>4. CASE old[f] # Absent
  <2>1. Shifted(f) = [old EXCEPT ![f + 1] = old[f], ![f] = Absent]
    BY <1>4 DEF Shifted
  <2>2. Shifted(f) = [i \in 1..KeepFiles |-> IF i = f THEN Absent
                                             ELSE IF i = f + 1 THEN old[f] ELSE old[i]]
    BY <1>1, <2>1
  <2> QED
    BY <1>1, <1>2, <2>2
<1> QED
  BY <1>3, <1>4

\* Every step keeps the types.
LEMMA TypedStep ==
  ASSUME Typed, [TrajNext]_trajVars
  PROVE  Typed'
<1> USE TrajSizes
<1>1. /\ lines \in Nat /\ active \subseteq 0..lines
      /\ old \in [1..KeepFiles -> SUBSET (0..lines)]
      /\ Placed /\ closed \in Seq(SUBSET Nat) /\ \A i \in 1..Len(closed) : closed[i] # Absent
  BY DEF Typed, TrajTypeOK
<1>2. ASSUME NEW t \in Tracers, BeginLine(t)
      PROVE  Typed'
  <2>1. /\ lines' = lines + 1 /\ UNCHANGED <<active, old, closed>>
        /\ tracer' = [tracer EXCEPT ![t] = [step |-> "check", line |-> lines + 1, file |-> 0]]
    BY <1>2 DEF BeginLine
  <2>2. /\ tracer' \in [Tracers -> [step : Steps, line : 0..lines', file : 0..(KeepFiles - 1)]]
        /\ tracer'[t] = [step |-> "check", line |-> lines + 1, file |-> 0]
        /\ \A u \in Tracers \ {t} : tracer'[u] = tracer[u]
    BY <1>1, <2>1 DEF Typed, TrajTypeOK, Steps
  <2>3. Placed'
    BY <1>1, <2>2, PlacedKept
  <2>4. active' \subseteq 0..lines' /\ old' \in [1..KeepFiles -> SUBSET (0..lines')]
    BY <1>1, <2>1
  <2> QED
    BY <1>1, <2>1, <2>2, <2>3, <2>4 DEF Typed, TrajTypeOK, Steps
<1>3. ASSUME NEW t \in Tracers, CheckSize(t)
      PROVE  Typed'
  <2>1. /\ UNCHANGED <<active, old, lines, closed>> /\ tracer[t].step = "check"
        /\ tracer' = [tracer EXCEPT ![t].step = IF Full THEN "unlink" ELSE "append"]
    BY <1>3 DEF CheckSize
  <2>2. (IF Full THEN "unlink" ELSE "append") \in Steps \ {"idle", "shift"}
    BY DEF Steps, Rotating
  <2>3. /\ tracer' \in [Tracers -> [step : Steps, line : 0..lines', file : 0..(KeepFiles - 1)]]
        /\ tracer'[t].step \notin {"idle", "shift"} /\ tracer'[t].line = tracer[t].line
        /\ \A u \in Tracers \ {t} : tracer'[u] = tracer[u]
    BY <2>1, <2>2, StepTyped
  <2>4. tracer[t].line > 0
    BY <1>1, <2>1 DEF Placed
  <2>5. Placed'
    BY <1>1, <2>3, <2>4, PlacedKept
  <2> QED
    BY <1>1, <2>1, <2>3, <2>5 DEF Typed, TrajTypeOK, Steps
<1>4. ASSUME NEW t \in Tracers, Unlink(t)
      PROVE  Typed'
  <2>1. /\ UNCHANGED <<active, lines, closed>> /\ tracer[t].step = "unlink"
        /\ old' = [old EXCEPT ![KeepFiles] = Absent] /\ Continue(t, KeepFiles - 1)
    BY <1>4 DEF Unlink
  <2>2. KeepFiles - 1 \in 0..(KeepFiles - 1)
    OBVIOUS
  <2>3. /\ tracer' \in [Tracers -> [step : Steps, line : 0..lines', file : 0..(KeepFiles - 1)]]
        /\ tracer'[t].step = IF KeepFiles - 1 > 0 THEN "shift" ELSE "move"
        /\ tracer'[t].file = KeepFiles - 1 /\ tracer'[t].line = tracer[t].line
        /\ \A u \in Tracers \ {t} : tracer'[u] = tracer[u]
    BY <2>1, <2>2, ContinueTyped
  <2>4. tracer[t].line > 0
    BY <1>1, <2>1 DEF Placed
  <2>5. Placed'
    BY <1>1, <2>3, <2>4, PlacedKept
  <2>6. old' \in [1..KeepFiles -> SUBSET (0..lines')]
    BY <1>1, <2>1 DEF Absent
  <2> QED
    BY <1>1, <2>1, <2>3, <2>5, <2>6 DEF Typed, TrajTypeOK, Steps
<1>5. ASSUME NEW t \in Tracers, Shift(t)
      PROVE  Typed'
  <2> DEFINE f == tracer[t].file
  <2>1. /\ UNCHANGED <<active, lines, closed>> /\ tracer[t].step = "shift"
        /\ old' = Shifted(f) /\ Continue(t, f - 1)
    BY <1>5 DEF Shift
  <2>2. f \in 1..(KeepFiles - 1) /\ tracer[t].line > 0
    BY <1>1, <2>1, TracerFields DEF Placed
  <2>3. f - 1 \in 0..(KeepFiles - 1)
    BY <2>2
  <2>4. /\ tracer' \in [Tracers -> [step : Steps, line : 0..lines', file : 0..(KeepFiles - 1)]]
        /\ tracer'[t].step = IF f - 1 > 0 THEN "shift" ELSE "move"
        /\ tracer'[t].file = f - 1 /\ tracer'[t].line = tracer[t].line
        /\ \A u \in Tracers \ {t} : tracer'[u] = tracer[u]
    BY <2>1, <2>3, ContinueTyped
  <2>5. Placed'
    BY <1>1, <2>2, <2>4, PlacedKept
  <2>6. old' \in [1..KeepFiles -> SUBSET (0..lines')]
    BY <2>1, <2>2, ShiftedFiles
  <2> QED
    BY <1>1, <2>1, <2>4, <2>5, <2>6 DEF Typed, TrajTypeOK, Steps
<1>6. ASSUME NEW t \in Tracers, MoveActive(t)
      PROVE  Typed'
  <2>1. /\ UNCHANGED lines /\ tracer[t].step = "move"
        /\ tracer' = [tracer EXCEPT ![t].step = "append"]
    BY <1>6 DEF MoveActive
  <2>2. "append" \in Steps
    BY DEF Steps
  <2>3. /\ tracer' \in [Tracers -> [step : Steps, line : 0..lines', file : 0..(KeepFiles - 1)]]
        /\ tracer'[t].step = "append" /\ tracer'[t].line = tracer[t].line
        /\ \A u \in Tracers \ {t} : tracer'[u] = tracer[u]
    BY <2>1, <2>2, StepTyped
  <2>4. tracer[t].line > 0
    BY <1>1, <2>1 DEF Placed
  <2>5. Placed'
    BY <1>1, <2>3, <2>4, PlacedKept
  <2>6. CASE active = Absent
    <3>1. UNCHANGED <<active, old, closed>>
      BY <1>6, <2>6 DEF MoveActive
    <3> QED
      BY <1>1, <2>1, <2>3, <2>5, <3>1 DEF Typed, TrajTypeOK, Steps
  <2>7. CASE active # Absent
    <3>1. /\ old' = [old EXCEPT ![1] = active] /\ active' = Absent
          /\ closed' = <<active>> \o closed
      BY <1>6, <2>7 DEF MoveActive
    <3>2. old' \in [1..KeepFiles -> SUBSET (0..lines')] /\ active' \subseteq 0..lines'
      BY <1>1, <2>1, <3>1 DEF Absent
    <3>3. active \in SUBSET Nat
      BY <1>1
    <3>4. closed' \in Seq(SUBSET Nat) /\ \A i \in 1..Len(closed') : closed'[i] # Absent
      BY <1>1, <2>7, <3>1, <3>3
    <3> QED
      BY <1>1, <2>1, <2>3, <2>5, <3>2, <3>4 DEF Typed, TrajTypeOK, Steps
  <2> QED
    BY <2>6, <2>7
<1>7. ASSUME NEW t \in Tracers, AppendLine(t)
      PROVE  Typed'
  <2>1. /\ UNCHANGED <<old, lines, closed>> /\ tracer[t].step = "append"
        /\ active' = (active \ Absent) \cup {tracer[t].line}
        /\ tracer' = [tracer EXCEPT ![t].step = "idle"]
    BY <1>7 DEF AppendLine
  <2>2. "idle" \in Steps
    BY DEF Steps
  <2>3. /\ tracer' \in [Tracers -> [step : Steps, line : 0..lines', file : 0..(KeepFiles - 1)]]
        /\ tracer'[t].step = "idle"
        /\ \A u \in Tracers \ {t} : tracer'[u] = tracer[u]
    BY <2>1, <2>2, StepTyped
  <2>4. Placed'
    BY <1>1, <2>3, PlacedKept
  <2>5. active' \subseteq 0..lines'
    BY <1>1, <2>1, TracerFields
  <2> QED
    BY <1>1, <2>1, <2>3, <2>4, <2>5 DEF Typed, TrajTypeOK, Steps
<1>8. CASE UNCHANGED trajVars
  BY <1>8 DEF trajVars, Typed, TrajTypeOK, Placed
<1> QED
  BY <1>2, <1>3, <1>4, <1>5, <1>6, <1>7, <1>8 DEF TrajNext

-----------------------------------------------------------------------------
(* The size of the file.                                                   *)

\* Counting the threads that may append.
LEMMA AppendingCount ==
  /\ IsFiniteSet(Appending) /\ Cardinality(Appending) \in Nat
  /\ Cardinality(Tracers) \in Nat /\ Cardinality(Appending) <= Cardinality(Tracers)
BY TrajSizes, FS_Subset, FS_CardinalityType, Appending \subseteq Tracers DEF Appending

\* They are the same when a thread that moves neither may nor could.
LEMMA AppendingSame ==
  ASSUME NEW t \in Tracers, tracer[t].step # "append", tracer'[t].step # "append",
         \A u \in Tracers \ {t} : tracer'[u] = tracer[u]
  PROVE  Appending' = Appending
BY DEF Appending

\* With fewer lines than the cap there is room for every thread.
LEMMA Roomy ==
  ASSUME Typed', Cardinality((active \ Absent)') <= FileSize - 1
  PROVE  Room'
<1>1. Cardinality(Appending)' <= Cardinality(Tracers)
      /\ Cardinality(Appending)' \in Nat /\ Cardinality(Tracers) \in Nat
  <2>1. Appending' \subseteq Tracers
    BY DEF Appending
  <2> QED
    BY <2>1, TrajSizes, FS_Subset, FS_CardinalityType
<1>2. Cardinality(active \ Absent)' \in Nat
  <2>1. lines' \in Nat /\ active' \subseteq 0..lines'
    BY DEF Typed, TrajTypeOK
  <2> QED
    BY <2>1, FiniteLines DEF Absent
<1> QED
  BY <1>1, <1>2, TrajSizes DEF Room

\* Every step leaves room for the threads that may append.
LEMMA RoomStep ==
  ASSUME Typed, Room, [TrajNext]_trajVars, Typed'
  PROVE  Room'
<1> USE TrajSizes
<1>0. /\ Cardinality(active \ Absent) \in Nat /\ Cardinality(active) \in Nat
      /\ IsFiniteSet(active \ Absent)
      /\ Cardinality(active \ Absent) <= Cardinality(active)
  BY FiniteLines DEF Typed, TrajTypeOK
<1>1. Cardinality(Absent \ Absent) = 0
  BY FS_EmptySet
<1>2. ASSUME NEW t \in Tracers, UNCHANGED active, tracer[t].step # "append",
             tracer'[t].step # "append", \A u \in Tracers \ {t} : tracer'[u] = tracer[u]
      PROVE  Room'
  BY <1>2, AppendingSame DEF Room
<1>3. ASSUME NEW t \in Tracers, BeginLine(t)
      PROVE  Room'
  BY <1>2, <1>3 DEF BeginLine, Typed, TrajTypeOK
<1>4. ASSUME NEW t \in Tracers, CheckSize(t)
      PROVE  Room'
  <2>1. /\ UNCHANGED <<active, lines>> /\ tracer[t].step = "check"
        /\ tracer' = [tracer EXCEPT ![t].step = IF Full THEN "unlink" ELSE "append"]
    BY <1>4 DEF CheckSize
  <2>2. CASE Full
    <3>1. tracer' = [tracer EXCEPT ![t].step = "unlink"]
      BY <2>1, <2>2
    <3> QED
      BY <1>2, <2>1, <3>1 DEF Typed, TrajTypeOK
  <2>3. CASE ~Full
    <3>1. Cardinality(active \ Absent) <= FileSize - 1
      BY <1>0, <1>1, <2>3 DEF Full
    <3> QED
      BY <2>1, <3>1, Roomy
  <2> QED
    BY <2>2, <2>3
<1>5. ASSUME NEW t \in Tracers, NEW f \in 0..(KeepFiles - 1), Continue(t, f),
             UNCHANGED <<active, lines>>, tracer[t].step # "append"
      PROVE  Room'
  <2>1. tracer'[t].step # "append" /\ \A u \in Tracers \ {t} : tracer'[u] = tracer[u]
    BY <1>5, ContinueTyped
  <2> QED
    BY <1>2, <1>5, <2>1
<1>6. ASSUME NEW t \in Tracers, Unlink(t)
      PROVE  Room'
  BY <1>5, <1>6 DEF Unlink
<1>7. ASSUME NEW t \in Tracers, Shift(t)
      PROVE  Room'
  <2>1. tracer[t].file - 1 \in 0..(KeepFiles - 1)
    BY <1>7, TracerFields DEF Typed, Placed, Shift
  <2> QED
    BY <1>5, <1>7, <2>1 DEF Shift
<1>8. ASSUME NEW t \in Tracers, MoveActive(t)
      PROVE  Room'
  <2>1. active' = Absent
    BY <1>8 DEF MoveActive
  <2> QED
    BY <1>1, <2>1, Roomy DEF Absent
<1>9. ASSUME NEW t \in Tracers, AppendLine(t)
      PROVE  Room'
  <2>1. /\ tracer[t].step = "append" /\ active' = (active \ Absent) \cup {tracer[t].line}
        /\ tracer' = [tracer EXCEPT ![t].step = "idle"] /\ UNCHANGED lines
    BY <1>9 DEF AppendLine
  <2>2. tracer[t].line > 0 /\ tracer[t].line \in Nat
    BY <2>1, TracerFields DEF Typed, Placed
  <2>3. (active \ Absent)' = (active \ Absent) \cup {tracer[t].line}
    BY <2>1, <2>2 DEF Absent
  <2>4. Cardinality((active \ Absent)') <= Cardinality(active \ Absent) + 1
        /\ Cardinality((active \ Absent)') \in Nat
    <3>1. \/ Cardinality((active \ Absent)') = Cardinality(active \ Absent)
          \/ Cardinality((active \ Absent)') = Cardinality(active \ Absent) + 1
      BY <1>0, <2>3, FS_AddElement
    <3> QED
      BY <1>0, <3>1
  <2>5. "idle" \in Steps
    BY DEF Steps
  <2>6. Appending' = Appending \ {t} /\ t \in Appending
    BY <2>1, <2>5, StepTyped DEF Appending
  <2>7. Cardinality(Appending') = Cardinality(Appending) - 1
    BY <2>6, AppendingCount, FS_RemoveElement
  <2> QED
    BY <1>0, <2>4, <2>7, AppendingCount DEF Room
<1>10. CASE UNCHANGED trajVars
  BY <1>10 DEF trajVars, Room, Appending
<1> QED
  BY <1>3, <1>4, <1>6, <1>7, <1>8, <1>9, <1>10 DEF TrajNext

-----------------------------------------------------------------------------
(* The order of the files.                                                 *)

\* The threads that rotate, when one moves.
LEMMA RotatorsMoved ==
  ASSUME NEW t \in Tracers, \A u \in Tracers \ {t} : tracer'[u] = tracer[u]
  PROVE  /\ tracer'[t].step \in Rotating => Rotators' = Rotators \cup {t}
         /\ tracer'[t].step \notin Rotating => Rotators' = Rotators \ {t}
BY DEF Rotators

\* A thread that does not rotate changes nothing of a rotation.
LEMMA AloneKept ==
  ASSUME Alone, NEW t \in Tracers, UNCHANGED <<old, closed>>, ~overlapped' => ~overlapped,
         active # Absent => active' # Absent,
         tracer[t].step \notin Rotating, tracer'[t].step \notin Rotating,
         \A u \in Tracers \ {t} : tracer'[u] = tracer[u]
  PROVE  Alone'
<1>1. Rotators' = Rotators /\ t \notin Rotators
  BY RotatorsMoved DEF Rotators
<1>2. InPlace' = InPlace /\ \A f : Moved(f)' = Moved(f)
  BY DEF InPlace, Moved
<1>3. \A u \in Rotators : u \in Tracers /\ tracer'[u] = tracer[u]
  BY <1>1 DEF Rotators
<1> QED
  BY <1>1, <1>2, <1>3 DEF Alone, Rotation

\* A step of a thread that rotates alone.
LEMMA AloneRotation ==
  ASSUME Typed, Alone, ~overlapped, NEW t \in Tracers, tracer[t].step \in Rotating,
         tracer'[t].step \in Rotating, active' = active,
         \A u \in Tracers \ {t} : tracer'[u] = tracer[u],
         tracer'[t].step \in {"shift", "move"}, NEW f, tracer'[t].file = f,
         tracer'[t].step = "shift" => Moved(f)',
         tracer'[t].step = "move" => Moved(0)'
  PROVE  Alone'
<1>1. t \in Rotators /\ Rotators = {t}
  BY DEF Alone, Rotation, Rotators
<1>2. Rotators' = {t} /\ active # Absent
  BY <1>1, RotatorsMoved DEF Alone, Rotation
<1>3. Rotation(t)'
  <2>1. tracer'[t].step = "shift" => Moved(tracer[t].file)'
    BY DEF Moved
  <2>2. active' # Absent /\ \A u \in Rotators' : u = t
    BY <1>2
  <2> QED
    BY <2>1, <2>2 DEF Rotation
<1> QED
  BY <1>2, <1>3 DEF Alone

\* Every step keeps the files in order, unless two threads rotate at once.
LEMMA AloneStep ==
  ASSUME Typed, Alone, [TrajNext]_trajVars
  PROVE  Alone'
<1> USE TrajSizes
<1>0. /\ old \in [1..KeepFiles -> SUBSET (0..lines)] /\ closed \in Seq(SUBSET Nat)
      /\ lines \in Nat /\ Len(closed) \in Nat /\ Placed
      /\ \A i \in 1..Len(closed) : closed[i] # Absent
  BY DEF Typed, TrajTypeOK
<1>1. ASSUME NEW t \in Tracers, BeginLine(t)
      PROVE  Alone'
  <2>1. /\ tracer[t].step \notin Rotating /\ UNCHANGED <<active, old, closed, overlapped>>
        /\ tracer'[t].step \notin Rotating /\ \A u \in Tracers \ {t} : tracer'[u] = tracer[u]
    BY <1>1 DEF BeginLine, Rotating, Typed, TrajTypeOK
  <2> QED
    BY <2>1, AloneKept
<1>2. ASSUME NEW t \in Tracers, CheckSize(t)
      PROVE  Alone'
  <2>1. /\ UNCHANGED <<active, old, lines, closed>> /\ tracer[t].step = "check"
        /\ tracer' = [tracer EXCEPT ![t].step = IF Full THEN "unlink" ELSE "append"]
        /\ overlapped' = (overlapped \/ (Full /\ \E u \in Tracers : tracer[u].step \in Rotating))
    BY <1>2 DEF CheckSize
  <2>2. CASE Full
    <3>1. /\ tracer'[t].step = "unlink" /\ \A u \in Tracers \ {t} : tracer'[u] = tracer[u]
          /\ active # Absent
      BY <2>1, <2>2 DEF Full, Typed, TrajTypeOK
    <3>2. Rotators' = Rotators \cup {t}
      BY <3>1, RotatorsMoved DEF Rotating
    <3>3. SUFFICES ASSUME ~overlapped'
                   PROVE  Rotators = {} /\ InPlace
      BY <2>1, <3>1, <3>2, <3>3 DEF Alone, Rotation, InPlace
    <3>4. ~overlapped /\ Rotators = {}
      BY <2>1, <2>2, <3>3 DEF Rotators
    <3> QED
      BY <3>4 DEF Alone
  <2>3. CASE ~Full
    <3>1. /\ tracer'[t].step = "append" /\ \A u \in Tracers \ {t} : tracer'[u] = tracer[u]
      BY <2>1, <2>3 DEF Typed, TrajTypeOK
    <3> QED
      BY <2>1, <3>1, AloneKept DEF Rotating
  <2> QED
    BY <2>2, <2>3
<1>3. ASSUME NEW t \in Tracers, Unlink(t)
      PROVE  Alone'
  <2>1. /\ UNCHANGED <<active, lines, closed, overlapped>> /\ tracer[t].step = "unlink"
        /\ old' = [old EXCEPT ![KeepFiles] = Absent] /\ Continue(t, KeepFiles - 1)
    BY <1>3 DEF Unlink
  <2> SUFFICES ASSUME ~overlapped
               PROVE  Alone'
    BY <2>1 DEF Alone
  <2>2. /\ tracer'[t].step = IF KeepFiles - 1 > 0 THEN "shift" ELSE "move"
        /\ tracer'[t].file = KeepFiles - 1
        /\ \A u \in Tracers \ {t} : tracer'[u] = tracer[u]
    BY <2>1, ContinueTyped
  <2>3. InPlace
    BY <2>1 DEF Alone, Rotation, Rotators, Rotating
  <2>4. Moved(KeepFiles - 1)'
    BY <1>0, <2>1, <2>3 DEF InPlace, Moved
  <2>5. tracer'[t].step = "move" => KeepFiles - 1 = 0
    BY <2>2
  <2> QED
    BY <2>1, <2>2, <2>4, <2>5, AloneRotation DEF Rotating
<1>4. ASSUME NEW t \in Tracers, Shift(t)
      PROVE  Alone'
  <2>0. PICK f : f = tracer[t].file
    OBVIOUS
  <2>1. /\ UNCHANGED <<active, lines, closed, overlapped>> /\ tracer[t].step = "shift"
        /\ old' = Shifted(f) /\ Continue(t, f - 1)
    BY <1>4, <2>0 DEF Shift
  <2> SUFFICES ASSUME ~overlapped
               PROVE  Alone'
    BY <2>1 DEF Alone
  <2>2. f \in 1..(KeepFiles - 1)
    BY <1>0, <2>0, <2>1, TracerFields DEF Placed
  <2>3. /\ tracer'[t].step = IF f - 1 > 0 THEN "shift" ELSE "move"
        /\ tracer'[t].file = f - 1
        /\ \A u \in Tracers \ {t} : tracer'[u] = tracer[u]
    <3>1. f - 1 \in 0..(KeepFiles - 1)
      BY <2>2
    <3> QED
      BY <2>1, <3>1, ContinueTyped
  <2>4. Moved(f)
    BY <2>0, <2>1 DEF Alone, Rotation, Rotators, Rotating
  <2>5. /\ old[f] # Absent => old'[f + 1] = old[f]
        /\ \A i \in 1..KeepFiles : i \notin {f, f + 1} => old'[i] = old[i]
    BY <2>1, <2>2, ShiftedFiles
  <2>6. ASSUME NEW i \in 1..KeepFiles, i <= Len(closed)
        PROVE  /\ i <= f - 1 => old'[i] = closed[i]
               /\ i > f - 1 /\ i < KeepFiles => old'[i + 1] = closed[i]
    <3>1. CASE i <= f - 1
      <4>1. i <= f /\ i \notin {f, f + 1} /\ ~(i > f - 1)
        BY <2>2, <3>1
      <4>2. old[i] = closed[i] /\ old'[i] = old[i]
        BY <2>4, <2>5, <2>6, <4>1 DEF Moved
      <4> QED
        BY <4>1, <4>2
    <3>2. CASE i = f
      <4>1. old[f] = closed[f] /\ closed[f] # Absent
        BY <1>0, <2>2, <2>4, <2>6, <3>2 DEF Moved
      <4> QED
        BY <2>2, <2>5, <3>2, <4>1
    <3>3. CASE i > f
      <4>1. i < KeepFiles => i + 1 \in 1..KeepFiles /\ i + 1 \notin {f, f + 1}
        BY <2>2, <3>3
      <4> QED
        BY <2>2, <2>4, <2>5, <2>6, <3>3, <4>1 DEF Moved
    <3> QED
      BY <2>2, <3>1, <3>2, <3>3
  <2>7. Moved(f - 1)'
    BY <2>1, <2>6 DEF Moved
  <2>8. tracer'[t].step = "move" => f - 1 = 0
    BY <2>2, <2>3
  <2> QED
    BY <2>1, <2>3, <2>7, <2>8, AloneRotation DEF Rotating
<1>5. ASSUME NEW t \in Tracers, MoveActive(t)
      PROVE  Alone'
  <2>1. /\ UNCHANGED <<lines, overlapped>> /\ tracer[t].step = "move"
        /\ tracer' = [tracer EXCEPT ![t].step = "append"]
    BY <1>5 DEF MoveActive
  <2> SUFFICES ASSUME ~overlapped
               PROVE  Alone'
    BY <2>1 DEF Alone
  <2>2. Rotation(t) /\ Moved(0) /\ active # Absent /\ Rotators = {t}
    BY <2>1 DEF Alone, Rotation, Rotators, Rotating
  <2>3. /\ old' = [old EXCEPT ![1] = active] /\ closed' = <<active>> \o closed
    BY <1>5, <2>2 DEF MoveActive
  <2>4. Rotators' = {}
    <3>1. tracer'[t].step \notin Rotating /\ \A u \in Tracers \ {t} : tracer'[u] = tracer[u]
      BY <2>1 DEF Typed, TrajTypeOK, Rotating
    <3> QED
      BY <2>2, <3>1, RotatorsMoved
  <2>5. active \in SUBSET Nat
    BY DEF Typed, TrajTypeOK
  <2>6. ASSUME NEW i \in 1..KeepFiles, i <= Len(closed')
        PROVE  old'[i] = closed'[i]
    <3>1. CASE i = 1
      BY <1>0, <2>3, <2>5, <3>1
    <3>2. CASE i > 1
      <4>1. /\ i - 1 \in 1..KeepFiles /\ i - 1 <= Len(closed) /\ i - 1 < KeepFiles
            /\ closed'[i] = closed[i - 1] /\ old'[i] = old[i]
        BY <1>0, <2>3, <2>5, <2>6, <3>2
      <4>2. old[(i - 1) + 1] = closed[i - 1]
        BY <2>2, <4>1 DEF Moved
      <4>3. (i - 1) + 1 = i
        OBVIOUS
      <4> QED
        BY <4>1, <4>2, <4>3
    <3> QED
      BY <3>1, <3>2
  <2> QED
    BY <2>4, <2>6 DEF Alone, InPlace
<1>6. ASSUME NEW t \in Tracers, AppendLine(t)
      PROVE  Alone'
  <2>1. /\ UNCHANGED <<old, lines, closed, overlapped>> /\ tracer[t].step = "append"
        /\ active' = (active \ Absent) \cup {tracer[t].line}
        /\ tracer' = [tracer EXCEPT ![t].step = "idle"]
    BY <1>6 DEF AppendLine
  <2>2. tracer'[t].step = "idle" /\ \A u \in Tracers \ {t} : tracer'[u] = tracer[u]
    BY <2>1 DEF Typed, TrajTypeOK
  <2>3. active' # Absent
    <3>1. tracer[t].line > 0 /\ tracer[t].line \in Nat
      BY <1>0, <2>1, TracerFields DEF Placed
    <3> QED
      BY <2>1, <3>1 DEF Absent
  <2> QED
    BY <2>1, <2>2, <2>3, AloneKept DEF Rotating
<1>7. CASE UNCHANGED trajVars
  BY <1>7 DEF trajVars, Alone, Rotation, Rotators, InPlace, Moved
<1> QED
  BY <1>1, <1>2, <1>3, <1>4, <1>5, <1>6, <1>7 DEF TrajNext

-----------------------------------------------------------------------------
(* Theorems.                                                               *)

\* The invariant holds at first.
LEMMA InvInit == TrajInit => TrajInv
<1> USE TrajSizes
<1> SUFFICES ASSUME TrajInit
             PROVE  TrajInv
  OBVIOUS
<1>1. /\ active = Absent /\ old = [i \in 1..KeepFiles |-> Absent] /\ lines = 0 /\ closed = <<>>
      /\ tracer = [t \in Tracers |-> [step |-> "idle", line |-> 0, file |-> 0]]
  BY DEF TrajInit
<1>2. Appending = {} /\ Rotators = {}
  BY <1>1 DEF Appending, Rotators, Rotating
<1>3. Typed
  BY <1>1 DEF Typed, TrajTypeOK, Placed, Absent, Rotating
<1>4. Room
  <2>1. Cardinality(active \ Absent) = 0 /\ Cardinality(Appending) = 0
    BY <1>1, <1>2, FS_EmptySet, Absent \ Absent = {}
  <2> QED
    BY <2>1, AppendingCount DEF Room
<1>5. Alone
  BY <1>1, <1>2 DEF Alone, InPlace
<1> QED
  BY <1>3, <1>4, <1>5 DEF TrajInv

\* The invariant holds of every state.
THEOREM TrajInvariant == TrajSpec => []TrajInv
<1>1. TrajInv /\ [TrajNext]_trajVars => TrajInv'
  BY TypedStep, RoomStep, AloneStep DEF TrajInv
<1> QED
  BY <1>1, InvInit, PTL DEF TrajSpec

\* The first files among those kept and those rotated out.
LEMMA FilesKept ==
  ASSUME NEW n \in Nat, NEW i \in 1..Min({KeepFiles, n})
  PROVE  i \in 1..KeepFiles /\ i <= n
<1>1. /\ KeepFiles <= n => Min({KeepFiles, n}) = KeepFiles
      /\ n < KeepFiles => Min({KeepFiles, n}) = n
  BY TrajSizes DEF Min
<1> QED
  BY <1>1, TrajSizes

\* The file stays within its cap but for the lines of threads that had checked
\* before another one filled it, and the last files rotated out stay in order
\* unless two threads have rotated at once (_maybe_rotate, write).
THEOREM TrajectorySound == TrajSpec => []TrajectorySafe
<1>1. TrajInv => TrajectorySafe
  <2> SUFFICES ASSUME TrajInv
               PROVE  TrajectorySafe
    OBVIOUS
  <2>1. TrajTypeOK
    BY DEF TrajInv, Typed
  <2>2. ActiveBounded
    <3>1. Cardinality(active \ Absent) \in Nat
      BY FiniteLines DEF TrajInv, Typed, TrajTypeOK
    <3> QED
      BY <3>1, AppendingCount, TrajSizes DEF TrajInv, Room, ActiveBounded
  <2>3. RotatedKept
    <3> SUFFICES ASSUME ~overlapped, \A t \in Tracers : tracer[t].step \notin Rotating,
                        NEW i \in 1..Min({KeepFiles, Len(closed)})
                 PROVE  old[i] = closed[i]
      BY DEF RotatedKept
    <3>1. InPlace
      BY DEF TrajInv, Alone, Rotators
    <3>2. Len(closed) \in Nat
      BY DEF TrajInv, Typed
    <3> QED
      BY <3>1, <3>2, FilesKept DEF InPlace
  <2> QED
    BY <2>1, <2>2, <2>3 DEF TrajectorySafe
<1> QED
  BY <1>1, TrajInvariant, PTL

-----------------------------------------------------------------------------
(* The lesson corpus.                                                      *)

Requests == [at : {"off", "drop", "list", "done"}, brings : SUBSET Lessons, left : SUBSET Lessons]

\* Without an overlap one ingest runs, ...
Lone == ~concurrent => \A r, q \in Running : r = q
\* ... and what it has removed is there once for each removal that was ignored.
Removed == ~concurrent => \A r \in Running : ingest[r].at = "drop" =>
               \A l \in ingest[r].brings \ ingest[r].left : copies[l] <= lessonFails

\* A lesson of the sidecar, or of an ingest that has added it, is stored unless
\* it was lost or an ingest is about to add it.
Vouched == corpus \cup UNION {ingest[r].brings : r \in {q \in Ingests : ingest[q].at = "list"}}
ToCome  == UNION {ingest[r].brings : r \in {q \in Ingests : ingest[q].at = "drop"}}
Served  == \A l \in Vouched : copies[l] >= 1 \/ l \in lost \/ l \in ToCome

LesInv == /\ LesTypeOK /\ ingest \in [Ingests -> Requests]
          /\ Lone /\ LessonsOnce /\ Removed /\ Served

LEMMA LesInitInv == LesInit => LesInv
<1> SUFFICES ASSUME LesInit PROVE LesInv
    OBVIOUS
<1> USE DEF LesInit
<1>1. \A r \in Ingests : ingest[r] = Off
    OBVIOUS
<1>2. Off \in Requests
    BY DEF Off, Requests
<1>3. ingest \in [Ingests -> Requests]
    BY <1>2
<1>4. Off.left = {}
    BY DEF Off
<1>5. LesTypeOK
  <2>1. copies \in [Lessons -> Nat]
      OBVIOUS
  <2>2. \A r \in Ingests : ingest[r].left \subseteq ingest[r].brings
      BY <1>1, <1>4
  <2>3. MaxLessonFails \in Nat /\ lessonFails = 0
      BY LessonAssumption
  <2>4. lessonFails \in 0..MaxLessonFails
      BY ONLY <2>3
  <2> QED BY <2>1, <2>2, <2>4 DEF LesTypeOK, NoCorpus
<1>6. Running = {} /\ Vouched = {}
    BY <1>1 DEF Running, Vouched, NoCorpus, Off
<1>7. Lone /\ Removed /\ Served
    BY <1>6 DEF Lone, Removed, Served
<1>8. LessonsOnce
    BY DEF LessonsOnce
<1> QED BY <1>3, <1>5, <1>7, <1>8 DEF LesInv

LEMMA LesStep == LesInv /\ [LesNext]_lesVars => LesInv'
<1> SUFFICES ASSUME LesInv, [LesNext]_lesVars PROVE LesInv'
    OBVIOUS
<1> USE DEF LesInv
<1>1. ASSUME NEW r \in Ingests, BeginIngest(r) PROVE LesInv'
  <2>1. PICK c \in Corpora : /\ Goes(r, "off", [at |-> "drop", brings |-> c, left |-> c])
                             /\ concurrent' = (concurrent \/ Running # {})
                             /\ UNCHANGED <<copies, catalogued, corpus, lessonFails, lost>>
      BY <1>1 DEF BeginIngest
  <2>2. c \subseteq Lessons
      BY LessonAssumption
  <2> DEFINE q == [at |-> "drop", brings |-> c, left |-> c]
  <2>3. /\ ingest[r].at = "off" /\ ingest' = [ingest EXCEPT ![r] = q]
        /\ q \in Requests
      BY <2>1, <2>2 DEF Goes, Requests
  <2>4. q.at = "drop" /\ q.brings = c /\ q.left = c
      OBVIOUS
  <2> HIDE DEF q
  <2>5. ingest' \in [Ingests -> Requests] /\ LesTypeOK'
      BY <2>1, <2>3, <2>4 DEF LesTypeOK
  <2>6. Running' = Running \cup {r}
      BY <2>3, <2>4 DEF Running
  <2>7. Lone' /\ LessonsOnce'
      BY <2>1, <2>6 DEF Lone, LessonsOnce
  <2>8. Removed'
      BY <2>1, <2>3, <2>4, <2>6 DEF Removed
  <2>9. Vouched' \subseteq Vouched /\ ToCome \subseteq ToCome'
      BY <2>1, <2>3, <2>4 DEF Vouched, ToCome
  <2> QED BY <2>1, <2>5, <2>7, <2>8, <2>9 DEF Served
<1>2. ASSUME NEW r \in Ingests, DropLesson(r) PROVE LesInv'
  <2>1. PICK l \in ingest[r].left :
            /\ Goes(r, "drop", [ingest[r] EXCEPT !.left = @ \ {l}])
            /\ \/ copies' = Dropped(l) /\ UNCHANGED lessonFails
               \/ LessonFail /\ UNCHANGED copies
            /\ UNCHANGED <<catalogued, corpus, concurrent, lost>>
      BY <1>2 DEF DropLesson
  <2>2. l \in Lessons /\ l \in ingest[r].brings
      BY DEF LesTypeOK, Requests
  <2> DEFINE q == [ingest[r] EXCEPT !.left = @ \ {l}]
  <2>3. /\ ingest[r].at = "drop" /\ ingest' = [ingest EXCEPT ![r] = q]
        /\ q \in Requests
      BY <2>1 DEF Goes, Requests
  <2>4. q.at = "drop" /\ q.brings = ingest[r].brings /\ q.left = ingest[r].left \ {l}
      BY <2>3 DEF Requests
  <2> HIDE DEF q
  <2>5. \/ copies' = [copies EXCEPT ![l] = 0] /\ lessonFails' = lessonFails
        \/ copies' = copies /\ lessonFails' = lessonFails + 1 /\ lessonFails < MaxLessonFails
      BY <2>1 DEF Dropped, LessonFail
  <2>6. ingest' \in [Ingests -> Requests] /\ LesTypeOK'
      BY <2>1, <2>3, <2>4, <2>5, LessonAssumption DEF LesTypeOK
  <2>7. Running' = Running /\ r \in Running
      BY <2>3, <2>4 DEF Running
  <2>8. Lone'
      BY <2>1, <2>7 DEF Lone
  <2>9. /\ copies \in [Lessons -> Nat] /\ lessonFails \in Nat
        /\ \A k \in Lessons : copies'[k] = IF k = l /\ copies' # copies THEN 0 ELSE copies[k]
      BY <2>5 DEF LesTypeOK
  <2>10. LessonsOnce'
      BY <2>1, <2>5, <2>9 DEF LessonsOnce
  <2>11. Removed'
    <3> SUFFICES ASSUME ~concurrent, NEW s \in Running, ingest'[s].at = "drop",
                        NEW k \in ingest'[s].brings \ ingest'[s].left
                 PROVE  copies'[k] <= lessonFails'
        BY <2>1, <2>7 DEF Removed
    <3>1. s = r /\ k \in Lessons
        BY <2>2, <2>3, <2>4, <2>6, <2>7 DEF Lone, Running, Requests
    <3>2. k = l \/ k \in ingest[r].brings \ ingest[r].left
        BY <2>3, <2>4, <3>1
    <3>3. CASE k = l
        BY <2>5, <2>9, <3>1, <3>3 DEF LessonsOnce
    <3>4. CASE k # l
      <4>1. copies[k] <= lessonFails
          BY <2>3, <2>7, <3>2, <3>4 DEF Removed
      <4> QED BY <4>1, <2>5, <2>9, <3>1, <3>4
    <3> QED BY <3>3, <3>4
  <2>12. Vouched' = Vouched /\ ToCome' = ToCome
      BY <2>1, <2>3, <2>4 DEF Vouched, ToCome
  <2>13. l \in ToCome
      BY <2>2, <2>3 DEF ToCome
  <2>14. Vouched \subseteq Lessons
      BY DEF Vouched, LesTypeOK, Requests
  <2>15. Served'
      BY <2>1, <2>9, <2>12, <2>13, <2>14 DEF Served
  <2> QED BY <2>6, <2>8, <2>10, <2>11, <2>15
<1>3. ASSUME NEW r \in Ingests, AddLessons(r) PROVE LesInv'
  <2> DEFINE c == ingest[r].brings
             added == [l \in Lessons |-> IF l \in c THEN copies[l] + 1 ELSE copies[l]]
  <2>1. /\ ingest[r].left = {} /\ c \subseteq Lessons /\ ingest[r].at = "drop"
        /\ UNCHANGED <<catalogued, corpus, concurrent>>
        /\ copies \in [Lessons -> Nat] /\ lessonFails \in Nat
      BY <1>3 DEF AddLessons, Requests, LesTypeOK, Goes
  <2>2. /\ added \in [Lessons -> Nat]
        /\ \A l \in Lessons : added[l] = IF l \in c THEN copies[l] + 1 ELSE copies[l]
      BY <2>1
  <2>3. ~concurrent => \A l \in Lessons : added[l] <= 1 + lessonFails
    <3> SUFFICES ASSUME ~concurrent, NEW l \in Lessons PROVE added[l] <= 1 + lessonFails
        OBVIOUS
    <3>1. copies[l] <= 1 + lessonFails
        BY DEF LessonsOnce
    <3>2. CASE l \in c
      <4>1. r \in Running
          BY <2>1 DEF Running
      <4>2. copies[l] <= lessonFails
          BY <4>1, <2>1, <3>2 DEF Removed
      <4> QED BY <4>2, <2>1, <2>2, <3>2
    <3>3. CASE l \notin c
        BY <3>1, <3>3, <2>2
    <3> QED BY <3>2, <3>3
  <2>4. CASE /\ Goes(r, "drop", [ingest[r] EXCEPT !.at = "list", !.left = c])
             /\ copies' = added /\ UNCHANGED <<lessonFails, lost>>
    <3> DEFINE q == [ingest[r] EXCEPT !.at = "list", !.left = c]
    <3>1. ingest' = [ingest EXCEPT ![r] = q] /\ q \in Requests
        BY <2>1, <2>4 DEF Goes, Requests
    <3>2. q.at = "list" /\ q.brings = c /\ q.left = c
        BY DEF Requests
    <3>3. copies' = added
        BY <2>4
    <3> HIDE DEF q, added
    <3>4. ingest' \in [Ingests -> Requests] /\ LesTypeOK'
        BY <2>1, <2>2, <2>4, <3>1, <3>2, <3>3 DEF LesTypeOK
    <3>5. Running' = Running
        BY <2>1, <3>1, <3>2 DEF Running
    <3>6. Lone' /\ LessonsOnce'
        BY <2>1, <2>3, <2>4, <3>3, <3>5 DEF Lone, LessonsOnce
    <3>7. Removed'
      <4>1. ~concurrent => \A s \in Running : s = r
          BY <2>1 DEF Lone, Running
      <4> QED BY <2>1, <4>1, <3>1, <3>2, <3>5 DEF Removed, Running
    <3>8. Vouched' \subseteq Vouched \cup c /\ ToCome \subseteq ToCome' \cup c
        BY <2>1, <3>1, <3>2 DEF Vouched, ToCome
    <3>9. \A l \in Lessons : copies'[l] >= copies[l] /\ (l \in c => copies'[l] >= 1)
        BY <2>1, <2>2, <3>3
    <3>10. Vouched \cup c \subseteq Lessons /\ lost' = lost
        BY <2>1, <2>4 DEF Vouched, LesTypeOK, Requests
    <3>11. Served'
      <4> SUFFICES ASSUME NEW l \in Vouched'
                   PROVE  copies'[l] >= 1 \/ l \in lost' \/ l \in ToCome'
          BY DEF Served
      <4>1. l \in Lessons /\ copies[l] \in Nat /\ copies'[l] \in Nat
          BY <3>8, <3>10, <2>1, <2>2, <3>3
      <4>2. CASE l \in c
          BY <4>1, <4>2, <3>9
      <4>3. CASE l \notin c
        <5>1. copies[l] >= 1 \/ l \in lost \/ l \in ToCome
            BY <4>3, <3>8 DEF Served
        <5> QED BY <5>1, <4>1, <4>3, <3>8, <3>9, <3>10
      <4> QED BY <4>2, <4>3
    <3> QED BY <3>4, <3>6, <3>7, <3>11
  <2>5. CASE /\ Goes(r, "drop", [ingest[r] EXCEPT !.at = "done"])
             /\ LessonFail /\ copies' \in {copies, added} /\ lost' = lost \cup c
    <3> DEFINE q == [ingest[r] EXCEPT !.at = "done"]
    <3>1. ingest' = [ingest EXCEPT ![r] = q] /\ q \in Requests
        BY <2>1, <2>5 DEF Goes, Requests
    <3>2. q.at = "done" /\ q.brings = c /\ q.left = {}
        BY <2>1 DEF Requests
    <3>3. /\ copies' \in {copies, added} /\ lost' = lost \cup c
          /\ lessonFails' = lessonFails + 1 /\ lessonFails < MaxLessonFails
        BY <2>5 DEF LessonFail
    <3> HIDE DEF q, added
    <3>4. ingest' \in [Ingests -> Requests] /\ LesTypeOK'
        BY <2>1, <2>2, <3>1, <3>2, <3>3, LessonAssumption DEF LesTypeOK
    <3>5. Running' = Running \ {r} /\ r \in Running
        BY <2>1, <3>1, <3>2 DEF Running
    <3>6. Lone'
        BY <2>1, <3>5 DEF Lone
    <3>7. LessonsOnce'
      <4>1. ~concurrent => \A l \in Lessons : copies[l] <= 1 + lessonFails
          BY DEF LessonsOnce
      <4> QED BY <2>1, <2>2, <2>3, <3>3, <4>1 DEF LessonsOnce
    <3>8. Removed'
        BY <2>1, <3>5 DEF Removed, Lone
    <3>9. Vouched' \subseteq Vouched /\ ToCome \subseteq ToCome' \cup c
        BY <2>1, <3>1, <3>2 DEF Vouched, ToCome
    <3>10. Vouched \subseteq Lessons
        BY DEF Vouched, LesTypeOK, Requests
    <3>11. \A l \in Lessons : copies[l] >= 1 => copies'[l] >= 1
        BY <2>1, <2>2, <3>3
    <3>12. Served'
        BY <3>3, <3>9, <3>10, <3>11 DEF Served
    <3> QED BY <3>4, <3>6, <3>7, <3>8, <3>12
  <2> QED BY <1>3, <2>4, <2>5 DEF AddLessons
<1>4. ASSUME NEW r \in Ingests, ListLesson(r) PROVE LesInv'
  <2>1. PICK l \in ingest[r].left :
            /\ Goes(r, "list", [ingest[r] EXCEPT !.left = @ \ {l}])
            /\ \/ catalogued' = catalogued \cup {l} /\ UNCHANGED lessonFails
               \/ LessonFail /\ UNCHANGED catalogued
            /\ UNCHANGED <<copies, corpus, concurrent, lost>>
      BY <1>4 DEF ListLesson
  <2> DEFINE q == [ingest[r] EXCEPT !.left = @ \ {l}]
  <2>2. l \in Lessons
      BY DEF Requests
  <2>3. /\ ingest[r].at = "list" /\ ingest' = [ingest EXCEPT ![r] = q] /\ q \in Requests
      BY <2>1 DEF Goes, Requests
  <2>4. q.at = "list" /\ q.brings = ingest[r].brings /\ q.left = ingest[r].left \ {l}
      BY <2>3 DEF Requests
  <2> HIDE DEF q
  <2>5. lessonFails \in 0..MaxLessonFails /\ lessonFails' \in 0..MaxLessonFails
        /\ lessonFails' >= lessonFails
      BY <2>1, LessonAssumption DEF LessonFail, LesTypeOK
  <2>6. ingest' \in [Ingests -> Requests] /\ LesTypeOK'
      BY <2>1, <2>2, <2>3, <2>4, <2>5 DEF LesTypeOK
  <2>7. Running' = Running
      BY <2>3, <2>4 DEF Running
  <2>8. Lone'
      BY <2>1, <2>7 DEF Lone
  <2>9. copies \in [Lessons -> Nat] /\ lessonFails \in Nat /\ lessonFails' \in Nat
      BY <2>5, LessonAssumption DEF LesTypeOK
  <2>10. LessonsOnce'
      BY <2>1, <2>5, <2>9 DEF LessonsOnce
  <2>11. Removed'
    <3>1. \A s \in Ingests : /\ ingest'[s].at = ingest[s].at
                             /\ ingest'[s].brings = ingest[s].brings
                             /\ ingest[s].at = "drop" => ingest'[s].left = ingest[s].left
                             /\ ingest[s].brings \subseteq Lessons
        BY <2>3, <2>4 DEF Requests
    <3> QED BY <3>1, <2>1, <2>5, <2>7, <2>9 DEF Removed, Running
  <2>12. Vouched' = Vouched /\ ToCome' = ToCome
      BY <2>1, <2>3, <2>4 DEF Vouched, ToCome
  <2> QED BY <2>1, <2>6, <2>8, <2>10, <2>11, <2>12 DEF Served
<1>5. ASSUME NEW r \in Ingests, WriteCorpus(r) PROVE LesInv'
  <2> DEFINE q == [ingest[r] EXCEPT !.at = "done"]
  <2>1. /\ ingest[r].at = "list" /\ ingest' = [ingest EXCEPT ![r] = q] /\ q \in Requests
        /\ corpus' = ingest[r].brings
        /\ UNCHANGED <<copies, catalogued, lessonFails, concurrent, lost>>
      BY <1>5 DEF WriteCorpus, Goes, Requests
  <2>2. q.at = "done" /\ q.brings = ingest[r].brings /\ q.left = ingest[r].left
      BY DEF Requests
  <2> HIDE DEF q
  <2>3. ingest' \in [Ingests -> Requests] /\ LesTypeOK'
      BY <2>1, <2>2 DEF LesTypeOK, Requests
  <2>4. Running' = Running \ {r}
      BY <2>1, <2>2 DEF Running
  <2>5. Lone' /\ LessonsOnce'
      BY <2>1, <2>4 DEF Lone, LessonsOnce
  <2>6. Removed'
      BY <2>1, <2>4 DEF Removed, Running
  <2>7. Vouched' \subseteq Vouched /\ ToCome' = ToCome
      BY <2>1, <2>2 DEF Vouched, ToCome
  <2> QED BY <2>1, <2>3, <2>5, <2>6, <2>7 DEF Served
<1>6. CASE UNCHANGED lesVars
    BY <1>6 DEF lesVars, LesTypeOK, Lone, LessonsOnce, Removed, Served, Running, Vouched, ToCome
<1> QED BY <1>1, <1>2, <1>3, <1>4, <1>5, <1>6 DEF LesNext

\* Each lesson is stored once more than removals of it were ignored, as long as
\* one ingest runs at a time, and those that the sidecar vouches for are stored.
THEOREM LessonsInvariant == LesSpec => []LesInv
BY LesInitInv, LesStep, PTL DEF LesSpec

\* POST /ingest stores no lesson twice and lists no lesson that is not stored
\* (routes_bnup.py), however its calls fail, for every corpus and any number of
\* requests.
THEOREM LessonsCorrect == LesSpec => []LessonsSafe
<1>1. LesInv => LessonsSafe
  <2> SUFFICES ASSUME LesInv PROVE LessonsSafe
      OBVIOUS
  <2>1. CorpusServed
      BY DEF LesInv, CorpusServed, Served, Vouched, ToCome, Running
  <2> QED BY <2>1 DEF LesInv, LessonsSafe
<1> QED BY <1>1, LessonsInvariant, PTL

-----------------------------------------------------------------------------
(* The comparison with a directory.                                        *)

\* What was read of the files is on one of three lists, ...
ReadLists == {"added", "modified", "unchanged"}
Answered  == UNION {listed[l] : l \in ReadLists}

\* ... the walk is at a path that it has scanned, what it has not come to it has
\* not scanned, and nothing is deleted before it is over.
Walk == /\ todo \cap scanned = {}
        /\ hand # NoPath => hand \in scanned
        /\ Answered \subseteq scanned \ {hand}
        /\ scanned \ {hand} \subseteq Answered \cup unreadable
        /\ listed["deleted"] \cap scanned = {}
        /\ ~Idle => listed["deleted"] = {}

\* What stood all along is still there, and scanned or to come.
Standing == /\ standing \subseteq TreePaths /\ \A p \in standing : tree[p] # Missing
            /\ standing \cap Matching \subseteq scanned \cup todo

SyncInv == SyncTypeOK /\ Walk /\ Standing

LEMMA SyncInitInv == SyncInit => SyncInv
<1> SUFFICES ASSUME SyncInit PROVE SyncInv
    OBVIOUS
<1> USE DEF SyncInit
<1>1. \A l \in Lists : listed[l] = {}
    BY DEF NoLists
<1>2. listed \in [Lists -> SUBSET DocPaths] /\ tree \in [TreePaths -> Nat]
    BY DEF NoLists, Missing
<1>3. treeEdits \in 0..MaxTreeEdits
    BY SyncAssumption
<1>4. SyncTypeOK
    BY <1>1, <1>2, <1>3 DEF SyncTypeOK
<1>5. Walk /\ Standing
    BY <1>1 DEF Walk, Standing, Answered, ReadLists, Lists, Idle
<1> QED BY <1>4, <1>5 DEF SyncInv

\* When the walk moves on, nothing that it has scanned is deleted.
LEMMA DeletedAfter ==
    ASSUME SyncInv, UNCHANGED page, scanned' \subseteq Matching
    PROVE  /\ Unscanned \in SUBSET DocPaths /\ Unscanned \cap scanned' = {}
           /\ ~Idle' => Unscanned = {}
BY DEF Unscanned, SyncInv, SyncTypeOK

\* A list is replaced.
LEMMA ListsAfter ==
    ASSUME SyncInv, ~Idle, NEW D \in SUBSET DocPaths, D \cap scanned = {},
           listed' = [listed EXCEPT !["deleted"] = D]
    PROVE  /\ listed' \in [Lists -> SUBSET DocPaths] /\ listed'["deleted"] = D
           /\ Answered' = Answered
           /\ \A l, k \in Lists : l # k => listed'[l] \cap listed'[k] = {}
<1>1. listed \in [Lists -> SUBSET DocPaths] /\ "deleted" \in Lists
    BY DEF SyncInv, SyncTypeOK, Lists
<1>2. \A l \in Lists : listed'[l] = IF l = "deleted" THEN D ELSE listed[l]
    BY <1>1
<1>3. \A l \in ReadLists : l \in Lists /\ l # "deleted"
    BY DEF ReadLists, Lists
<1>4. \A l \in Lists : l # "deleted" => l \in ReadLists
    BY DEF ReadLists, Lists
<1>5. \A l \in ReadLists : listed'[l] = listed[l] /\ listed[l] \subseteq scanned
    BY <1>2, <1>3 DEF SyncInv, Walk, Answered
<1>6. \A l, k \in Lists : l # k => listed'[l] \cap listed'[k] = {}
  <2> SUFFICES ASSUME NEW l \in Lists, NEW k \in Lists, l # k PROVE listed'[l] \cap listed'[k] = {}
      OBVIOUS
  <2>1. listed[l] \cap listed[k] = {}
      BY DEF SyncInv, SyncTypeOK
  <2>2. CASE l # "deleted" /\ k # "deleted"
      BY <2>1, <2>2, <1>2
  <2>3. CASE l = "deleted"
      BY <2>3, <1>2, <1>4, <1>5
  <2>4. CASE k = "deleted"
      BY <2>4, <1>2, <1>4, <1>5
  <2> QED BY <2>2, <2>3, <2>4
<1>7. listed' \in [Lists -> SUBSET DocPaths] /\ listed'["deleted"] = D
    BY <1>1
<1>8. Answered' = Answered
    BY <1>5 DEF Answered
<1> QED BY <1>6, <1>7, <1>8

LEMMA SyncStep == SyncInv /\ [SyncNext]_syncVars => SyncInv'
<1> SUFFICES ASSUME SyncInv, [SyncNext]_syncVars PROVE SyncInv'
    OBVIOUS
<1> USE DEF SyncInv
<1>1. ASSUME NEW p \in TreePaths, EditFile(p) PROVE SyncInv'
  <2>1. PICK v \in {Missing, treeEdits + 2} : tree' = [tree EXCEPT ![p] = v]
      BY <1>1 DEF EditFile
  <2>2. /\ treeEdits < MaxTreeEdits /\ treeEdits' = treeEdits + 1
        /\ standing' = standing \ {p}
        /\ UNCHANGED <<known, page, todo, hand, scanned, listed, unreadable>>
      BY <1>1 DEF EditFile
  <2>3. treeEdits \in Nat /\ MaxTreeEdits \in Nat /\ tree \in [TreePaths -> Nat]
      BY SyncAssumption DEF SyncTypeOK
  <2>4. v \in Nat /\ treeEdits' \in 0..MaxTreeEdits
      BY <2>2, <2>3 DEF Missing
  <2>5. tree' \in [TreePaths -> Nat]
      BY <2>1, <2>3, <2>4
  <2>6. SyncTypeOK'
      BY <2>2, <2>4, <2>5 DEF SyncTypeOK
  <2>7. Walk'
      BY <2>2 DEF Walk, Idle, Answered
  <2>8. Standing'
      BY <2>1, <2>2, <2>3 DEF Standing
  <2> QED BY <2>6, <2>7, <2>8
<1>2. ASSUME NEW p \in DocPaths, Ingest(p) PROVE SyncInv'
  <2>1. /\ DOMAIN known' = DOMAIN known \cup {p}
        /\ UNCHANGED <<tree, page, todo, hand, scanned, listed, treeEdits, standing, unreadable>>
      BY <1>2 DEF Ingest
  <2>2. SyncTypeOK'
      BY <2>1 DEF SyncTypeOK
  <2>3. Walk' /\ Standing'
      BY <2>1 DEF Walk, Idle, Answered, Standing
  <2> QED BY <2>2, <2>3
<1>3. ASSUME BeginSync PROVE SyncInv'
  <2>1. PICK found \in kSubset(Min({PageLimit, Cardinality(DOMAIN known)}), DOMAIN known) :
            page' = [p \in found |-> HashRead(p)]
      BY <1>3 DEF BeginSync
  <2>2. found \subseteq DOMAIN known
      BY DEF kSubset
  <2>3. /\ todo' = TreePaths /\ hand' = NoPath /\ scanned' = {} /\ listed' = NoLists
        /\ standing' = {p \in TreePaths : tree[p] # Missing} /\ unreadable' = {}
        /\ UNCHANGED <<tree, known, treeEdits>>
      BY <1>3 DEF BeginSync
  <2>4. DOMAIN page' \subseteq DocPaths
      BY <2>1, <2>2 DEF SyncTypeOK
  <2>5. \A l \in Lists : listed'[l] = {}
      BY <2>3 DEF NoLists
  <2>6. listed' \in [Lists -> SUBSET DocPaths]
      BY <2>3 DEF NoLists
  <2>7. SyncTypeOK'
      BY <2>3, <2>4, <2>5, <2>6 DEF SyncTypeOK
  <2>8. Answered' = {} /\ listed'["deleted"] = {}
      BY <2>5 DEF Answered, ReadLists, Lists
  <2>9. Walk' /\ Standing'
      BY <2>3, <2>8, SyncAssumption DEF Walk, Standing
  <2> QED BY <2>7, <2>9
<1>4. ASSUME NEW p \in TreePaths, PassBy(p) PROVE SyncInv'
  <2>1. /\ hand = NoPath /\ p \in todo /\ (tree[p] = Missing \/ p \notin Matching)
        /\ todo' = todo \ {p} /\ UNCHANGED <<hand, scanned>>
        /\ listed' = [listed EXCEPT !["deleted"] = Unscanned]
        /\ UNCHANGED <<tree, known, page, treeEdits, standing, unreadable>>
      BY <1>4 DEF PassBy, After
  <2>2. /\ Unscanned \in SUBSET DocPaths /\ Unscanned \cap scanned' = {}
        /\ ~Idle' => Unscanned = {}
      BY <2>1, DeletedAfter DEF SyncTypeOK
  <2>3. ~Idle
      BY <2>1 DEF Idle
  <2>4. /\ listed' \in [Lists -> SUBSET DocPaths] /\ listed'["deleted"] = Unscanned
        /\ Answered' = Answered
        /\ \A l, k \in Lists : l # k => listed'[l] \cap listed'[k] = {}
      BY <2>1, <2>2, <2>3, ListsAfter
  <2>5. SyncTypeOK'
      BY <2>1, <2>4 DEF SyncTypeOK
  <2>6. Walk'
      BY <2>1, <2>2, <2>4 DEF Walk
  <2>7. Standing'
      BY <2>1 DEF Standing
  <2> QED BY <2>5, <2>6, <2>7
<1>5. ASSUME NEW p \in TreePaths, Take(p) PROVE SyncInv'
  <2>1. /\ hand = NoPath /\ p \in todo \cap Matching
        /\ hand' = p /\ todo' = todo \ {p} /\ scanned' = scanned \cup {p}
        /\ UNCHANGED <<tree, known, page, listed, treeEdits, standing, unreadable>>
      BY <1>5 DEF Take, After, Scanned
  <2>2. ~Idle /\ ~Idle' /\ NoPath \notin scanned /\ p \notin scanned
      BY <2>1, SyncAssumption DEF Idle, SyncTypeOK, Walk
  <2>3. SyncTypeOK'
      BY <2>1 DEF SyncTypeOK
  <2>4. Answered' = Answered
      BY <2>1 DEF Answered
  <2>5. Walk'
      BY <2>1, <2>2, <2>4 DEF Walk
  <2>6. Standing'
      BY <2>1 DEF Standing
  <2> QED BY <2>3, <2>5, <2>6
<1>6. ASSUME Hash PROVE SyncInv'
  <2> DEFINE k == ListFor(hand, tree[hand])
             kept == [listed EXCEPT ![k] = @ \cup {hand}]
  <2>1. /\ hand # NoPath /\ hand' = NoPath /\ UNCHANGED <<todo, scanned>>
        /\ listed' = [kept EXCEPT !["deleted"] = Unscanned]
        /\ UNCHANGED <<tree, known, page, treeEdits, standing, unreadable>>
      BY <1>6 DEF Hash
  <2>2. k \in ReadLists
      BY DEF ListFor, ReadLists
  <2>3. \A l \in ReadLists : l \in Lists /\ l # "deleted"
      BY DEF ReadLists, Lists
  <2>4. \A l \in Lists : l = "deleted" \/ l \in ReadLists
      BY DEF ReadLists, Lists
  <2>5. hand \in scanned /\ hand \in TreePaths /\ NoPath \notin scanned /\ ~Idle
      BY <2>1, SyncAssumption DEF SyncTypeOK, Walk, Idle
  <2>6. listed \in [Lists -> SUBSET DocPaths] /\ "deleted" \in Lists /\ hand \in DocPaths
      BY <2>5 DEF SyncTypeOK, Lists, DocPaths
  <2> HIDE DEF k
  <2>7. kept \in [Lists -> SUBSET DocPaths]
      BY <2>2, <2>3, <2>6
  <2>8. /\ Unscanned \in SUBSET DocPaths /\ Unscanned \cap scanned = {}
        /\ ~Idle' => Unscanned = {}
      BY <2>1, DeletedAfter DEF SyncTypeOK
  <2>9. \A l \in Lists : listed'[l] = IF l = "deleted" THEN Unscanned
                                      ELSE IF l = k THEN listed[l] \cup {hand} ELSE listed[l]
      BY <2>1, <2>2, <2>3, <2>6, <2>7
  <2>10. listed' \in [Lists -> SUBSET DocPaths]
      BY <2>1, <2>7, <2>8
  <2>11. \A l \in ReadLists : /\ listed[l] \subseteq scanned \ {hand}
                              /\ listed'[l] = IF l = k THEN listed[l] \cup {hand} ELSE listed[l]
      BY <2>3, <2>9 DEF Walk, Answered
  <2>12. Answered' = Answered \cup {hand}
      BY <2>2, <2>11 DEF Answered
  <2>13. \A l, m \in Lists : l # m => listed'[l] \cap listed'[m] = {}
    <3> SUFFICES ASSUME NEW l \in Lists, NEW m \in Lists, l # m PROVE listed'[l] \cap listed'[m] = {}
        OBVIOUS
    <3>1. listed[l] \cap listed[m] = {}
        BY DEF SyncTypeOK
    <3>2. CASE l # "deleted" /\ m # "deleted"
        BY <3>1, <3>2, <2>4, <2>11
    <3>3. CASE l = "deleted"
        BY <3>3, <2>4, <2>5, <2>8, <2>9, <2>11
    <3>4. CASE m = "deleted"
        BY <3>4, <2>4, <2>5, <2>8, <2>9, <2>11
    <3> QED BY <3>2, <3>3, <3>4
  <2>14. SyncTypeOK'
      BY <2>1, <2>10, <2>13 DEF SyncTypeOK
  <2>15. Walk'
      BY <2>1, <2>5, <2>6, <2>8, <2>9, <2>12 DEF Walk
  <2>16. Standing'
      BY <2>1 DEF Standing
  <2> QED BY <2>14, <2>15, <2>16
<1>7. ASSUME Skip PROVE SyncInv'
  <2>1. /\ hand # NoPath /\ hand' = NoPath /\ UNCHANGED <<todo, scanned>>
        /\ listed' = [listed EXCEPT !["deleted"] = Unscanned]
        /\ unreadable' = unreadable \cup {hand}
        /\ UNCHANGED <<tree, known, page, treeEdits, standing>>
      BY <1>7 DEF Skip
  <2>2. /\ Unscanned \in SUBSET DocPaths /\ Unscanned \cap scanned = {}
        /\ ~Idle' => Unscanned = {}
      BY <2>1, DeletedAfter DEF SyncTypeOK
  <2>3. ~Idle /\ NoPath \notin scanned
      BY <2>1, SyncAssumption DEF Idle, SyncTypeOK
  <2>4. /\ listed' \in [Lists -> SUBSET DocPaths] /\ listed'["deleted"] = Unscanned
        /\ Answered' = Answered
        /\ \A l, k \in Lists : l # k => listed'[l] \cap listed'[k] = {}
      BY <2>1, <2>2, <2>3, ListsAfter
  <2>5. SyncTypeOK'
      BY <2>1, <2>4 DEF SyncTypeOK
  <2>6. Walk'
      BY <2>1, <2>2, <2>3, <2>4 DEF Walk
  <2>7. Standing'
      BY <2>1 DEF Standing
  <2> QED BY <2>5, <2>6, <2>7
<1>8. CASE UNCHANGED syncVars
    BY <1>8 DEF syncVars, SyncTypeOK, Walk, Standing, Answered, Idle
<1> QED BY <1>1, <1>2, <1>3, <1>4, <1>5, <1>6, <1>7, <1>8 DEF SyncNext

\* The walk has read, skipped or still to come to every file that stood.
THEOREM SyncInvariant == SyncSpec => []SyncInv
BY SyncInitInv, SyncStep, PTL DEF SyncSpec

\* POST /sync answers for each file that stood all along, on one list, and never
\* reports its document as deleted, whatever changes meanwhile (incremental_sync.py).
THEOREM SyncCorrect == SyncSpec => []SyncSafe
<1>1. SyncInv => SyncSafe
  <2> SUFFICES ASSUME SyncInv PROVE SyncSafe
      OBVIOUS
  <2>1. Answered = listed["added"] \cup listed["modified"] \cup listed["unchanged"]
      BY DEF Answered, ReadLists
  <2>2. NoPath \notin scanned
      BY SyncAssumption DEF SyncInv, SyncTypeOK
  <2>3. StandingAnswered
    <3> SUFFICES ASSUME Idle PROVE StandingAnswered
        BY DEF StandingAnswered
    <3>1. standing \cap Matching \subseteq scanned /\ scanned \subseteq Answered \cup unreadable
        BY <2>2 DEF SyncInv, Walk, Standing, Idle
    <3>2. listed["deleted"] \cap scanned = {}
        BY DEF SyncInv, Walk
    <3> QED BY <2>1, <3>1, <3>2 DEF StandingAnswered
  <2> QED BY <2>3 DEF SyncInv, SyncSafe
<1> QED BY <1>1, SyncInvariant, PTL

-----------------------------------------------------------------------------
(* The entity graph: paths in its tables.                                  *)

\* The names at the end of a path of at most k relations from a match.
Linked(rels, x, y) == {<<x, y>>, <<y, x>>} \cap rels # {}
Starts(rows, query) == {row[1] : row \in {r \in rows : r[1] \in query}}
PathsOf(rows, rels, query, j) ==
    {p \in [0..j -> EntityNames] : /\ p[0] \in Starts(rows, query)
                                   /\ \A i \in 1..j : Linked(rels, p[i - 1], p[i])}
Ends(rows, rels, query, k) ==
    {e \in EntityNames : \E j \in 0..k : \E p \in PathsOf(rows, rels, query, j) : p[j] = e}
ChunksOf(rows, names) == {row[2] : row \in {r \in rows : r[1] \in names}}

LEMMA ReferenceEnds ==
    ASSUME NEW tables, NEW query, NEW k \in Nat
    PROVE  Reference(tables, query, k) =
               ChunksOf(tables.entities, Ends(tables.entities, tables.relations, query, k))
<1> DEFINE begins == {row[1] : row \in {r \in tables.entities : r[1] \in query}}
           paths  == UNION {[0..j -> EntityNames] : j \in 0..k}
           chosen == {q \in paths : /\ q[0] \in begins
                                    /\ \A i \in DOMAIN q \ {0} :
                                          {<<q[i - 1], q[i]>>, <<q[i], q[i - 1]>>}
                                              \cap tables.relations # {}}
           ends   == {path[Cardinality(DOMAIN path) - 1] : path \in chosen}
           mine   == Ends(tables.entities, tables.relations, query, k)
<1>1. Reference(tables, query, k) = {row[2] : row \in {r \in tables.entities : r[1] \in ends}}
    BY DEF Reference
<1>2. ASSUME NEW j \in 0..k, NEW q \in [0..j -> EntityNames]
      PROVE  /\ Cardinality(DOMAIN q) - 1 = j /\ DOMAIN q \ {0} = 1..j
             /\ q[j] \in EntityNames
  <2>1. j \in Nat /\ j \in 0..j /\ DOMAIN q = 0..j
      OBVIOUS
  <2>2. Cardinality(0..j) = j + 1
      BY <2>1, FS_Interval
  <2> QED BY <2>1, <2>2
<1>3. ASSUME NEW j \in 0..k, NEW q \in [0..j -> EntityNames]
      PROVE  q \in chosen <=> q \in PathsOf(tables.entities, tables.relations, query, j)
  <2>1. q \in paths
      OBVIOUS
  <2> QED BY <2>1, <1>2 DEF PathsOf, Starts, Linked
<1> HIDE DEF begins
<1>4. ends \subseteq mine
  <2> SUFFICES ASSUME NEW q \in chosen PROVE q[Cardinality(DOMAIN q) - 1] \in mine
      OBVIOUS
  <2>1. PICK j \in 0..k : q \in [0..j -> EntityNames]
      OBVIOUS
  <2>2. q[Cardinality(DOMAIN q) - 1] = q[j] /\ q[j] \in EntityNames
      BY <1>2, <2>1
  <2>3. q \in PathsOf(tables.entities, tables.relations, query, j)
      BY <1>3, <2>1
  <2> HIDE DEF chosen
  <2> QED BY <2>1, <2>2, <2>3 DEF Ends
<1>5. mine \subseteq ends
  <2> SUFFICES ASSUME NEW e \in mine PROVE e \in ends
      OBVIOUS
  <2>1. PICK j \in 0..k : \E p \in PathsOf(tables.entities, tables.relations, query, j) : p[j] = e
      BY DEF Ends
  <2>2. PICK p \in PathsOf(tables.entities, tables.relations, query, j) : p[j] = e
      BY <2>1
  <2>3. p \in [0..j -> EntityNames]
      BY DEF PathsOf
  <2>4. p \in chosen /\ p[Cardinality(DOMAIN p) - 1] = e
      BY <1>2, <1>3, <2>2, <2>3
  <2> HIDE DEF chosen
  <2> QED BY <2>4
<1> HIDE DEF ends, mine
<1>6. ends = mine
    BY <1>4, <1>5
<1> QED BY <1>1, <1>6 DEF ChunksOf, mine

\* More tables, more ends; and more hops.
LEMMA EndsGrow ==
    ASSUME NEW r1, NEW r2, r1 \subseteq r2, NEW s1, NEW s2, s1 \subseteq s2,
           NEW query, NEW k \in Nat, NEW m \in Nat, k <= m
    PROVE  /\ Ends(r1, s1, query, k) \subseteq Ends(r2, s2, query, m)
           /\ ChunksOf(r1, Ends(r1, s1, query, k)) \subseteq ChunksOf(r2, Ends(r2, s2, query, m))
<1>1. \A j : PathsOf(r1, s1, query, j) \subseteq PathsOf(r2, s2, query, j)
    BY DEF PathsOf, Starts, Linked
<1>2. \A j \in 0..k : j \in 0..m
    OBVIOUS
<1>3. Ends(r1, s1, query, k) \subseteq Ends(r2, s2, query, m)
    BY <1>1, <1>2 DEF Ends
<1> QED BY <1>3 DEF ChunksOf

\* No hop leads nowhere else.
LEMMA EndsStart ==
    ASSUME NEW rows \in SUBSET (EntityNames \X GraphChunks), NEW rels, NEW query
    PROVE  /\ Ends(rows, rels, query, 0) = Starts(rows, query)
           /\ \A k : Starts(rows, query) = {} => Ends(rows, rels, query, k) = {}
<1>1. Starts(rows, query) \subseteq EntityNames
    BY DEF Starts
<1>2. ASSUME NEW e \in Starts(rows, query) PROVE e \in Ends(rows, rels, query, 0)
  <2> DEFINE p == [i \in 0..0 |-> e]
  <2>1. p \in PathsOf(rows, rels, query, 0) /\ p[0] = e /\ 0 \in 0..0
      BY <1>1 DEF PathsOf
  <2> QED BY <1>1, <2>1 DEF Ends
<1>3. Starts(rows, query) \subseteq Ends(rows, rels, query, 0)
    BY <1>2
<1>4. Ends(rows, rels, query, 0) \subseteq Starts(rows, query)
    BY DEF Ends, PathsOf
<1>5. \A k : Starts(rows, query) = {} => Ends(rows, rels, query, k) = {}
    BY DEF Ends, PathsOf
<1> QED BY <1>3, <1>4, <1>5

\* One hop further are the ends and those linked to them.
LEMMA EndsNext ==
    ASSUME NEW rows, NEW rels, NEW query, NEW k \in Nat
    PROVE  /\ \A x \in Ends(rows, rels, query, k), y \in EntityNames :
                  Linked(rels, x, y) => y \in Ends(rows, rels, query, k + 1)
           /\ \A y \in Ends(rows, rels, query, k + 1) :
                  \/ y \in Ends(rows, rels, query, k)
                  \/ \E x \in Ends(rows, rels, query, k) : Linked(rels, x, y)
<1>1. ASSUME NEW x \in Ends(rows, rels, query, k), NEW y \in EntityNames, Linked(rels, x, y)
      PROVE  y \in Ends(rows, rels, query, k + 1)
  <2>1. PICK j \in 0..k : \E p \in PathsOf(rows, rels, query, j) : p[j] = x
      BY DEF Ends
  <2>2. PICK p \in PathsOf(rows, rels, query, j) : p[j] = x
      BY <2>1
  <2> DEFINE q == [i \in 0..(j + 1) |-> IF i = j + 1 THEN y ELSE p[i]]
  <2>3. j \in Nat /\ p \in [0..j -> EntityNames] /\ p[0] \in Starts(rows, query)
        /\ \A i \in 1..j : Linked(rels, p[i - 1], p[i])
      BY DEF PathsOf
  <2>4. /\ q \in [0..(j + 1) -> EntityNames] /\ q[j + 1] = y
        /\ \A i \in 0..j : q[i] = p[i]
      BY <2>3
  <2> HIDE DEF q
  <2>5. ASSUME NEW i \in 1..(j + 1) PROVE Linked(rels, q[i - 1], q[i])
    <3>1. CASE i = j + 1
      <4>1. q[i - 1] = x /\ q[i] = y
          BY <2>2, <2>3, <2>4, <3>1
      <4> QED BY <4>1, <1>1
    <3>2. CASE i # j + 1
      <4>1. i \in 1..j /\ i \in 0..j /\ i - 1 \in 0..j
          BY <2>3, <3>2
      <4> QED BY <4>1, <2>3, <2>4
    <3> QED BY <3>1, <3>2
  <2>6. q \in PathsOf(rows, rels, query, j + 1)
      BY <2>3, <2>4, <2>5 DEF PathsOf
  <2> QED BY <2>3, <2>4, <2>6 DEF Ends
<1>2. ASSUME NEW y \in Ends(rows, rels, query, k + 1), y \notin Ends(rows, rels, query, k)
      PROVE  \E x \in Ends(rows, rels, query, k) : Linked(rels, x, y)
  <2>1. PICK j \in 0..(k + 1) : \E p \in PathsOf(rows, rels, query, j) : p[j] = y
      BY DEF Ends
  <2>2. PICK p \in PathsOf(rows, rels, query, j) : p[j] = y
      BY <2>1
  <2>3. j = k + 1
      BY <1>2, <2>1, <2>2 DEF Ends
  <2> DEFINE q == [i \in 0..k |-> p[i]]
  <2>4. /\ p \in [0..(k + 1) -> EntityNames] /\ p[0] \in Starts(rows, query)
        /\ \A i \in 1..(k + 1) : Linked(rels, p[i - 1], p[i])
      BY <2>3 DEF PathsOf
  <2>5. q \in [0..k -> EntityNames] /\ \A i \in 0..k : q[i] = p[i]
      BY <2>4
  <2> HIDE DEF q
  <2>6. \A i \in 1..k : i \in 0..k /\ i - 1 \in 0..k /\ i \in 1..(k + 1)
      OBVIOUS
  <2>7. q \in PathsOf(rows, rels, query, k)
      BY <2>4, <2>5, <2>6 DEF PathsOf
  <2>8. q[k] \in Ends(rows, rels, query, k) /\ q[k] = p[k]
      BY <2>5, <2>7 DEF Ends
  <2>9. Linked(rels, p[k], p[k + 1])
      BY <2>4
  <2> QED BY <2>2, <2>3, <2>8, <2>9
<1> QED BY <1>1, <1>2

\* Names that hold the matches and are closed under the links hold every end.
LEMMA ClosedHoldsEnds ==
    ASSUME NEW rows, NEW rels, NEW query, NEW names, Ends(rows, rels, query, 0) \subseteq names,
           \A x \in names, y \in EntityNames : Linked(rels, x, y) => y \in names
    PROVE  \A k \in Nat : Ends(rows, rels, query, k) \subseteq names
<1> DEFINE Out == {k \in Nat : ~(Ends(rows, rels, query, k) \subseteq names)}
           R   == OpToRel(<, Nat)
<1>1. SUFFICES ASSUME Out # {} PROVE FALSE
    OBVIOUS
<1>2. IsWellFoundedOn(R, Nat)
    BY NatLessThanWellFounded
<1>3. \A x, y \in Nat : x < y => <<x, y>> \in R
    BY DEF OpToRel
<1> HIDE DEF R, Out
<1>4. Out \subseteq Nat
    BY DEF Out
<1>5. PICK k \in Out : \A m \in Out : ~(<<m, k>> \in R)
    BY <1>1, <1>2, <1>4, WFMin
<1>6. k \in Nat /\ k # 0
    BY DEF Out
<1>7. k - 1 \in Nat /\ k - 1 < k /\ (k - 1) + 1 = k
    BY <1>6
<1>8. Ends(rows, rels, query, k - 1) \subseteq names
    BY <1>3, <1>5, <1>6, <1>7 DEF Out
<1>9. \A y \in Ends(rows, rels, query, k) : y \in EntityNames
    BY DEF Ends
<1>10. Ends(rows, rels, query, k) \subseteq names
    BY <1>7, <1>8, <1>9, EndsNext
<1> QED BY <1>5, <1>10 DEF Out

\* The rows beside a name are those of the names it is linked to.
LEMMA BesideLinked ==
    ASSUME NEW n \in EntityNames, NEW rels \in SUBSET (EntityNames \X EntityNames)
    PROVE  /\ Beside(n, rels) \subseteq EntityNames
           /\ \A y \in EntityNames : Linked(rels, n, y) => y \in Beside(n, rels)
           /\ \A y \in Beside(n, rels) : y = n \/ Linked(rels, n, y)
<1>1. \A r \in rels : r = <<r[1], r[2]>> /\ r[1] \in EntityNames /\ r[2] \in EntityNames
    OBVIOUS
<1>2. \A y : y \in Beside(n, rels) <=>
             \E r \in rels : n \in {r[1], r[2]} /\ y \in {r[1], r[2]}
    BY DEF Beside
<1>3. \A y : Linked(rels, n, y) <=> <<n, y>> \in rels \/ <<y, n>> \in rels
    BY DEF Linked
<1>4. Beside(n, rels) \subseteq EntityNames
    BY <1>1, <1>2
<1>5. ASSUME NEW y \in EntityNames, Linked(rels, n, y) PROVE y \in Beside(n, rels)
  <2>1. CASE <<n, y>> \in rels
      BY <2>1, <1>2
  <2>2. CASE <<y, n>> \in rels
      BY <2>2, <1>2
  <2> QED BY <1>3, <1>5, <2>1, <2>2
<1>6. ASSUME NEW y \in Beside(n, rels), y # n PROVE Linked(rels, n, y)
  <2>1. PICK r \in rels : n \in {r[1], r[2]} /\ y \in {r[1], r[2]}
      BY <1>2
  <2>2. r = <<n, y>> \/ r = <<y, n>>
      BY <1>1, <1>6, <2>1
  <2> QED BY <1>3, <2>1, <2>2
<1> QED BY <1>4, <1>5, <1>6

-----------------------------------------------------------------------------
(* The search.                                                             *)

Searches == [at : {"expand", "chunks", "answered"}, query : Like, hops : Nat, left : Nat,
             todo : SUBSET EntityNames, visited : SUBSET EntityNames,
             next : SUBSET EntityNames, hits : SUBSET GraphChunks]

\* The ends after the first k hops in the tables as they were and as they are.
Sure(k)     == Ends(was.entities, was.relations, find.query, k)
Possible(k) == Ends(entities, relations, find.query, k)
Hop == find.hops - find.left

\* The neighbours of the names were all visited; their chunks were all read.
Closed(names) == \A x \in names, y \in EntityNames :
                     Linked(was.relations, x, y) => y \in find.visited
HasRead(names)  == ChunksOf(was.entities, names) \subseteq find.hits

Expanding ==
    /\ find.left \in 1..find.hops
    /\ find.todo \cup find.next \subseteq find.visited /\ find.todo \cap find.next = {}
    /\ Sure(Hop) \subseteq find.visited \ find.next
    /\ Closed(find.visited \ (find.todo \cup find.next)) /\ HasRead(find.visited \ find.next)
    /\ find.visited \ find.next \subseteq Possible(Hop)
    /\ find.visited \subseteq Possible(Hop + 1)

Reading ==
    /\ find.left \in 1..find.hops
    /\ find.todo \subseteq find.next /\ find.next \subseteq find.visited
    /\ Sure(Hop + 1) \subseteq find.visited
    /\ Closed(find.visited \ find.next) /\ HasRead(find.visited \ find.todo)
    /\ find.visited \subseteq Possible(Hop + 1)

Searching ==
    find.at # "idle" =>
        /\ find \in Searches
        /\ find.hits \subseteq ChunksOf(entities, Possible(find.hops))
        /\ find.at = "expand" => Expanding
        /\ find.at = "chunks" => Reading
        /\ find.at = "answered" => ChunksOf(was.entities, Sure(find.hops)) \subseteq find.hits

\* The tables only grow.
Before == was.entities \subseteq entities /\ was.relations \subseteq relations

GraphInv == GraphTypeOK /\ CountsLanded /\ Before /\ Searching

LEMMA GraphInitInv == GraphInit => GraphInv
<1> SUFFICES ASSUME GraphInit PROVE GraphInv
    OBVIOUS
<1> USE DEF GraphInit
<1>1. find.at = "idle"
    BY DEF NoSearch
<1>2. \A b \in GraphBuilds : building[b] \in SUBSET GraphChunks
    BY DEF NotBegun
<1>3. GraphTypeOK
    BY <1>1, <1>2 DEF GraphTypeOK
<1>4. CountsLanded
    BY FS_EmptySet DEF CountsLanded
<1>5. Before /\ Searching
    BY <1>1 DEF Before, Searching
<1> QED BY <1>3, <1>4, <1>5 DEF GraphInv

\* What a build inserts adds what its answer says, and tables that have grown
\* keep what a search knows.
LEMMA Landing ==
    ASSUME NEW U, IsFiniteSet(U), NEW table \in SUBSET U, NEW rows \in SUBSET U
    PROVE  /\ Cardinality(table \cup rows) = Cardinality(table) + Landed(rows, table)
           /\ Cardinality(table) \in Nat /\ Landed(rows, table) \in Nat
<1>1. IsFiniteSet(table) /\ IsFiniteSet(rows \ table)
    BY FS_Subset
<1>2. table \cap (rows \ table) = {} /\ table \cup (rows \ table) = table \cup rows
    OBVIOUS
<1>3. Cardinality(table \cup (rows \ table)) =
          Cardinality(table) + Cardinality(rows \ table) - Cardinality(table \cap (rows \ table))
    BY <1>1, FS_Union
<1>4. Cardinality(table) \in Nat /\ Cardinality(rows \ table) \in Nat
    BY <1>1, FS_CardinalityType
<1>5. Cardinality(table \cap (rows \ table)) = 0
    BY <1>2, FS_EmptySet
<1>6. Cardinality(table \cup rows) = Cardinality(table) + Cardinality(rows \ table) - 0
    BY <1>2, <1>3, <1>5
<1> QED BY <1>4, <1>6 DEF Landed

LEMMA SearchSurvives ==
    ASSUME GraphInv, entities \subseteq entities', relations \subseteq relations',
           UNCHANGED <<find, was>>
    PROVE  Before' /\ Searching'
<1>1. Before'
    BY DEF GraphInv, Before
<1>2. SUFFICES ASSUME find.at # "idle" PROVE Searching'
    BY <1>1 DEF Searching
<1>3. find \in Searches
    BY <1>2 DEF GraphInv, Searching
<1>4. \A k \in Nat : /\ Possible(k) \subseteq Possible(k)'
                     /\ ChunksOf(entities, Possible(k)) \subseteq ChunksOf(entities, Possible(k))'
    BY EndsGrow DEF Possible
<1>5. find.left \in 1..find.hops => Hop \in Nat /\ Hop + 1 \in Nat
    BY <1>3 DEF Hop, Searches
<1>6. find.hops \in Nat
    BY <1>3 DEF Searches
<1>7. \A k : Sure(k)' = Sure(k)
    BY DEF Sure
<1>8. Hop' = Hop
    BY DEF Hop
<1>9. \A N : (Closed(N)' <=> Closed(N)) /\ (HasRead(N)' <=> HasRead(N))
    BY DEF Closed, HasRead
<1>10. Expanding /\ find.left \in 1..find.hops => Expanding'
    BY <1>4, <1>5, <1>7, <1>8, <1>9 DEF Expanding
<1>11. Reading /\ find.left \in 1..find.hops => Reading'
    BY <1>4, <1>5, <1>7, <1>8, <1>9 DEF Reading
<1>12. find.hits \subseteq ChunksOf(entities', Possible(find.hops)')
    BY <1>2, <1>4, <1>6 DEF GraphInv, Searching
<1> QED BY <1>2, <1>3, <1>7, <1>10, <1>11, <1>12 DEF GraphInv, Searching, Expanding, Reading

\* The expressions of a search that began stay what they are while it goes on.
LEMMA SameSearch ==
    ASSUME UNCHANGED <<entities, relations, was>>,
           find'.query = find.query, find'.hops = find.hops
    PROVE  /\ \A k : Sure(k)' = Sure(k) /\ Possible(k)' = Possible(k)
           /\ ChunksOf(entities, Possible(find.hops))' = ChunksOf(entities, Possible(find.hops))
BY DEF Sure, Possible

LEMMA MatchKeeps ==
    ASSUME GraphInv, NEW query \in Like, NEW hops \in HopLimits, Match(query, hops)
    PROVE  GraphInv'
<1> DEFINE rows == {row \in entities : row[1] \in query}
           seen == {row[1] : row \in rows}
<1>1. /\ find' = [at |-> IF rows = {} \/ hops = 0 THEN "answered" ELSE "expand",
                  query |-> query, hops |-> hops, left |-> hops, todo |-> seen,
                  visited |-> seen, next |-> {}, hits |-> {row[2] : row \in rows}]
      /\ was' = [entities |-> entities, relations |-> relations]
      /\ UNCHANGED <<live, entities, relations, building, reported>>
    BY DEF Match
<1>2. /\ entities \in SUBSET (EntityNames \X GraphChunks)
      /\ relations \in SUBSET (EntityNames \X EntityNames)
      /\ hops \in Nat
    BY GraphAssumption DEF GraphInv, GraphTypeOK
<1>3. seen \in SUBSET EntityNames /\ {row[2] : row \in rows} \in SUBSET GraphChunks
    BY <1>2
<1>4. seen = Starts(entities, query)
    BY DEF Starts
<1>5. {row[2] : row \in rows} = ChunksOf(entities, seen)
    BY DEF ChunksOf
<1> HIDE DEF rows, seen
<1>6. /\ find'.at \in {"answered", "expand"} /\ find'.at = "expand" => hops # 0
      /\ find'.query = query /\ find'.hops = hops /\ find'.left = hops
      /\ find'.todo = seen /\ find'.visited = seen /\ find'.next = {}
      /\ find'.hits = ChunksOf(entities, seen)
      /\ find'.at = "answered" => rows = {} \/ hops = 0
    BY <1>1, <1>5
<1>7. find' \in Searches
    BY <1>1, <1>2, <1>3 DEF Searches
<1>8. was'.entities = entities /\ was'.relations = relations
    BY <1>1
<1>9. \A k : /\ Sure(k)' = Ends(entities, relations, query, k)
             /\ Possible(k)' = Ends(entities, relations, query, k)
    BY <1>1, <1>6, <1>8 DEF Sure, Possible
<1>10. /\ Ends(entities, relations, query, 0) = seen
       /\ \A k : seen = {} => Ends(entities, relations, query, k) = {}
    BY <1>2, <1>4, EndsStart
<1>11. Hop' = 0 /\ 0 \in Nat /\ 1 \in Nat
    BY <1>2, <1>6 DEF Hop
<1>12. \A k \in Nat : /\ seen \subseteq Ends(entities, relations, query, k)
                      /\ ChunksOf(entities, seen)
                            \subseteq ChunksOf(entities, Ends(entities, relations, query, k))
  <2> SUFFICES ASSUME NEW k \in Nat
               PROVE  /\ seen \subseteq Ends(entities, relations, query, k)
                      /\ ChunksOf(entities, seen)
                            \subseteq ChunksOf(entities, Ends(entities, relations, query, k))
      OBVIOUS
  <2>1. 0 <= k /\ 0 \in Nat
      OBVIOUS
  <2> QED BY <1>10, <2>1, EndsGrow
<1>13. Expanding' \/ find'.at # "expand"
  <2> SUFFICES ASSUME find'.at = "expand" PROVE Expanding'
      OBVIOUS
  <2>1. find'.left \in 1..find'.hops
      BY <1>2, <1>6
  <2>2. Closed(find.visited \ (find.todo \cup find.next))' /\ HasRead(find.visited \ find.next)'
      BY <1>6, <1>8 DEF Closed, HasRead
  <2> QED BY <1>6, <1>9, <1>10, <1>11, <1>12, <2>1, <2>2 DEF Expanding
<1>14. find'.at = "answered" => ChunksOf(entities, Ends(entities, relations, query, hops)) \subseteq find'.hits
  <2>1. rows = {} => seen = {}
      BY DEF seen
  <2>2. ChunksOf(entities, {}) = {}
      BY DEF ChunksOf
  <2> QED BY <1>6, <1>10, <2>1, <2>2
<1>15. find'.hits \subseteq ChunksOf(entities, Ends(entities, relations, query, hops))
    BY <1>2, <1>6, <1>12
<1>16. Searching'
    BY <1>1, <1>6, <1>7, <1>8, <1>9, <1>13, <1>14, <1>15 DEF Searching
<1>17. Before' /\ CountsLanded'
    BY <1>1, <1>8 DEF GraphInv, Before, CountsLanded
<1>18. GraphTypeOK'
  <2>1. find'.at = "expand" => find'.left \in 1..find'.hops
      BY <1>13 DEF Expanding
  <2> QED BY <1>1, <1>6, <2>1 DEF GraphInv, GraphTypeOK
<1> QED BY <1>16, <1>17, <1>18 DEF GraphInv

LEMMA ExpandKeeps ==
    ASSUME GraphInv, NEW n \in EntityNames, Expand(n)
    PROVE  GraphInv'
<1> DEFINE near == Beside(n, relations)
<1>1. /\ find.at = "expand" /\ n \in find.todo
      /\ find' = [find EXCEPT !.todo = @ \ {n}, !.visited = @ \cup near,
                              !.next = @ \cup (near \ find.visited)]
      /\ UNCHANGED <<live, entities, relations, building, reported, was>>
    BY DEF Expand
<1>2. /\ relations \in SUBSET (EntityNames \X EntityNames) /\ was.relations \subseteq relations
      /\ find \in Searches /\ Expanding
      /\ find.hits \subseteq ChunksOf(entities, Possible(find.hops))
    BY <1>1 DEF GraphInv, GraphTypeOK, Before, Searching
<1>3. /\ near \subseteq EntityNames
      /\ \A y \in EntityNames : Linked(was.relations, n, y) => y \in near
      /\ \A y \in near : y = n \/ Linked(relations, n, y)
  <2>1. \A y : Linked(was.relations, n, y) => Linked(relations, n, y)
      BY <1>2 DEF Linked
  <2> QED BY <1>2, <2>1, BesideLinked
<1> HIDE DEF near
<1>4. /\ find'.at = "expand" /\ find'.query = find.query /\ find'.hops = find.hops
      /\ find'.left = find.left /\ find'.hits = find.hits
      /\ find'.todo = find.todo \ {n} /\ find'.visited = find.visited \cup near
      /\ find'.next = find.next \cup (near \ find.visited)
      /\ find' \in Searches
    BY <1>1, <1>2, <1>3 DEF Searches
<1>5. /\ \A k : Sure(k)' = Sure(k) /\ Possible(k)' = Possible(k)
      /\ ChunksOf(entities, Possible(find.hops))' = ChunksOf(entities, Possible(find.hops))
      /\ Hop' = Hop /\ Hop \in Nat
    BY <1>1, <1>2, <1>4, SameSearch DEF Hop, Expanding, Searches
<1>6. find'.visited \ find'.next = find.visited \ find.next
    BY <1>2, <1>4 DEF Expanding
<1>7. near \subseteq Possible(Hop + 1)
  <2>1. n \in Possible(Hop)
      BY <1>1, <1>2 DEF Expanding
  <2>2. n \in Possible(Hop + 1)
      BY <1>1, <1>2 DEF Expanding
  <2> QED BY <1>3, <1>5, <2>1, <2>2, EndsNext DEF Possible
<1>8. Closed(find.visited \ (find.todo \cup find.next))'
  <2> SUFFICES ASSUME NEW x \in find'.visited \ (find'.todo \cup find'.next),
                      NEW y \in EntityNames, Linked(was.relations, x, y)
               PROVE  y \in find'.visited
      BY <1>1 DEF Closed
  <2>1. CASE x = n
      BY <1>3, <1>4, <2>1
  <2>2. CASE x # n
    <3>1. x \in find.visited \ (find.todo \cup find.next)
        BY <1>4, <2>2
    <3> QED BY <3>1, <1>2, <1>4 DEF Expanding, Closed
  <2> QED BY <2>1, <2>2
<1>9. Expanding'
  <2>1. HasRead(find.visited \ find.next)'
      BY <1>1, <1>2, <1>4, <1>6 DEF Expanding, HasRead
  <2>2. /\ find'.todo \cup find'.next \subseteq find'.visited
        /\ find'.todo \cap find'.next = {}
      BY <1>2, <1>4 DEF Expanding
  <2> QED BY <1>2, <1>4, <1>5, <1>6, <1>7, <1>8, <2>1, <2>2 DEF Expanding
<1>10. Searching'
    BY <1>2, <1>4, <1>5, <1>9 DEF Searching
<1>11. Before' /\ CountsLanded' /\ GraphTypeOK'
    BY <1>1, <1>2, <1>4 DEF GraphInv, Before, CountsLanded, GraphTypeOK, Expanding
<1> QED BY <1>10, <1>11 DEF GraphInv

LEMMA EndHopKeeps ==
    ASSUME GraphInv, EndHop
    PROVE  GraphInv'
<1>1. /\ find.at = "expand" /\ find.todo = {}
      /\ find' = IF find.next = {} THEN [find EXCEPT !.at = "answered"]
                 ELSE [find EXCEPT !.at = "chunks", !.todo = find.next]
      /\ UNCHANGED <<live, entities, relations, building, reported, was>>
    BY DEF EndHop
<1>2. /\ find \in Searches /\ Expanding
      /\ find.hits \subseteq ChunksOf(entities, Possible(find.hops))
    BY <1>1 DEF GraphInv, Searching
<1>3. /\ find'.query = find.query /\ find'.hops = find.hops /\ find'.left = find.left
      /\ find'.hits = find.hits /\ find'.visited = find.visited /\ find'.next = find.next
      /\ find'.at = IF find.next = {} THEN "answered" ELSE "chunks"
      /\ find.next # {} => find'.todo = find.next
      /\ find' \in Searches
    BY <1>1, <1>2 DEF Searches
<1>4. /\ \A k : Sure(k)' = Sure(k) /\ Possible(k)' = Possible(k)
      /\ ChunksOf(entities, Possible(find.hops))' = ChunksOf(entities, Possible(find.hops))
      /\ Hop' = Hop /\ Hop \in Nat /\ find.hops \in Nat
    BY <1>1, <1>2, <1>3, SameSearch DEF Hop, Expanding, Searches
<1>5. Closed(find.visited \ find.next)
    BY <1>1, <1>2 DEF Expanding, Closed
<1>6. ASSUME find.next = {} PROVE ChunksOf(was.entities, Sure(find.hops)) \subseteq find.hits
  <2>1. 0 \in Nat /\ 0 <= Hop
      BY <1>4
  <2>2. Sure(0) \subseteq find.visited
      BY <1>2, <1>4, <2>1, EndsGrow DEF Expanding, Sure
  <2>3. \A k \in Nat : Sure(k) \subseteq find.visited
      BY <1>5, <1>6, <2>2, ClosedHoldsEnds DEF Closed, Sure
  <2>4. HasRead(find.visited)
      BY <1>2, <1>6 DEF Expanding, HasRead
  <2> QED BY <1>4, <2>3, <2>4 DEF HasRead, ChunksOf
<1>7. ASSUME find.next # {} PROVE Reading'
  <2>1. Sure(Hop + 1) \subseteq find.visited
    <3> SUFFICES ASSUME NEW y \in Sure(Hop + 1) PROVE y \in find.visited
        OBVIOUS
    <3>1. y \in EntityNames
        BY DEF Sure, Ends
    <3>2. y \in Sure(Hop) \/ \E x \in Sure(Hop) : Linked(was.relations, x, y)
        BY <1>4, EndsNext DEF Sure
    <3>3. Sure(Hop) \subseteq find.visited \ find.next
        BY <1>2 DEF Expanding
    <3> QED BY <1>5, <3>1, <3>2, <3>3 DEF Closed
  <2>2. Closed(find.visited \ find.next)' /\ HasRead(find.visited \ find.todo)'
      BY <1>1, <1>2, <1>3, <1>5, <1>7 DEF Closed, HasRead, Expanding
  <2> QED BY <1>2, <1>3, <1>4, <1>7, <2>1, <2>2 DEF Reading, Expanding
<1>8. Searching'
    BY <1>1, <1>2, <1>3, <1>4, <1>6, <1>7 DEF Searching
<1>9. Before' /\ CountsLanded' /\ GraphTypeOK'
    BY <1>1, <1>3 DEF GraphInv, Before, CountsLanded, GraphTypeOK
<1> QED BY <1>8, <1>9 DEF GraphInv

LEMMA ReadKeeps ==
    ASSUME GraphInv, NEW n \in EntityNames, ReadChunks(n)
    PROVE  GraphInv'
<1>1. /\ find.at = "chunks" /\ n \in find.todo
      /\ find' = [find EXCEPT !.todo = @ \ {n},
                    !.hits = @ \cup {row[2] : row \in {r \in entities : r[1] = n}}]
      /\ UNCHANGED <<live, entities, relations, building, reported, was>>
    BY DEF ReadChunks
<1>2. /\ find \in Searches /\ Reading
      /\ find.hits \subseteq ChunksOf(entities, Possible(find.hops))
      /\ entities \in SUBSET (EntityNames \X GraphChunks) /\ was.entities \subseteq entities
    BY <1>1 DEF GraphInv, GraphTypeOK, Before, Searching
<1>3. {row[2] : row \in {r \in entities : r[1] = n}} = ChunksOf(entities, {n})
    BY DEF ChunksOf
<1>4. ChunksOf(entities, {n}) \subseteq GraphChunks
    BY <1>2 DEF ChunksOf
<1>5. /\ find'.at = "chunks" /\ find'.query = find.query /\ find'.hops = find.hops
      /\ find'.left = find.left /\ find'.visited = find.visited /\ find'.next = find.next
      /\ find'.todo = find.todo \ {n} /\ find'.hits = find.hits \cup ChunksOf(entities, {n})
      /\ find' \in Searches
    BY <1>1, <1>2, <1>3, <1>4 DEF Searches
<1>6. /\ \A k : Sure(k)' = Sure(k) /\ Possible(k)' = Possible(k)
      /\ ChunksOf(entities, Possible(find.hops))' = ChunksOf(entities, Possible(find.hops))
      /\ Hop' = Hop /\ Hop \in Nat /\ Hop + 1 \in Nat /\ Hop + 1 <= find.hops /\ find.hops \in Nat
  <2>1. find.left \in 1..find.hops /\ find.hops \in Nat
      BY <1>2 DEF Reading, Searches
  <2>2. Hop' = Hop /\ Hop \in Nat /\ Hop + 1 \in Nat /\ Hop + 1 <= find.hops
      BY <1>5, <2>1 DEF Hop
  <2> QED BY <1>1, <1>5, <2>1, <2>2, SameSearch
<1>7. find'.hits \subseteq ChunksOf(entities, Possible(find.hops))
  <2>1. n \in Possible(Hop + 1)
      BY <1>1, <1>2 DEF Reading
  <2>2. Possible(Hop + 1) \subseteq Possible(find.hops)
      BY <1>6, EndsGrow DEF Possible
  <2>3. ChunksOf(entities, {n}) \subseteq ChunksOf(entities, Possible(find.hops))
      BY <2>1, <2>2 DEF ChunksOf
  <2> QED BY <1>2, <1>5, <2>3
<1>8. HasRead(find.visited \ find.todo)'
    BY <1>1, <1>2, <1>5 DEF Reading, HasRead, ChunksOf
<1>9. Reading'
  <2>1. Closed(find.visited \ find.next)'
      BY <1>1, <1>2, <1>5 DEF Reading, Closed
  <2> QED BY <1>2, <1>5, <1>6, <1>8, <2>1 DEF Reading
<1>10. Searching'
    BY <1>5, <1>6, <1>7, <1>9 DEF Searching
<1>11. Before' /\ CountsLanded' /\ GraphTypeOK'
    BY <1>1, <1>5 DEF GraphInv, Before, CountsLanded, GraphTypeOK
<1> QED BY <1>10, <1>11 DEF GraphInv

LEMMA NextHopKeeps ==
    ASSUME GraphInv, NextHop
    PROVE  GraphInv'
<1>1. /\ find.at = "chunks" /\ find.todo = {}
      /\ find' = [find EXCEPT !.at = IF find.left > 1 THEN "expand" ELSE "answered",
                              !.left = @ - 1, !.todo = find.next, !.next = {}]
      /\ UNCHANGED <<live, entities, relations, building, reported, was>>
    BY DEF NextHop, More
<1>2. /\ find \in Searches /\ Reading
      /\ find.hits \subseteq ChunksOf(entities, Possible(find.hops))
    BY <1>1 DEF GraphInv, Searching
<1>3. find.left \in 1..find.hops /\ find.hops \in Nat /\ find.left \in Nat /\ find.left - 1 \in Nat
    BY <1>2 DEF Reading, Searches
<1>4. /\ find'.at = IF find.left > 1 THEN "expand" ELSE "answered"
      /\ find'.query = find.query /\ find'.hops = find.hops /\ find'.left = find.left - 1
      /\ find'.visited = find.visited /\ find'.hits = find.hits
      /\ find'.todo = find.next /\ find'.next = {}
      /\ find' \in Searches
    BY <1>1, <1>2, <1>3 DEF Searches
<1>5. /\ \A k : Sure(k)' = Sure(k) /\ Possible(k)' = Possible(k)
      /\ ChunksOf(entities, Possible(find.hops))' = ChunksOf(entities, Possible(find.hops))
    BY <1>1, <1>4, SameSearch
<1>6. Hop' = Hop + 1 /\ Hop \in Nat
    BY <1>3, <1>4 DEF Hop
<1>7. HasRead(find.visited)
    BY <1>1, <1>2 DEF Reading, HasRead
<1>8. ASSUME find.left > 1 PROVE Expanding'
  <2>1. find'.left \in 1..find'.hops
      BY <1>3, <1>4, <1>8
  <2>2. Closed(find.visited \ (find.todo \cup find.next))' /\ HasRead(find.visited \ find.next)'
      BY <1>1, <1>2, <1>4, <1>7 DEF Closed, HasRead, Reading
  <2>3. Possible(Hop + 1) \subseteq Possible(Hop + 1 + 1)
      BY <1>6, EndsGrow DEF Possible
  <2> QED BY <1>2, <1>4, <1>5, <1>6, <2>1, <2>2, <2>3 DEF Expanding, Reading
<1>9. ASSUME ~(find.left > 1) PROVE ChunksOf(was.entities, Sure(find.hops)) \subseteq find.hits
  <2>1. Hop + 1 = find.hops
      BY <1>3, <1>9 DEF Hop
  <2> QED BY <1>2, <1>7, <2>1 DEF Reading, HasRead, ChunksOf
<1>10. Searching'
    BY <1>1, <1>2, <1>4, <1>5, <1>8, <1>9 DEF Searching
<1>11. Before' /\ CountsLanded' /\ GraphTypeOK'
    BY <1>1, <1>4, <1>8 DEF GraphInv, Before, CountsLanded, GraphTypeOK, Expanding
<1> QED BY <1>10, <1>11 DEF GraphInv

\* What an answered build brings is typed.
LEMMA FinishKeeps ==
    ASSUME GraphInv, NEW b \in GraphBuilds, FinishBuild(b)
    PROVE  GraphInv'
<1>1. /\ building[b] \notin {NotBegun, Over} /\ building' = [building EXCEPT ![b] = Over]
      /\ UNCHANGED <<live, find, was>>
    BY DEF FinishBuild
<1>2. PICK answered \in SUBSET building[b] :
          /\ entities' = entities \cup EntityRows(answered)
          /\ relations' = relations \cup RelationRows(answered)
          /\ reported' =
                 [entities  |-> reported.entities + Landed(EntityRows(answered), entities),
                  relations |-> reported.relations + Landed(RelationRows(answered), relations)]
    BY DEF FinishBuild
<1>3. answered \subseteq GraphChunks
    BY <1>1 DEF GraphInv, GraphTypeOK
<1>4. /\ EntityRows(answered) \in SUBSET (EntityNames \X GraphChunks)
      /\ RelationRows(answered) \in SUBSET (EntityNames \X EntityNames)
    BY <1>3, GraphAssumption DEF EntityRows, RelationRows
<1>5. /\ entities \in SUBSET (EntityNames \X GraphChunks)
      /\ relations \in SUBSET (EntityNames \X EntityNames)
    BY DEF GraphInv, GraphTypeOK
<1>6. IsFiniteSet(EntityNames \X GraphChunks) /\ IsFiniteSet(EntityNames \X EntityNames)
    BY GraphAssumption, FS_Product
<1>7. /\ Cardinality(entities') = Cardinality(entities) + Landed(EntityRows(answered), entities)
      /\ Cardinality(relations') = Cardinality(relations) + Landed(RelationRows(answered), relations)
    BY <1>2, <1>4, <1>5, <1>6, Landing
<1>8. CountsLanded'
    BY <1>2, <1>7 DEF GraphInv, CountsLanded
<1>9. GraphTypeOK'
    BY <1>1, <1>2, <1>4, <1>5 DEF GraphInv, GraphTypeOK
<1>10. Before' /\ Searching'
    BY <1>1, <1>2, SearchSurvives
<1> QED BY <1>8, <1>9, <1>10 DEF GraphInv

LEMMA GraphStep == GraphInv /\ [GraphNext]_graphVars => GraphInv'
<1> SUFFICES ASSUME GraphInv, [GraphNext]_graphVars PROVE GraphInv'
    OBVIOUS
<1>1. ASSUME UNCHANGED <<entities, relations, find, reported, was>>, live' \subseteq live,
             \A b \in GraphBuilds : building'[b] \in (SUBSET GraphChunks) \cup {Over}
      PROVE  GraphInv'
  <2>1. Before' /\ Searching'
      BY <1>1, SearchSurvives
  <2>2. CountsLanded' /\ GraphTypeOK'
      BY <1>1 DEF GraphInv, CountsLanded, GraphTypeOK
  <2> QED BY <2>1, <2>2 DEF GraphInv
<1>2. ASSUME NEW c \in GraphChunks, Forget(c) PROVE GraphInv'
    BY <1>1, <1>2 DEF Forget, GraphInv, GraphTypeOK
<1>3. ASSUME NEW b \in GraphBuilds, BeginBuild(b) PROVE GraphInv'
  <2>1. PICK chunks \in kSubset(Min({MaxChunks, Cardinality(live)}), live) :
            building' = [building EXCEPT ![b] = chunks]
      BY <1>3 DEF BeginBuild
  <2>2. chunks \subseteq GraphChunks
      BY DEF kSubset, GraphInv, GraphTypeOK
  <2>3. \A a \in GraphBuilds : building'[a] \in (SUBSET GraphChunks) \cup {Over}
      BY <2>1, <2>2 DEF GraphInv, GraphTypeOK
  <2>4. UNCHANGED <<live, entities, relations, find, reported, was>>
      BY <1>3 DEF BeginBuild
  <2> QED BY <1>1, <2>3, <2>4
<1>4. ASSUME NEW b \in GraphBuilds, BuildFails(b) PROVE GraphInv'
  <2>1. \A a \in GraphBuilds : building'[a] \in (SUBSET GraphChunks) \cup {Over}
      BY <1>4 DEF BuildFails, GraphInv, GraphTypeOK
  <2> QED BY <1>1, <1>4, <2>1 DEF BuildFails
<1>5. ASSUME SendHits PROVE GraphInv'
  <2>1. /\ find'.at = "idle" /\ UNCHANGED <<live, entities, relations, building, reported, was>>
      BY <1>5 DEF SendHits, NoSearch
  <2> QED BY <2>1 DEF GraphInv, CountsLanded, GraphTypeOK, Before, Searching
<1>6. CASE UNCHANGED graphVars
    BY <1>1, <1>6 DEF graphVars, GraphInv, GraphTypeOK
<1> QED BY <1>2, <1>3, <1>4, <1>5, <1>6, MatchKeeps, ExpandKeeps, EndHopKeeps, ReadKeeps,
           NextHopKeeps, FinishKeeps DEF GraphNext

\* After each hop the names of a search lie between the ends of paths in the
\* tables as they were when it began and as they are.
THEOREM GraphInvariant == GraphSpec => []GraphInv
BY GraphInitInv, GraphStep, PTL DEF GraphSpec

\* The counts that builds answer add up to the tables, and a search across builds
\* finds no less than the tables held at its start and no more than they hold now
\* (graph_rag.py).
THEOREM GraphCorrect == GraphSpec => []GraphSafe
<1>1. GraphInv => GraphSafe
  <2> SUFFICES ASSUME GraphInv PROVE GraphSafe
      OBVIOUS
  <2>1. ASSUME find.at = "answered"
        PROVE  /\ Reference(was, find.query, find.hops) \subseteq find.hits
               /\ find.hits \subseteq Reference([entities |-> entities, relations |-> relations],
                                                find.query, find.hops)
    <3>1. find.hops \in Nat
        BY <2>1 DEF GraphInv, Searching, Searches
    <3> DEFINE now == [entities |-> entities, relations |-> relations]
    <3>2. now.entities = entities /\ now.relations = relations
        OBVIOUS
    <3> HIDE DEF now
    <3>3. Reference(was, find.query, find.hops) = ChunksOf(was.entities, Sure(find.hops))
        BY <3>1, ReferenceEnds DEF Sure
    <3>4. Reference(now, find.query, find.hops) = ChunksOf(entities, Possible(find.hops))
        BY <3>1, <3>2, ReferenceEnds DEF Possible
    <3>5. /\ find.hits \subseteq ChunksOf(entities, Possible(find.hops))
          /\ ChunksOf(was.entities, Sure(find.hops)) \subseteq find.hits
        BY <2>1 DEF GraphInv, Searching
    <3> QED BY <3>3, <3>4, <3>5 DEF now
  <2> QED BY <2>1 DEF GraphInv, GraphSafe, SearchBetween
<1> QED BY <1>1, GraphInvariant, PTL

=============================================================================
