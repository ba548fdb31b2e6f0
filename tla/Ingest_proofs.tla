---------------------------- MODULE Ingest_proofs ----------------------------
(***************************************************************************)
(* Proofs about what becomes of a text before it is stored: Chunker and    *)
(* AstChunks, which cut it, and Embedding, which asks for vectors.         *)
(*                                                                         *)
(* Chunker: the invariant says where from stands, at the end of a section  *)
(* and no further than the sections that were taken when they are          *)
(* collected (what lies between fits a chunk), within the section at hand  *)
(* when windows are cut.  AstChunks: it says what the statements that were *)
(* taken have closed.                                                      *)
(*                                                                         *)
(* Embedding: a call has the vectors of the first of the texts it asked    *)
(* for, in their order (CallOK), and puts each in the place of its rank.   *)
(* The cache has no more rows than its counter says, up to the rows of one *)
(* age and what failed writes left uncounted (CacheInv).                   *)
(***************************************************************************)
EXTENDS Chunker, AstChunks, Embedding, SequenceTheorems, FiniteSetTheorems,
        WellFoundedInduction, TLAPS

Bounds ==
    /\ doc \in Documents /\ way \in {"semantic", "fixed", "code"}
    /\ at \in 0..doc.n /\ from \in 0..End(doc.n)
    /\ made \in Seq([from : 0..End(doc.n), to : 0..End(doc.n)])

Collecting ==
    way = "semantic" =>
        /\ from <= End(at)
        /\ from < End(at) => Fits(from, End(at))

Cutting ==
    way # "semantic" =>
        /\ End(at) <= from
        /\ at < doc.n => from < End(at + 1)

ChunkInv == Bounds /\ Collecting /\ Cutting /\ NothingLost /\ ChunksFit
-----------------------------------------------------------------------------
(* A text and a chunk that is added.                                       *)

\* The ends of the sections of a text are naturals that grow from 0.
LEMMA Ends ==
  ASSUME doc \in Documents
  PROVE  /\ doc.n \in Nat \ {0} /\ End(0) = 0
         /\ \A i \in 0..doc.n : End(i) \in Nat /\ End(i) <= End(doc.n)
         /\ \A i, j \in 0..doc.n : i < j => End(i) < End(j)
<1>1. /\ doc.n \in Nat \ {0} /\ doc.off \in [0..doc.n -> Nat] /\ doc.off[0] = 0
      /\ \A i, j \in 0..doc.n : i < j => doc.off[i] < doc.off[j]
  BY ChunkerAssumption
<1>2. ASSUME NEW i \in 0..doc.n
      PROVE  End(i) \in Nat /\ End(i) <= End(doc.n)
  <2>1. doc.off[i] \in Nat /\ doc.off[doc.n] \in Nat
    BY <1>1
  <2>2. i < doc.n \/ i = doc.n
    BY <1>1
  <2> QED
    BY <1>1, <2>1, <2>2 DEF End
<1> QED
  BY <1>1, <1>2 DEF End

\* A chunk that begins where the text was covered and ends no earlier than it
\* is covered now leaves nothing out; it keeps the types and the fit.
LEMMA EmitKeeps ==
  ASSUME Bounds, NothingLost, ChunksFit, UNCHANGED <<doc, way>>,
         NEW b \in 0..End(doc.n), Emit(from, b), Fits(from, b),
         from' \in 0..b
  PROVE  /\ made' \in Seq([from : 0..End(doc.n), to : 0..End(doc.n)])
         /\ NothingLost' /\ ChunksFit'
<1> DEFINE new == [from |-> from, to |-> b]
<1>1. /\ made \in Seq([from : 0..End(doc.n), to : 0..End(doc.n)])
      /\ new \in [from : 0..End(doc.n), to : 0..End(doc.n)]
      /\ made' = Append(made, new)
      /\ doc \in Documents /\ from \in 0..End(doc.n)
  BY DEF Bounds, Emit
<1>2. /\ End(doc.n) \in Nat /\ b \in Nat /\ b <= End(doc.n)
      /\ from' \in Nat /\ from' <= b
  <2>1. End(doc.n) \in Nat
    BY <1>1, Ends
  <2> QED
    BY <2>1
<1> HIDE DEF new
<1>3. /\ made' \in Seq([from : 0..End(doc.n), to : 0..End(doc.n)])
      /\ Len(made') = Len(made) + 1 /\ Len(made) \in Nat
      /\ \A i \in 1..Len(made) : made'[i] = made[i]
      /\ made'[Len(made) + 1] = new
  BY <1>1
<1>4. new.from = from /\ new.to = b
  BY DEF new
<1>5. ASSUME NEW p \in Nat, p < from'
      PROVE  \E i \in 1..Len(made') : made'[i].from <= p /\ p < made'[i].to
  <2>1. CASE p < from
    <3>1. p \in 0..(from - 1)
      BY <2>1, <1>1, <1>2
    <3>2. PICK i \in 1..Len(made) : made[i].from <= p /\ p < made[i].to
      BY <3>1 DEF NothingLost
    <3>3. i \in 1..Len(made') /\ made'[i] = made[i]
      BY <1>3, <3>2
    <3> QED
      BY <3>2, <3>3
  <2>2. CASE from <= p
    <3>1. p < b
      BY <1>2, <1>5
    <3>2. Len(made) + 1 \in 1..Len(made')
      BY <1>3
    <3> QED
      BY <2>2, <3>1, <3>2, <1>3, <1>4
  <2>3. from \in Nat
    BY <1>1, <1>2
  <2>4. p < from \/ from <= p
    BY <2>3
  <2> QED
    BY <2>1, <2>2, <2>4
<1>6. ASSUME NEW i \in 1..Len(made')
      PROVE  Fits(made[i].from, made[i].to)'
  <2>1. Fits(made[i].from, made[i].to)' <=> Fits(made'[i].from, made'[i].to)
    BY DEF Fits, End
  <2>2. CASE i \in 1..Len(made)
    <3>1. Fits(made[i].from, made[i].to)
      BY <2>2 DEF ChunksFit
    <3> QED
      BY <2>1, <2>2, <3>1, <1>3
  <2>3. CASE i = Len(made) + 1
    BY <2>1, <2>3, <1>3, <1>4
  <2> QED
    BY <2>2, <2>3, <1>3
<1>7. NothingLost'
  <2>1. ASSUME NEW n \in Nat
        PROVE  \A p \in 0..(n - 1) : p \in Nat /\ p < n
    OBVIOUS
  <2>2. \A p \in 0..(from' - 1) : p \in Nat /\ p < from'
    BY <1>2, <2>1
  <2> QED
    BY <1>5, <2>2 DEF NothingLost
<1> QED
  BY <1>3, <1>6, <1>7 DEF ChunksFit

-----------------------------------------------------------------------------
(* The invariant.                                                          *)

\* A chunker that has read nothing satisfies the invariant.
LEMMA ChunkInitInv == ChunkInit => ChunkInv
<1> SUFFICES ASSUME ChunkInit PROVE ChunkInv
  OBVIOUS
<1>1. /\ doc \in Documents /\ way \in {"semantic", "fixed", "code"}
      /\ at = 0 /\ from = 0 /\ made = <<>>
  BY DEF ChunkInit
<1>2. /\ doc.n \in Nat \ {0} /\ End(0) = 0 /\ End(doc.n) \in Nat /\ End(0) < End(1)
  BY <1>1, Ends
<1>3. Bounds
  BY <1>1, <1>2 DEF Bounds
<1>4. Collecting /\ Cutting
  BY <1>1, <1>2 DEF Collecting, Cutting
<1>5. NothingLost /\ ChunksFit
  BY <1>1 DEF NothingLost, ChunksFit
<1> QED
  BY <1>3, <1>4, <1>5 DEF ChunkInv

\* A section, a window and a definition that is taken keep the invariant.
LEMMA ChunkStepInv == ChunkInv /\ [ChunkNext]_chunkVars => ChunkInv'
<1> SUFFICES ASSUME ChunkInv, [ChunkNext]_chunkVars PROVE ChunkInv'
  OBVIOUS
<1>1. /\ Bounds /\ Collecting /\ Cutting /\ NothingLost /\ ChunksFit
      /\ doc \in Documents /\ way \in {"semantic", "fixed", "code"}
      /\ at \in 0..doc.n /\ from \in 0..End(doc.n)
  BY DEF ChunkInv, Bounds
<1>2. /\ doc.n \in Nat \ {0}
      /\ \A i \in 0..doc.n : End(i) \in Nat /\ End(i) <= End(doc.n)
      /\ \A i, j \in 0..doc.n : i < j => End(i) < End(j)
  BY <1>1, Ends
<1>3. ChunkSize \in Nat /\ ChunkOverlap \in Nat /\ ChunkOverlap < ChunkSize
  BY ChunkerAssumption
<1>4. CASE AddSection
  <2>1. /\ way = "semantic" /\ at < doc.n /\ at' = at + 1
        /\ UNCHANGED <<doc, way>>
    BY <1>4 DEF AddSection
  <2>2. \A i : End(i)' = End(i)
    BY <2>1 DEF End
  <2>3. /\ at \in 0..(doc.n - 1) /\ at' \in 0..doc.n
        /\ End(at) \in Nat /\ End(at + 1) \in Nat /\ End(at) < End(at + 1)
        /\ from <= End(at)
    BY <2>1, <1>1, <1>2 DEF Collecting
  <2>4. CASE ~Overfull(at + 1) /\ UNCHANGED <<from, made>>
    <3>1. Fits(from, End(at + 1))
      <4>1. CASE from < End(at)
        BY <2>3, <2>4, <4>1, <1>1, <1>3 DEF Overfull, Fits
      <4>2. CASE from = End(at)
        BY <2>1, <2>3, <4>2, <1>3 DEF Fits
      <4> QED
        BY <2>3, <1>1, <4>1, <4>2
    <3>3. Collecting'
      <4>1. from' = from /\ End(at)' = End(at + 1) /\ way' = way
        BY <2>1, <2>4 DEF End
      <4>2. Fits(from, End(at))' <=> Fits(from, End(at + 1))
        BY <2>1, <2>4, <4>1 DEF Fits, End
      <4>3. from <= End(at + 1)
        BY <2>3, <1>1, <1>2
      <4> QED
        BY <3>1, <4>1, <4>2, <4>3 DEF Collecting
    <3>4. Bounds' /\ Cutting' /\ NothingLost' /\ ChunksFit'
      BY <1>1, <2>1, <2>2, <2>3, <2>4 DEF Bounds, Cutting, NothingLost, ChunksFit, Fits
    <3> QED
      BY <3>3, <3>4 DEF ChunkInv
  <2>5. CASE /\ Overfull(at + 1) /\ Emit(from, End(at))
             /\ from' \in {p \in 0..End(at) : Carries(p)}
    <3>1. from < End(at) /\ from' \in 0..End(at) /\ End(at) - from' <= ChunkOverlap
      BY <2>5 DEF Overfull, Carries
    <3>2. Fits(from, End(at))
      BY <2>1, <3>1, <1>1 DEF Collecting
    <3>3. End(at) \in 0..End(doc.n)
      BY <1>1, <1>2
    <3>4. /\ made' \in Seq([from : 0..End(doc.n), to : 0..End(doc.n)])
          /\ NothingLost' /\ ChunksFit'
      BY <1>1, <2>1, <2>5, <3>1, <3>2, <3>3, EmitKeeps
    <3>5. Bounds'
      <4>1. doc' = doc /\ way' = way /\ End(doc.n)' = End(doc.n)
        BY <2>1 DEF End
      <4>2. from' \in 0..End(doc.n)
        <5>1. End(doc.n) \in Nat /\ End(at) \in Nat
          BY <1>2, <2>3
        <5> QED
          BY <3>1, <3>3, <5>1
      <4> QED
        BY <1>1, <2>3, <3>4, <4>1, <4>2 DEF Bounds
    <3>6. Fits(from', End(at + 1))
      BY <2>1, <2>3, <3>1 DEF Fits
    <3>7. Collecting'
      BY <2>1, <2>2, <2>3, <3>1, <3>6 DEF Collecting, Fits
    <3>8. Cutting'
      BY <2>1 DEF Cutting
    <3> QED
      BY <3>4, <3>5, <3>7, <3>8 DEF ChunkInv
  <2> QED
    BY <1>4, <2>4, <2>5 DEF AddSection
<1>5. CASE LastSections
  <2>1. /\ way = "semantic" /\ at = doc.n /\ from < End(at)
        /\ Emit(from, End(at)) /\ from' = End(at) /\ at' = at /\ UNCHANGED <<doc, way>>
    BY <1>5 DEF LastSections
  <2>2. /\ End(at) \in 0..End(doc.n) /\ from' \in 0..End(at)
        /\ \A i : End(i)' = End(i)
    BY <2>1, <1>1, <1>2 DEF End
  <2>3. Fits(from, End(at))
    BY <2>1, <1>1 DEF Collecting
  <2>4. /\ made' \in Seq([from : 0..End(doc.n), to : 0..End(doc.n)])
        /\ NothingLost' /\ ChunksFit'
    BY <1>1, <2>1, <2>2, <2>3, EmitKeeps
  <2>5. Bounds' /\ Collecting' /\ Cutting'
    BY <1>1, <1>2, <2>1, <2>2, <2>4 DEF Bounds, Collecting, Cutting, End
  <2> QED
    BY <2>4, <2>5 DEF ChunkInv
<1>6. CASE Window
  <2>1. /\ way # "semantic" /\ at < doc.n /\ UNCHANGED <<doc, way>>
        /\ Emit(from, Upto(from + ChunkSize)) /\ from' = Upto(from + Stride)
        /\ at' = IF from' = End(at + 1) THEN at + 1 ELSE at
    BY <1>6, <1>1 DEF Window
  <2>2. /\ at + 1 \in 0..doc.n /\ End(at + 1) \in 0..End(doc.n)
        /\ from < End(at + 1) /\ End(at) <= from /\ End(at) \in Nat
        /\ \A i : End(i)' = End(i)
    BY <2>1, <1>1, <1>2 DEF Cutting, End
  <2> DEFINE b == Upto(from + ChunkSize)
  <2>3. /\ b \in 0..End(doc.n) /\ b <= End(at + 1) /\ b - from <= ChunkSize
        /\ from' \in 0..b /\ from' <= End(at + 1) /\ from <= from'
    BY <2>1, <2>2, <1>1, <1>2, <1>3 DEF Upto, Stride
  <2>4. Fits(from, b)
    BY <2>3 DEF Fits
  <2>5. /\ made' \in Seq([from : 0..End(doc.n), to : 0..End(doc.n)])
        /\ NothingLost' /\ ChunksFit'
    <3> HIDE DEF b
    <3>1. Emit(from, b)
      BY <2>1 DEF b
    <3> QED
      BY <1>1, <2>1, <2>3, <2>4, <3>1, EmitKeeps
  <2> HIDE DEF b
  <2>6. Bounds'
    <3>1. doc' = doc /\ way' = way /\ End(doc.n)' = End(doc.n)
      BY <2>1 DEF End
    <3>2. from' \in 0..End(doc.n) /\ at' \in 0..doc.n
      <4>1. End(doc.n) \in Nat
        BY <1>2
      <4> QED
        BY <2>1, <2>2, <2>3, <1>1, <4>1
    <3> QED
      BY <1>1, <2>5, <3>1, <3>2 DEF Bounds
  <2>7. Collecting'
    BY <2>1 DEF Collecting
  <2>8. Cutting'
    <3>1. CASE from' = End(at + 1)
      <4>1. at' = at + 1
        BY <2>1, <3>1
      <4>2. at + 1 < doc.n => End(at + 1) < End(at + 2)
        BY <1>1, <1>2
      <4> QED
        BY <4>1, <4>2, <3>1, <2>1, <2>2, <1>1 DEF Cutting
    <3>2. CASE from' # End(at + 1)
      BY <3>2, <2>1, <2>2, <2>3, <1>1 DEF Cutting
    <3> QED
      BY <3>1, <3>2
  <2> QED
    BY <2>5, <2>6, <2>7, <2>8 DEF ChunkInv
<1>7. CASE Definition
  <2>1. /\ way # "semantic" /\ at < doc.n /\ ~Long /\ UNCHANGED <<doc, way>>
        /\ Emit(from, End(at + 1)) /\ from' = End(at + 1) /\ at' = at + 1
    BY <1>7 DEF Definition
  <2>2. /\ at + 1 \in 0..doc.n /\ End(at + 1) \in 0..End(doc.n) /\ End(at) \in Nat
        /\ End(at) <= from /\ from' \in 0..End(at + 1)
        /\ \A i : End(i)' = End(i)
    BY <2>1, <1>1, <1>2 DEF Cutting, End
  <2>3. Fits(from, End(at + 1))
    BY <2>1, <2>2, <1>1, <1>3 DEF Fits, Long
  <2>4. /\ made' \in Seq([from : 0..End(doc.n), to : 0..End(doc.n)])
        /\ NothingLost' /\ ChunksFit'
    BY <1>1, <2>1, <2>2, <2>3, EmitKeeps
  <2>5. at + 1 < doc.n => End(at + 1) < End(at + 2)
    BY <1>1, <1>2
  <2>6. Bounds' /\ Collecting' /\ Cutting'
    BY <1>1, <1>2, <2>1, <2>2, <2>4, <2>5 DEF Bounds, Collecting, Cutting, End
  <2> QED
    BY <2>4, <2>6 DEF ChunkInv
<1>8. CASE UNCHANGED chunkVars
  BY <1>8 DEF ChunkInv, chunkVars, Bounds, Collecting, Cutting, NothingLost, ChunksFit, Fits, End
<1> QED
  BY <1>4, <1>5, <1>6, <1>7, <1>8 DEF ChunkNext

\* For every text, size and overlap below the size, every reachable state of
\* the chunker satisfies the invariant.
THEOREM ChunkerInvariant == ChunkSpec => []ChunkInv
  BY ChunkInitInv, ChunkStepInv, PTL DEF ChunkSpec

\* The values that the loops of the chunker work with stay within the text.
THEOREM ChunkerTyped == ChunkSpec => []ChunkTypeOK
<1>1. ChunkInv => ChunkTypeOK
  BY DEF ChunkInv, Bounds, ChunkTypeOK
<1> QED
  BY ChunkerInvariant, <1>1, PTL

\* No character of a text is left out of the chunks that are stored of it.
THEOREM ChunkerLosesNothing == ChunkSpec => []NothingLost
<1>1. ChunkInv => NothingLost
  BY DEF ChunkInv
<1> QED
  BY ChunkerInvariant, <1>1, PTL

\* A chunk is longer than the size only by one section that follows an overlap.
THEOREM ChunkerFits == ChunkSpec => []ChunksFit
<1>1. ChunkInv => ChunksFit
  BY DEF ChunkInv
<1> QED
  BY ChunkerInvariant, <1>1, PTL

\* The three together, which is what the runs check of the chunker.
THEOREM ChunkerSound == ChunkSpec => []ChunkerSafe
  BY ChunkerTyped, ChunkerLosesNothing, ChunkerFits, PTL DEF ChunkerSafe

-----------------------------------------------------------------------------
(* Statements of a Python file.                                            *)

Size == Cardinality(DOMAIN body)
Body == body \in UNION {[1..n -> StatementKinds] : n \in 0..MaxStatements}

\* The chunks that the first t statements have closed: the definitions among
\* them, and the runs of imports after which another of them came.
Definitions(t) == {Piece("definition", {i}) : i \in {k \in Of("definition") : k <= t}}
RunsBefore(t)  == {q \in Of("import") \X Of("import") : q[1] <= q[2] /\ q[2] < t /\ Run(q[1], q[2])}
Runs(t)        == {Piece("imports", {q[1], q[2]}) : q \in RunsBefore(t)}

\* What was gathered is the run that ends with the last statement taken.
Open(s) == /\ s \in 1..taken /\ imports = s..taken
           /\ \A k \in s..taken : body[k] = "import"
           /\ s - 1 \in DOMAIN body => body[s - 1] # "import"
Gathered == \/ imports = {} /\ (taken \in DOMAIN body => body[taken] # "import")
            \/ \E s \in 1..taken : Open(s)

Loop == taken <= Size => /\ Gathered
                         /\ rest = {i \in Of("other") : i <= taken}
                         /\ pieces = Definitions(taken) \cup Runs(taken)

AstInv == Body /\ AstTypeOK /\ Loop /\ AstAsSaid

\* A set of numbers that is not empty has a least and, when it has an upper
\* bound, a greatest.
LEMMA LeastNat ==
    ASSUME NEW S \in SUBSET Nat, S # {}
    PROVE  Min(S) \in S /\ \A y \in S : Min(S) <= y
<1> DEFINE R == OpToRel(<, Nat)
<1>1. IsWellFoundedOn(R, Nat)
    BY NatLessThanWellFounded
<1>2. \A x, y \in Nat : x < y => <<x, y>> \in R
    BY DEF OpToRel
<1> HIDE DEF R
<1>3. PICK x \in S : \A y \in S : ~(<<y, x>> \in R)
    BY <1>1, WFMin
<1>4. \A y \in S : x \in Nat /\ y \in Nat /\ ~(y < x)
    BY <1>2, <1>3
<1>5. \A y \in S : x <= y
    BY <1>4
<1> QED BY <1>5 DEF Min

LEMMA GreatestNat ==
    ASSUME NEW n \in Nat, NEW S \in SUBSET (1..n), S # {}
    PROVE  Max(S) \in S /\ \A y \in S : Max(S) >= y
<1> DEFINE T == {n - y : y \in S}
<1>1. \A y \in S : n - y \in Nat
    OBVIOUS
<1>2. T \in SUBSET Nat /\ T # {}
    BY <1>1
<1>3. Min(T) \in T /\ \A z \in T : Min(T) <= z
    BY <1>2, LeastNat
<1>4. PICK x \in S : Min(T) = n - x
    BY <1>3
<1>5. \A y \in S : n - x <= n - y
    BY <1>3, <1>4
<1>6. \A y \in S : x >= y
    BY <1>5
<1> QED BY <1>6 DEF Max

\* The ends of an interval.
LEMMA MinMaxInterval ==
    ASSUME NEW a \in Int, NEW b \in Int, a <= b
    PROVE  /\ Min(a..b) = a /\ Max(a..b) = b
           /\ Min({a, b}) = a /\ Max({a, b}) = b
<1>1. ASSUME NEW S \in SUBSET Int, a \in S, \A y \in S : a <= y PROVE Min(S) = a
  <2>1. \A x \in S : (\A y \in S : x <= y) => x = a
      BY <1>1
  <2> QED BY <1>1, <2>1 DEF Min
<1>2. ASSUME NEW S \in SUBSET Int, b \in S, \A y \in S : b >= y PROVE Max(S) = b
  <2>1. \A x \in S : (\A y \in S : x >= y) => x = b
      BY <1>2
  <2> QED BY <1>2, <2>1 DEF Max
<1> QED BY <1>1, <1>2

-----------------------------------------------------------------------------

\* A file is a sequence of statements.
LEMMA BodySize ==
    ASSUME Body
    PROVE  /\ Size \in 0..MaxStatements /\ DOMAIN body = 1..Size
           /\ body \in [1..Size -> StatementKinds]
<1>1. PICK n \in 0..MaxStatements : body \in [1..n -> StatementKinds]
    BY DEF Body
<1>2. n \in Nat /\ Cardinality(1..n) = n
    BY <1>1, AstAssumption, FS_Interval
<1> QED BY <1>1, <1>2 DEF Size

\* The first and the last of what makes a chunk.
LEMMA PieceEnds ==
    ASSUME Body, NEW nodes \in SUBSET DOMAIN body, nodes # {}, NEW what
    PROVE  /\ {Piece(what, nodes).first, Piece(what, nodes).last} \subseteq DOMAIN body
           /\ Piece(what, nodes).first <= Piece(what, nodes).last
<1>1. Size \in Nat /\ DOMAIN body = 1..Size
    BY BodySize, AstAssumption
<1>2. nodes \in SUBSET Nat /\ nodes \in SUBSET (1..Size)
    BY <1>1
<1>3. Min(nodes) \in nodes /\ Max(nodes) \in nodes /\ Min(nodes) <= Max(nodes)
    BY <1>1, <1>2, LeastNat, GreatestNat
<1> QED BY <1>3 DEF Piece

\* When something else comes, or the end, the run that is open is closed.
LEMMA RunCloses ==
    ASSUME Body, Gathered, taken \in 0..Size,
           taken + 1 \in DOMAIN body => body[taken + 1] # "import"
    PROVE  Runs(taken + 1) = Runs(taken) \cup PieceIf("imports", imports)
<1> DEFINE EndsAt == {q \in Of("import") \X Of("import") :
                       q[1] <= q[2] /\ q[2] = taken /\ Run(q[1], q[2])}
<1>1. Size \in Nat /\ DOMAIN body = 1..Size /\ taken \in Nat
    BY BodySize, AstAssumption
<1>2. RunsBefore(taken + 1) = RunsBefore(taken) \cup EndsAt
  <2>1. Of("import") \subseteq Nat
      BY <1>1 DEF Of
  <2>2. \A k \in Nat : k < taken + 1 <=> k < taken \/ k = taken
      BY <1>1
  <2>3. \A q \in Of("import") \X Of("import") : q[2] < taken + 1 <=> q[2] < taken \/ q[2] = taken
      BY <2>1, <2>2
  <2> QED BY <2>3 DEF RunsBefore
<1>3. CASE imports = {}
  <2>1. taken \notin Of("import")
      BY <1>1, <1>3 DEF Gathered, Of, Open
  <2>2. EndsAt = {}
      BY <2>1
  <2> QED BY <1>2, <1>3, <2>2 DEF Runs, PieceIf
<1>4. CASE imports # {}
  <2>1. PICK s \in 1..taken : Open(s)
      BY <1>4 DEF Gathered
  <2>2. s \in DOMAIN body /\ taken \in DOMAIN body /\ s <= taken /\ s \in Nat
      BY <1>1
  <2>3. s \in Of("import") /\ taken \in Of("import")
      BY <2>1, <2>2 DEF Of, Open
  <2>4. Run(s, taken)
      BY <2>1 DEF Run, Open
  <2>5. ASSUME NEW i \in Of("import"), i <= taken, Run(i, taken) PROVE i = s
    <3>1. i \in 1..Size
        BY <1>1 DEF Of
    <3>2. CASE i < s
      <4>1. s - 1 \in i..taken /\ s - 1 \in DOMAIN body
          BY <3>1, <3>2, <1>1, <2>2
      <4> QED BY <4>1, <2>1, <2>5 DEF Run, Open
    <3>3. CASE s < i
      <4>1. i - 1 \in s..taken /\ i - 1 \in DOMAIN body
          BY <3>1, <3>3, <1>1, <2>2, <2>5
      <4>2. body[i - 1] # "import"
          BY <4>1, <2>5 DEF Run
      <4> QED BY <4>1, <4>2, <2>1 DEF Open
    <3> QED BY <3>1, <3>2, <3>3, <2>2
  <2> DEFINE e == <<s, taken>>
  <2>6. /\ e \in Of("import") \X Of("import") /\ e[1] = s /\ e[2] = taken
        /\ \A q \in Of("import") \X Of("import") : q[1] = s /\ q[2] = taken => q = e
      BY <2>3
  <2> HIDE DEF e
  <2>7. EndsAt = {e}
    <3>1. e \in EndsAt
        BY <2>2, <2>4, <2>6
    <3>2. ASSUME NEW q \in EndsAt PROVE q = e
      <4>1. q \in Of("import") \X Of("import") /\ q[1] <= q[2] /\ q[2] = taken /\ Run(q[1], q[2])
          OBVIOUS
      <4>2. q[1] \in Of("import") /\ q[1] <= taken /\ Run(q[1], taken)
          BY <4>1
      <4>3. q[1] = s
          BY <4>2, <2>5
      <4> QED BY <4>1, <4>3, <2>6
    <3> QED BY <3>1, <3>2
  <2>8. Piece("imports", {s, taken}) = Piece("imports", imports)
      BY <2>1, <2>2, <1>1, MinMaxInterval DEF Piece, Open
  <2> HIDE DEF EndsAt
  <2>9. Runs(taken + 1) = Runs(taken) \cup {Piece("imports", {e[1], e[2]})}
      BY <1>2, <2>7 DEF Runs
  <2> QED BY <2>6, <2>8, <2>9, <1>4 DEF PieceIf
<1> QED BY <1>3, <1>4

\* While the run goes on, none is closed.
LEMMA RunGoesOn ==
    ASSUME Body, taken + 1 \in DOMAIN body, body[taken + 1] = "import", taken \in Nat
    PROVE  Runs(taken + 1) = Runs(taken)
<1>1. Of("import") \subseteq Nat
    BY BodySize, AstAssumption DEF Of
<1>2. \A i \in Nat : ~Run(i, taken)
    BY DEF Run
<1>3. \A q \in Of("import") \X Of("import") :
          Run(q[1], q[2]) => (q[2] < taken + 1 <=> q[2] < taken)
    BY <1>1, <1>2
<1>4. RunsBefore(taken + 1) = RunsBefore(taken)
    BY <1>3 DEF RunsBefore
<1> QED BY <1>4 DEF Runs

LEMMA AstInitInv == AstInit => AstInv
<1> SUFFICES ASSUME AstInit PROVE AstInv
    OBVIOUS
<1>1. Body /\ taken = 0 /\ imports = {} /\ rest = {} /\ pieces = {}
    BY DEF AstInit, Body
<1>2. Size \in Nat /\ DOMAIN body = 1..Size
    BY <1>1, BodySize, AstAssumption
<1>3. AstTypeOK
    BY <1>1, AstAssumption DEF AstTypeOK
<1>4. \A k : Of(k) \subseteq 1..Size
    BY <1>2 DEF Of
<1>5. \A k : \A i \in Of(k) : ~(i <= 0) /\ ~(i < 0)
    BY <1>2, <1>4
<1>6. Definitions(0) = {} /\ Runs(0) = {} /\ {i \in Of("other") : i <= 0} = {}
    BY <1>5 DEF Definitions, Runs, RunsBefore
<1>7. Gathered
    BY <1>1, <1>2 DEF Gathered
<1>8. Loop
    BY <1>1, <1>6, <1>7 DEF Loop
<1>9. AstAsSaid
    BY <1>1, <1>2 DEF AstAsSaid, Size
<1> QED BY <1>1, <1>3, <1>8, <1>9 DEF AstInv

\* As long as the file stays, what is said of it stays.
LEMMA SameFile ==
    ASSUME UNCHANGED body
    PROVE  /\ Size' = Size /\ Body' = Body
           /\ \A k : Of(k)' = Of(k)
           /\ \A t : Definitions(t)' = Definitions(t) /\ Runs(t)' = Runs(t)
BY DEF Size, Body, Of, Definitions, Runs, RunsBefore, Run

LEMMA AstStep == AstInv /\ [AstNext]_astVars => AstInv'
<1> SUFFICES ASSUME AstInv, [AstNext]_astVars PROVE AstInv'
    OBVIOUS
<1>1. /\ Size \in 0..MaxStatements /\ Size \in Nat /\ MaxStatements \in Nat
      /\ DOMAIN body = 1..Size /\ Body /\ taken \in Nat
      /\ imports \subseteq DOMAIN body /\ rest \subseteq DOMAIN body
      /\ \A p \in pieces : {p.first, p.last} \subseteq DOMAIN body /\ p.first <= p.last
    BY BodySize, AstAssumption DEF AstInv, AstTypeOK
<1>2. ASSUME NEW kind, Comes(kind)
      PROVE  /\ taken + 1 \in 1..Size /\ taken' = taken + 1 /\ body[taken + 1] = kind
             /\ taken' \in 0..(MaxStatements + 1) /\ taken <= Size /\ taken' <= Size
             /\ taken \in 0..Size
    BY <1>1, <1>2 DEF Comes
<1>3. taken <= Size => /\ Gathered /\ rest = {i \in Of("other") : i <= taken}
                       /\ pieces = Definitions(taken) \cup Runs(taken)
    BY DEF AstInv, Loop
<1>4. \A k, l \in StatementKinds : k # l => Of(k) \cap Of(l) = {}
    BY DEF Of
<1>5. ASSUME NEW kind, Comes(kind)
      PROVE  \A l : {i \in Of(l) : i <= taken + 1} =
                    {i \in Of(l) : i <= taken} \cup (IF l = kind THEN {taken + 1} ELSE {})
  <2>1. \A i \in DOMAIN body : i <= taken + 1 <=> i <= taken \/ i = taken + 1
      BY <1>1
  <2> QED BY <1>1, <1>2, <1>5, <2>1 DEF Of
<1>6. CASE TakeImport
  <2>1. Comes("import") /\ imports' = imports \cup {taken + 1} /\ UNCHANGED <<body, rest, pieces>>
      BY <1>6 DEF TakeImport
  <2>2. Size' = Size /\ Body'
      BY <1>1, <2>1, SameFile
  <2>3. AstTypeOK'
      BY <1>1, <1>2, <2>1 DEF AstTypeOK
  <2>4. Gathered'
    <3>1. CASE imports = {}
      <4>1. imports' = (taken + 1)..(taken + 1)
          BY <1>1, <2>1, <3>1
      <4>2. taken \in DOMAIN body => body[taken] # "import"
          BY <1>1, <1>2, <1>3, <2>1, <3>1 DEF Gathered, Open
      <4>3. Open(taken)'
          BY <4>1, <4>2, <1>1, <1>2, <2>1 DEF Open
      <4> QED BY <4>3, <1>2 DEF Gathered, Open
    <3>2. CASE imports # {}
      <4>1. PICK s \in 1..taken : Open(s)
          BY <1>2, <1>3, <2>1, <3>2 DEF Gathered
      <4>2. imports' = s..(taken + 1) /\ s \in 1..(taken + 1)
          BY <4>1, <1>1, <2>1 DEF Open
      <4>3. \A k \in s..(taken + 1) : k \in s..taken \/ k = taken + 1
          BY <1>1
      <4>4. Open(s)'
          BY <4>1, <4>2, <4>3, <1>2, <2>1 DEF Open
      <4> QED BY <4>2, <4>4, <1>2, <2>1 DEF Gathered
    <3> QED BY <3>1, <3>2
  <2>5. Definitions(taken + 1) = Definitions(taken) /\ Runs(taken + 1) = Runs(taken)
      BY <1>1, <1>2, <1>5, <2>1, RunGoesOn DEF Definitions
  <2>6. Loop'
      BY <1>2, <1>3, <1>5, <2>1, <2>4, <2>5, SameFile DEF Loop
  <2>7. AstAsSaid'
      BY <1>1, <1>2, <2>1, <2>2 DEF AstAsSaid, Size
  <2> QED BY <2>2, <2>3, <2>6, <2>7 DEF AstInv
<1>7. ASSUME NEW kind \in {"definition", "other"}, Comes(kind), UNCHANGED body, imports' = {}
      PROVE  /\ Size' = Size /\ Body' /\ Gathered' /\ AstAsSaid'
             /\ Runs(taken + 1) = Runs(taken) \cup PieceIf("imports", imports)
  <2>1. Size' = Size /\ Body'
      BY <1>1, <1>7, SameFile
  <2>2. Gathered'
      BY <1>2, <1>7 DEF Gathered
  <2>3. AstAsSaid'
      BY <1>1, <1>2, <1>7, <2>1 DEF AstAsSaid, Size
  <2>4. Runs(taken + 1) = Runs(taken) \cup PieceIf("imports", imports)
      BY <1>1, <1>2, <1>3, <1>7, RunCloses
  <2> QED BY <2>1, <2>2, <2>3, <2>4
<1>8. \A p \in PieceIf("imports", imports) :
          {p.first, p.last} \subseteq DOMAIN body /\ p.first <= p.last
    BY <1>1, PieceEnds DEF PieceIf
<1>9. CASE TakeDefinition
  <2>1. /\ Comes("definition") /\ imports' = {} /\ UNCHANGED <<body, rest>>
        /\ pieces' = pieces \cup PieceIf("imports", imports) \cup {Piece("definition", {taken + 1})}
      BY <1>9 DEF TakeDefinition, NextRun
  <2>2. /\ Size' = Size /\ Body' /\ Gathered' /\ AstAsSaid'
        /\ Runs(taken + 1) = Runs(taken) \cup PieceIf("imports", imports)
      BY <1>7, <2>1
  <2>3. /\ {Piece("definition", {taken + 1}).first, Piece("definition", {taken + 1}).last}
               \subseteq DOMAIN body
        /\ Piece("definition", {taken + 1}).first <= Piece("definition", {taken + 1}).last
      BY <1>1, <1>2, <2>1, PieceEnds
  <2>4. AstTypeOK'
      BY <1>1, <1>2, <1>8, <2>1, <2>3 DEF AstTypeOK
  <2>5. Definitions(taken + 1) = Definitions(taken) \cup {Piece("definition", {taken + 1})}
    <3>1. {k \in Of("definition") : k <= taken + 1} =
             {k \in Of("definition") : k <= taken} \cup {taken + 1}
        BY <1>5, <2>1
    <3> QED BY <3>1 DEF Definitions
  <2>6. rest' = {i \in Of("other") : i <= taken + 1}
      BY <1>2, <1>3, <1>5, <2>1
  <2>7. pieces' = Definitions(taken + 1) \cup Runs(taken + 1)
      BY <1>2, <1>3, <2>1, <2>2, <2>5
  <2>8. Loop'
      BY <1>2, <2>1, <2>2, <2>6, <2>7, SameFile DEF Loop
  <2> QED BY <2>2, <2>4, <2>8 DEF AstInv
<1>10. CASE TakeOther
  <2>1. /\ Comes("other") /\ imports' = {} /\ UNCHANGED body
        /\ pieces' = pieces \cup PieceIf("imports", imports) /\ rest' = rest \cup {taken + 1}
      BY <1>10 DEF TakeOther, NextRun
  <2>2. /\ Size' = Size /\ Body' /\ Gathered' /\ AstAsSaid'
        /\ Runs(taken + 1) = Runs(taken) \cup PieceIf("imports", imports)
      BY <1>7, <2>1
  <2>3. AstTypeOK'
      BY <1>1, <1>2, <1>8, <2>1 DEF AstTypeOK
  <2>4. Definitions(taken + 1) = Definitions(taken)
      BY <1>5, <2>1 DEF Definitions
  <2>5. rest' = {i \in Of("other") : i <= taken + 1}
      BY <1>2, <1>3, <1>5, <2>1
  <2>6. Loop'
      BY <1>2, <1>3, <2>1, <2>2, <2>4, <2>5, SameFile DEF Loop
  <2> QED BY <2>2, <2>3, <2>6 DEF AstInv
<1>11. CASE EndOfFile
  <2>1. /\ taken = Size /\ taken' = Size + 1 /\ UNCHANGED <<body, imports, rest>>
        /\ pieces' = pieces \cup PieceIf("imports", imports) \cup PieceIf("rest", rest)
      BY <1>11 DEF EndOfFile, Left, Size
  <2>2. Size' = Size /\ Body'
      BY <1>1, <2>1, SameFile
  <2>3. \A p \in PieceIf("rest", rest) : {p.first, p.last} \subseteq DOMAIN body /\ p.first <= p.last
      BY <1>1, PieceEnds DEF PieceIf
  <2>4. AstTypeOK'
      BY <1>1, <1>8, <2>1, <2>3 DEF AstTypeOK
  <2>5. Loop'
      BY <1>1, <2>1, <2>2 DEF Loop
  <2>6. Runs(Size + 1) = Runs(Size) \cup PieceIf("imports", imports)
      BY <1>1, <1>3, <2>1, RunCloses
  <2>7. \A l : Of(l) \subseteq 1..Size
      BY <1>1 DEF Of
  <2>8. {i \in Of("other") : i <= Size} = Of("other")
        /\ {i \in Of("definition") : i <= Size} = Of("definition")
      BY <1>1, <2>7
  <2>9. RunsBefore(Size + 1) = {q \in Of("import") \X Of("import") : q[1] <= q[2] /\ Run(q[1], q[2])}
      BY <1>1, <2>7 DEF RunsBefore
  <2>10. pieces' = {Piece("definition", {i}) : i \in Of("definition")}
                   \cup {Piece("imports", {q[1], q[2]}) : q \in
                          {p \in Of("import") \X Of("import") : p[1] <= p[2] /\ Run(p[1], p[2])}}
                   \cup PieceIf("rest", Of("other"))
    <3>1. pieces = Definitions(Size) \cup Runs(Size) /\ rest = Of("other")
      <4>1. taken <= Size
          BY <1>1, <2>1
      <4> QED BY <1>3, <2>1, <2>8, <4>1
    <3>2. Definitions(Size) = {Piece("definition", {i}) : i \in Of("definition")}
        BY <2>8 DEF Definitions
    <3> QED BY <2>1, <2>6, <2>9, <3>1, <3>2 DEF Runs
  <2>11. AstAsSaid'
      BY <2>1, <2>10 DEF AstAsSaid, Of, Run
  <2> QED BY <2>2, <2>4, <2>5, <2>11 DEF AstInv
<1>12. CASE UNCHANGED astVars
    BY <1>12 DEF AstInv, astVars, Body, AstTypeOK, Loop, AstAsSaid, Gathered, Open, Definitions,
           Runs, RunsBefore, Of, Run, Size
<1> QED BY <1>6, <1>9, <1>10, <1>11, <1>12 DEF AstNext

\* The loop over the statements has made the chunks of those that it has taken.
THEOREM AstInvariant == AstSpec => []AstInv
BY AstInitInv, AstStep, PTL DEF AstSpec

\* The chunks of a Python file are its definitions, its longest runs of imports
\* and the stretch of the rest, for files of every length (ast_chunker.py).
THEOREM AstCorrect == AstSpec => []AstSafe
<1>1. AstInv => AstSafe
    BY DEF AstInv, AstSafe
<1> QED BY <1>1, AstInvariant, PTL

-----------------------------------------------------------------------------
(* The embedding client: numbers, ranks and lists of texts.                *)

\* A finite set of numbers that is not empty has a greatest.
LEMMA GreatestOfFinite ==
    ASSUME NEW S \in SUBSET Nat, IsFiniteSet(S), S # {}
    PROVE  Max(S) \in S /\ \A y \in S : Max(S) >= y
<1> DEFINE Above(x) == {y \in S : y > x}
           Sizes == {Cardinality(Above(x)) : x \in S}
<1>1. \A x \in S : IsFiniteSet(Above(x)) /\ Cardinality(Above(x)) \in Nat
  <2> SUFFICES ASSUME NEW x \in S PROVE IsFiniteSet(Above(x)) /\ Cardinality(Above(x)) \in Nat
      OBVIOUS
  <2>1. IsFiniteSet(Above(x))
      BY FS_Subset
  <2> QED BY <2>1, FS_CardinalityType
<1>2. Sizes \in SUBSET Nat /\ Sizes # {}
    BY <1>1
<1>3. Min(Sizes) \in Sizes /\ \A z \in Sizes : Min(Sizes) <= z
    BY <1>2, LeastNat
<1>4. PICK x \in S : Min(Sizes) = Cardinality(Above(x))
    BY <1>3
<1>5. ASSUME NEW y \in S, y > x PROVE FALSE
  <2>0. \A z \in S : z \in Nat /\ (z > y => z > x) /\ ~(y > y)
      BY <1>5
  <2>1. Above(y) \in SUBSET Above(x) /\ y \in Above(x) /\ y \notin Above(y)
      BY <1>5, <2>0
  <2>2. Cardinality(Above(y)) <= Cardinality(Above(x)) /\ Cardinality(Above(x)) # Cardinality(Above(y))
      BY <1>1, <2>1, FS_Subset
  <2>3. Cardinality(Above(y)) >= Cardinality(Above(x))
      BY <1>3, <1>4
  <2> QED BY <1>1, <2>2, <2>3
<1>6. \A y \in S : x >= y
    BY <1>5
<1> QED BY <1>6 DEF Max

\* No list that is asked for is longer than the longest.
LEMMA LongestBounds ==
    /\ Longest \in Nat \ {0}
    /\ \A texts \in Requests : Len(texts) <= Longest
<1> DEFINE Lens == {Len(texts) : texts \in Requests}
           f == [texts \in Requests |-> Len(texts)]
<1>1. Lens \in SUBSET Nat /\ Lens # {} /\ 0 \notin Lens
  <2>1. \A texts \in Requests : texts \in Seq(Texts) /\ texts # <<>>
      BY EmbInputs
  <2>2. \A texts \in Requests : Len(texts) \in Nat \ {0}
      BY <2>1, EmptySeq
  <2> QED BY <2>2, EmbInputs
<1>2. IsFiniteSet(Lens)
  <2>1. f \in Surjection(Requests, Lens)
      BY DEF Surjection
  <2> QED BY <2>1, FS_Surjection, EmbInputs
<1>3. Max(Lens) \in Lens /\ \A y \in Lens : Max(Lens) >= y
    BY <1>1, <1>2, GreatestOfFinite
<1> QED BY <1>1, <1>3 DEF Longest

\* Half the limit, and at least a row, is kept.
LEMMA KeepBounds == Keep \in 1..MaxEntries
<1>1. MaxEntries \in Nat /\ MaxEntries >= 1 /\ MaxEntries \div 2 \in Nat /\ MaxEntries \div 2 <= MaxEntries
    BY EmbSizes
<1>2. \A a, b \in Int : Max({a, b}) = IF a >= b THEN a ELSE b
    BY DEF Max
<1> QED BY <1>1, <1>2 DEF Keep

\* The larger and the smaller of two numbers.
LEMMA MaxMinPair ==
    /\ \A a, b \in Int : Max({a, b}) = IF a >= b THEN a ELSE b
    /\ \A a, b \in Int : Min({a, b}) = IF a <= b THEN a ELSE b
BY DEF Max, Min

\* The places the cache had nothing for are numbered from 1 on by their rank.
LEMMA Ranks ==
    ASSUME NEW call, call.texts \in Seq(Texts)
    PROVE  /\ IsFiniteSet(Uncached(call)) /\ Cardinality(Uncached(call)) \in Nat
           /\ Cardinality(Uncached(call)) <= Len(call.texts)
           /\ \A i \in Uncached(call) : Rank(call, i) \in 1..Cardinality(Uncached(call))
           /\ \A i, j \in Uncached(call) : Rank(call, i) = Rank(call, j) => i = j
           /\ \A k \in 1..Cardinality(Uncached(call)) : \E i \in Uncached(call) : Rank(call, i) = k
<1> DEFINE U == Uncached(call)
           UpTo(i) == {j \in U : j <= i}
           n == Cardinality(U)
           f == [i \in U |-> Rank(call, i)]
<1>1. U \in SUBSET (1..Len(call.texts)) /\ Len(call.texts) \in Nat
    BY LenProperties DEF Uncached
<1>2. IsFiniteSet(U) /\ n \in Nat /\ n <= Len(call.texts)
  <2>1. IsFiniteSet(1..Len(call.texts)) /\ Cardinality(1..Len(call.texts)) = Len(call.texts)
      BY <1>1, FS_Interval
  <2>2. IsFiniteSet(U) /\ Cardinality(U) <= Len(call.texts)
      BY <1>1, <2>1, FS_Subset
  <2> QED BY <2>2, FS_CardinalityType
<1>3. \A i \in U : Rank(call, i) = Cardinality(UpTo(i)) /\ UpTo(i) \in SUBSET U /\ i \in UpTo(i)
    BY <1>1 DEF Rank
<1>4. ASSUME NEW i \in U PROVE Rank(call, i) \in 1..n /\ IsFiniteSet(UpTo(i))
  <2>1. IsFiniteSet(UpTo(i)) /\ Cardinality(UpTo(i)) <= n
      BY <1>2, <1>3, FS_Subset
  <2>2. Cardinality(UpTo(i)) \in Nat
      BY <2>1, FS_CardinalityType
  <2>3. Cardinality(UpTo(i)) # 0
      BY <1>3, <2>1, FS_EmptySet
  <2> QED BY <1>2, <1>3, <2>1, <2>2, <2>3
<1>5. ASSUME NEW i \in U, NEW j \in U, i < j PROVE Rank(call, i) # Rank(call, j)
  <2>1. UpTo(i) \in SUBSET UpTo(j) /\ j \in UpTo(j) /\ j \notin UpTo(i)
      BY <1>1, <1>5
  <2>2. Cardinality(UpTo(j)) # Cardinality(UpTo(i))
      BY <1>4, <2>1, FS_Subset
  <2> QED BY <1>3, <2>2
<1>6. \A i, j \in U : Rank(call, i) = Rank(call, j) => i = j
    BY <1>1, <1>5
<1>7. \A k \in 1..n : \E i \in U : Rank(call, i) = k
  <2>1. f \in Injection(U, 1..n)
      BY <1>4, <1>6 DEF Injection, IsInjective
  <2>2. IsFiniteSet(1..n) /\ Cardinality(1..n) = n
      BY <1>2, FS_Interval
  <2>3. f \in Surjection(U, 1..n)
      BY <2>1, <2>2, FS_Injection
  <2> QED BY <2>3 DEF Surjection
<1> HIDE DEF UpTo, f
<1> QED BY <1>2, <1>4, <1>6, <1>7

\* Asked is the list of their texts.
LEMMA AskedTexts ==
    ASSUME NEW call, call.texts \in Seq(Texts)
    PROVE  /\ Asked(call) \in Seq(Texts) /\ Len(Asked(call)) = Cardinality(Uncached(call))
           /\ \A i \in Uncached(call) : Asked(call)[Rank(call, i)] = call.texts[i]
<1> DEFINE n == Cardinality(Uncached(call))
           place(k) == CHOOSE i \in Uncached(call) : Rank(call, i) = k
<1>1. \A k \in 1..n : place(k) \in Uncached(call) /\ Rank(call, place(k)) = k
    BY Ranks
<1>2. \A i \in Uncached(call) : call.texts[i] \in Texts
    BY LenProperties DEF Uncached
<1>3. Asked(call) = [k \in 1..n |-> call.texts[place(k)]]
    BY DEF Asked
<1>4. n \in Nat
    BY Ranks
<1>5. \A i \in Uncached(call) : Rank(call, i) \in 1..n /\ place(Rank(call, i)) = i
    BY <1>1, Ranks
<1> HIDE DEF place
<1>6. Asked(call) \in [1..n -> Texts]
    BY <1>1, <1>2, <1>3
<1>7. Asked(call) \in Seq(Texts) /\ Len(Asked(call)) = n
    BY <1>3, <1>4, <1>6
<1> QED BY <1>3, <1>5, <1>7

-----------------------------------------------------------------------------
(* The embedding client: batches and replies.                              *)

\* The next batch is of the next texts asked for, and there is one.
LEMMA BatchTexts ==
    ASSUME NEW call, Asked(call) \in Seq(Texts), call.got \in Seq(Texts \cup {Zero}),
           Len(call.got) < Len(Asked(call))
    PROVE  LET n == Len(call.got)  m == Len(Batch(call))
           IN  /\ Batch(call) \in Seq(Texts) /\ m >= 1 /\ n + m <= Len(Asked(call))
               /\ \A k \in 1..m : Batch(call)[k] = Asked(call)[n + k]
<1> DEFINE n == Len(call.got)
           all == Len(Asked(call))
           to == Min({n + BatchSize, all})
<1>1. n \in Nat /\ all \in Nat /\ BatchSize \in Nat /\ BatchSize >= 1
    BY LenProperties, EmbSizes
<1>2. to \in Nat /\ n < to /\ to <= all
    BY <1>1, MaxMinPair
<1>3. Batch(call) = SubSeq(Asked(call), n + 1, to)
    BY DEF Batch
<1> HIDE DEF to
<1>4. /\ Batch(call) \in Seq(Texts) /\ Len(Batch(call)) = to - n
      /\ \A k \in 1..(to - n) : Batch(call)[k] = Asked(call)[n + k]
  <2>1. n + 1 \in 1..(Len(Asked(call)) + 1) /\ to \in (n + 1 - 1)..Len(Asked(call))
      BY <1>1, <1>2
  <2>2. /\ SubSeq(Asked(call), n + 1, to) \in Seq(Texts)
        /\ Len(SubSeq(Asked(call), n + 1, to)) = IF n + 1 <= to THEN to - (n + 1) + 1 ELSE 0
        /\ \A k \in 1..(to - (n + 1) + 1) : SubSeq(Asked(call), n + 1, to)[k] = Asked(call)[n + 1 + k - 1]
    <3>1. \A i \in (n + 1)..to : Asked(call)[i] \in Texts
        BY <1>1, <1>2, LenProperties
    <3>2. n + 1 \in Int /\ to \in Int
        BY <1>1, <1>2
    <3> HIDE DEF n
    <3> QED BY <3>1, <3>2, SubSeqProperties
  <2>3. \A k \in 1..(to - n) : n + 1 + k - 1 = n + k
      BY <1>1, <1>2
  <2>4. to - (n + 1) + 1 = to - n
      BY <1>1, <1>2
  <2> QED BY <1>1, <1>2, <1>3, <2>2, <2>3, <2>4
<1> QED BY <1>1, <1>2, <1>4

\* An item by its position, when no two items have the same.
LEMMA ItemAt ==
    ASSUME NEW items, NEW n \in Nat, DOMAIN items = 1..n, NEW k \in 1..n,
           \A j \in 1..n : Position(items, j) = Position(items, k) => j = k
    PROVE  ByIndex(items)[Position(items, k)] = items[k].vector
<1>1. {j \in DOMAIN items : Position(items, j) = Position(items, k)} = {k}
    OBVIOUS
<1>2. Max({k}) = k
    BY DEF Max
<1> QED BY <1>1, <1>2 DEF ByIndex

\* A reply that is taken has every text's vector in the text's place, in
\* whatever order it lists them.
LEMMA MappedIsBatch ==
    ASSUME NEW batch \in Seq(Texts), Len(batch) >= 1, NEW items \in Replies(batch),
           ~Refused(items, Len(batch)), ~Misplaced(items, Len(batch))
    PROVE  Mapped(items, Len(batch)) = batch
<1> DEFINE n == Len(batch)
<1>1. n \in Nat /\ n >= 1 /\ batch = [p \in 1..n |-> batch[p]]
    BY LenProperties
<1>2. /\ DOMAIN ByIndex(items) = 0..(n - 1)
      /\ DOMAIN ByIndex(items) = {Position(items, k) : k \in DOMAIN items}
      /\ \A k \in DOMAIN items : items[k].vector # Zero
    BY DEF Misplaced, Refused, ByIndex
<1>3. ASSUME NEW p \in 1..n PROVE ByIndex(items)[p - 1] = batch[p]
  <2>0. p - 1 \in 0..(n - 1)
      BY <1>1
  <2>1. PICK k \in DOMAIN items : Position(items, k) = p - 1
      BY <1>2, <2>0
  <2>2. CASE \E o \in Orders(n), base \in {0, 1}, zero \in 0..n :
                 items = [j \in DOMAIN o |-> Item(batch, o[j], base, zero)]
    <3>1. PICK o \in Orders(n), base \in {0, 1}, zero \in 0..n :
                 items = [j \in DOMAIN o |-> Item(batch, o[j], base, zero)]
        BY <2>2
    <3>0. PICK S \in SUBSET (1..n) : o \in SetToSeqs(S)
        BY DEF Orders
    <3>2. PICK m \in Nat : /\ o \in [1..m -> S]
                           /\ \A i, j \in 1..m : i # j => o[i] # o[j]
      <4>1. Cardinality(S) \in Nat
        <5>1. IsFiniteSet(S)
            <6>1. IsFiniteSet(1..n)
              BY <1>1, FS_Interval
          <6> QED BY <6>1, FS_Subset
        <5> QED BY <5>1, FS_CardinalityType
      <4> QED BY <3>0, <4>1 DEF SetToSeqs
    <3>3. DOMAIN items = 1..m /\ \A j \in 1..m : o[j] \in Nat /\ o[j] >= 1 /\ o[j] <= n
        BY <1>1, <3>1, <3>2
    <3>4. \A j \in 1..m : /\ items[j].index = o[j] - 1 + base
                          /\ items[j].vector = IF zero = o[j] THEN Zero ELSE batch[o[j]]
        BY <3>1, <3>2 DEF Item
    <3>5. \A j \in 1..m : Position(items, j) = o[j] - 1 + base
        BY <3>3, <3>4 DEF Position, NoIndex
    <3>6. base = 0
      <4>1. PICK j \in DOMAIN items : Position(items, j) = 0
          BY <1>1, <1>2
      <4> QED BY <3>3, <3>5, <4>1
    <3>7. o[k] = p
        BY <1>1, <2>1, <3>3, <3>5, <3>6
    <3>8. \A j \in 1..m : Position(items, j) = Position(items, k) => j = k
        BY <2>1, <3>2, <3>3, <3>5, <3>6
    <3>9. ByIndex(items)[Position(items, k)] = items[k].vector
        BY <2>1, <3>3, <3>8, ItemAt
    <3> QED BY <1>2, <2>1, <3>3, <3>4, <3>7, <3>9
  <2>3. CASE \E m \in 0..n, zero \in 0..n :
                 items = [j \in 1..m |-> Bare(batch, j, zero)]
    <3>1. PICK m \in 0..n, zero \in 0..n :
                 items = [j \in 1..m |-> Bare(batch, j, zero)]
        BY <2>3
    <3>2. DOMAIN items = 1..m /\ m \in Nat
        BY <1>1, <3>1
    <3>3. \A j \in 1..m : /\ items[j].index = NoIndex
                          /\ items[j].vector = IF zero = j THEN Zero ELSE batch[j]
        BY <3>1 DEF Bare, Item
    <3>4. \A j \in 1..m : Position(items, j) = j - 1
        BY <3>3 DEF Position
    <3>5. k = p /\ \A j \in 1..m : Position(items, j) = Position(items, k) => j = k
        BY <2>1, <3>2, <3>4
    <3>6. ByIndex(items)[Position(items, k)] = items[k].vector
        BY <2>1, <3>2, <3>5, ItemAt
    <3> QED BY <1>2, <2>1, <3>2, <3>3, <3>5, <3>6
  <2> QED BY <2>2, <2>3 DEF Replies
<1> QED BY <1>1, <1>3 DEF Mapped

-----------------------------------------------------------------------------
(* The embedding client: what is written to the cache and what is evicted. *)

\* Rows have their own text's vector, a text has one, and no more rows are of
\* one age than a list has texts.
RowsSound(tab, now) == /\ tab \subseteq Row
                       /\ \A row \in tab : row.vector = row.text /\ row.at < now
                       /\ \A r, s \in tab : r.text = s.text => r = s
OfAge(tab, v)       == {row \in tab : row.at = v}
CacheRows(tab, now) == /\ RowsSound(tab, now)
                       /\ IsFiniteSet(tab) /\ Cardinality(tab) \in Nat
                       /\ \A v \in Nat : Cardinality(OfAge(tab, v)) <= Longest

\* A later look at fewer rows.
LEMMA FewerRows ==
    ASSUME NEW tab, NEW now \in Nat, CacheRows(tab, now), NEW less \in SUBSET tab,
           NEW later \in Nat, now <= later
    PROVE  CacheRows(less, later) /\ Cardinality(less) <= Cardinality(tab)
<1>1. RowsSound(less, later)
  <2>1. \A row \in tab : row.at \in Nat
      BY DEF CacheRows, RowsSound, Row
  <2> QED BY <2>1 DEF CacheRows, RowsSound
<1>2. IsFiniteSet(less) /\ Cardinality(less) \in Nat /\ Cardinality(less) <= Cardinality(tab)
  <2>1. IsFiniteSet(less) /\ Cardinality(less) <= Cardinality(tab)
      BY FS_Subset DEF CacheRows
  <2> QED BY <2>1, FS_CardinalityType
<1>3. ASSUME NEW v \in Nat PROVE Cardinality(OfAge(less, v)) <= Longest
  <2>1. OfAge(less, v) \in SUBSET OfAge(tab, v)
      BY DEF OfAge
  <2>2. IsFiniteSet(OfAge(tab, v))
      BY FS_Subset DEF OfAge, CacheRows
  <2>3. Cardinality(OfAge(less, v)) <= Cardinality(OfAge(tab, v)) /\ IsFiniteSet(OfAge(less, v))
      BY <2>1, <2>2, FS_Subset
  <2>4. Cardinality(OfAge(less, v)) \in Nat /\ Cardinality(OfAge(tab, v)) \in Nat
      BY <2>2, <2>3, FS_CardinalityType
  <2>5. Cardinality(OfAge(tab, v)) <= Longest
      BY DEF CacheRows
  <2> QED BY <2>3, <2>4, <2>5, LongestBounds
<1> QED BY <1>1, <1>2, <1>3 DEF CacheRows

\* The rows that a write adds.
NewRows(texts) == {[text |-> t, vector |-> t, at |-> clock] : t \in ToSet(texts)}

\* They are no more than the texts.
LEMMA NewRowsFew ==
    ASSUME NEW texts \in Seq(Texts)
    PROVE  IsFiniteSet(NewRows(texts)) /\ Cardinality(NewRows(texts)) <= Len(texts)
<1> DEFINE f == [i \in 1..Len(texts) |-> [text |-> texts[i], vector |-> texts[i], at |-> clock]]
<1>1. Len(texts) \in Nat /\ DOMAIN texts = 1..Len(texts)
    BY LenProperties
<1>2. f \in Surjection(1..Len(texts), NewRows(texts))
    BY <1>1 DEF Surjection, NewRows, ToSet
<1>3. IsFiniteSet(1..Len(texts)) /\ Cardinality(1..Len(texts)) = Len(texts)
    BY <1>1, FS_Interval
<1> HIDE DEF f
<1> QED BY <1>2, <1>3, FS_Surjection

\* A write of texts with their own vectors replaces the rows of these texts.
LEMMA WrittenIs ==
    ASSUME NEW tab, NEW texts \in Seq(Texts)
    PROVE  Written(tab, texts, texts) = {row \in tab : row.text \notin ToSet(texts)} \cup NewRows(texts)
<1> DEFINE last(t) == CHOOSE i \in DOMAIN texts : /\ texts[i] = t
                                                  /\ \A j \in DOMAIN texts : texts[j] = t => j <= i
<1>1. ASSUME NEW t \in ToSet(texts) PROVE texts[last(t)] = t
  <2> DEFINE S == {i \in 1..Len(texts) : texts[i] = t}
  <2>1. Len(texts) \in Nat /\ DOMAIN texts = 1..Len(texts)
      BY LenProperties
  <2>2. S \in SUBSET (1..Len(texts)) /\ S # {}
      BY <1>1, <2>1 DEF ToSet
  <2>3. Max(S) \in S /\ \A y \in S : Max(S) >= y
      BY <2>1, <2>2, GreatestNat
  <2>4. \E i \in DOMAIN texts : texts[i] = t /\ \A j \in DOMAIN texts : texts[j] = t => j <= i
      BY <2>1, <2>3
  <2> QED BY <2>4
<1>2. Written(tab, texts, texts) =
        {row \in tab : row.text \notin ToSet(texts)}
            \cup {[text |-> t, vector |-> texts[last(t)], at |-> clock] : t \in ToSet(texts)}
    BY DEF Written
<1> HIDE DEF last
<1>3. {[text |-> t, vector |-> texts[last(t)], at |-> clock] : t \in ToSet(texts)} = NewRows(texts)
    BY <1>1 DEF NewRows
<1> QED BY <1>2, <1>3

\* A write keeps the rows sound, and adds no more than the texts.
LEMMA WrittenRows ==
    ASSUME clock \in Nat, NEW tab, CacheRows(tab, clock), NEW texts \in Seq(Texts), Len(texts) <= Longest
    PROVE  /\ CacheRows(Written(tab, texts, texts), clock + 1)
           /\ Cardinality(Written(tab, texts, texts)) <= Cardinality(tab) + Len(texts)
<1> DEFINE old == {row \in tab : row.text \notin ToSet(texts)}
           W == old \cup NewRows(texts)
<1>1. Written(tab, texts, texts) = W
    BY WrittenIs
<1>2. ToSet(texts) \subseteq Texts
    BY LenProperties DEF ToSet
<1>3. RowsSound(W, clock + 1)
  <2>1. \A row \in tab : row \in Row /\ row.vector = row.text /\ row.at \in Nat /\ row.at < clock
      BY DEF CacheRows, RowsSound, Row
  <2>2. \A row \in NewRows(texts) :
            row \in Row /\ row.vector = row.text /\ row.at = clock /\ row.text \in ToSet(texts)
      BY <1>2 DEF NewRows, Row
  <2>3. \A r, s \in NewRows(texts) : r.text = s.text => r = s
      BY DEF NewRows
  <2>4. \A r, s \in tab : r.text = s.text => r = s
      BY DEF CacheRows, RowsSound
  <2>5. \A row \in W : row.vector = row.text /\ row.at < clock + 1
      BY <2>1, <2>2
  <2> QED BY <2>1, <2>2, <2>3, <2>4, <2>5 DEF RowsSound
<1>4. IsFiniteSet(NewRows(texts)) /\ Cardinality(NewRows(texts)) \in Nat
      /\ Cardinality(NewRows(texts)) <= Len(texts) /\ Len(texts) \in Nat
    BY NewRowsFew, FS_CardinalityType, LenProperties
<1>5. CacheRows(old, clock) /\ Cardinality(old) <= Cardinality(tab)
    BY FewerRows
<1>6. old \cap NewRows(texts) = {}
    BY DEF NewRows
<1> HIDE DEF old
<1>7. IsFiniteSet(W) /\ Cardinality(W) = Cardinality(old) + Cardinality(NewRows(texts))
  <2>1. Cardinality(old \cap NewRows(texts)) = 0
      BY <1>6, FS_EmptySet
  <2>2. IsFiniteSet(old) /\ Cardinality(old) \in Nat
      BY <1>5 DEF CacheRows
  <2>3. IsFiniteSet(W) /\ Cardinality(W) = Cardinality(old) + Cardinality(NewRows(texts))
                                            - Cardinality(old \cap NewRows(texts))
      BY <1>4, <2>2, FS_Union
  <2> QED BY <1>4, <2>1, <2>2, <2>3
<1>8. Cardinality(W) \in Nat /\ Cardinality(W) <= Cardinality(tab) + Len(texts)
    BY <1>4, <1>5, <1>7 DEF CacheRows
<1>9. ASSUME NEW v \in Nat PROVE Cardinality(OfAge(W, v)) <= Longest
  <2>1. \A row \in old : row.at < clock /\ row.at \in Nat
      BY <1>5 DEF CacheRows, RowsSound, Row
  <2>2. \A row \in NewRows(texts) : row.at = clock
      BY DEF NewRows
  <2>3. CASE v = clock
    <3>1. OfAge(W, v) \in SUBSET NewRows(texts)
        BY <2>1, <2>3 DEF OfAge
    <3>2. IsFiniteSet(OfAge(W, v)) /\ Cardinality(OfAge(W, v)) <= Cardinality(NewRows(texts))
        BY <1>4, <3>1, FS_Subset
    <3>3. Cardinality(OfAge(W, v)) \in Nat
        BY <3>2, FS_CardinalityType
    <3> QED BY <1>4, <3>2, <3>3, LongestBounds
  <2>4. CASE v # clock
    <3>1. OfAge(W, v) = OfAge(old, v)
        BY <2>2, <2>4 DEF OfAge
    <3> QED BY <1>5, <3>1 DEF CacheRows
  <2> QED BY <2>3, <2>4
<1> HIDE DEF W
<1> QED BY <1>1, <1>3, <1>7, <1>8, <1>9 DEF CacheRows

\* An eviction leaves fewer rows than it keeps and those of one more age.
LEMMA TrimmedFew ==
    ASSUME NEW tab, NEW now \in Nat, CacheRows(tab, now)
    PROVE  /\ Trimmed(tab) \in SUBSET tab
           /\ Cardinality(Trimmed(tab)) <= Keep + Longest - 1
<1> DEFINE Newer(v) == {row \in tab : row.at > v}
           newest == {row \in tab : Cardinality(Newer(row.at)) < Keep}
           ages == {row.at : row \in newest}
           oldest == Min(ages)
<1>1. Trimmed(tab) = {row \in tab : \E kept \in newest : row.at >= kept.at}
    BY DEF Trimmed
<1>2. \A row \in tab : row.at \in Nat
    BY DEF CacheRows, RowsSound, Row
<1>3. Keep \in Nat /\ Keep >= 1 /\ Longest \in Nat
    BY KeepBounds, LongestBounds, EmbSizes
<1>4. CASE newest = {}
  <2>1. Trimmed(tab) = {}
      BY <1>1, <1>4
  <2> QED BY <1>3, <2>1, FS_EmptySet
<1>5. CASE newest # {}
  <2>1. ages \in SUBSET Nat /\ ages # {}
      BY <1>2, <1>5
  <2>2. oldest \in ages /\ \A v \in ages : oldest <= v
      BY <2>1, LeastNat
  <2>3. PICK last \in newest : last.at = oldest
      BY <2>2
  <2> HIDE DEF oldest
  <2>4. oldest \in Nat /\ Cardinality(Newer(oldest)) < Keep
      BY <1>2, <2>3
  <2>5. Trimmed(tab) = Newer(oldest) \cup OfAge(tab, oldest)
    <3>1. \A row \in newest : row.at \in Nat /\ oldest <= row.at
        BY <1>2, <2>2
    <3> HIDE DEF newest
    <3>2. \A row \in tab : (\E kept \in newest : row.at >= kept.at) <=> row.at >= oldest
        BY <1>2, <2>3, <2>4, <3>1
    <3>3. \A row \in tab : row.at >= oldest <=> (row.at > oldest \/ row.at = oldest)
        BY <1>2, <2>4
    <3> QED BY <1>1, <3>2, <3>3 DEF OfAge
  <2>6. Newer(oldest) \in SUBSET tab /\ OfAge(tab, oldest) \in SUBSET tab
        /\ Newer(oldest) \cap OfAge(tab, oldest) = {}
      BY <2>4 DEF OfAge
  <2> HIDE DEF Newer
  <2>7. IsFiniteSet(Newer(oldest)) /\ IsFiniteSet(OfAge(tab, oldest))
      BY <2>6, FS_Subset DEF CacheRows
  <2>8. Cardinality(Newer(oldest)) \in Nat /\ Cardinality(OfAge(tab, oldest)) \in Nat
      BY <2>7, FS_CardinalityType
  <2>9. Cardinality(Newer(oldest) \cap OfAge(tab, oldest)) = 0
      BY <2>6, FS_EmptySet
  <2>10. Cardinality(Trimmed(tab)) = Cardinality(Newer(oldest)) + Cardinality(OfAge(tab, oldest))
                                     - Cardinality(Newer(oldest) \cap OfAge(tab, oldest))
      BY <2>5, <2>7, FS_Union
  <2>11. Cardinality(OfAge(tab, oldest)) <= Longest
      BY <2>4 DEF CacheRows
  <2> QED BY <1>3, <2>4, <2>5, <2>6, <2>8, <2>9, <2>10, <2>11
<1> QED BY <1>4, <1>5

-----------------------------------------------------------------------------
(* The embedding client: what a call has of its texts.                     *)

Pending == {"waiting", "posted", "fallback", "local"}

Call == [stage : Stages, texts : Requests \cup {<<>>}, found : Seq(Texts \cup {Zero, None}),
         got : Seq(Texts \cup {Zero}), tries : 0..(Retries - 1)]

\* A call at work has from the cache only a text's own vector, and from the
\* providers the vectors of the first of the texts it asked for.
CallOK(call) ==
    /\ call \in Call /\ Len(call.found) = Len(call.texts)
    /\ call.stage \in Pending =>
           /\ \A i \in DOMAIN call.texts : call.found[i] \in {None, call.texts[i]}
           /\ Len(call.got) < Len(Asked(call))
           /\ \A k \in 1..Len(call.got) : call.got[k] = Asked(call)[k]
    /\ call.stage = "answered" => call.found = call.texts

CallsOK == calls \in [Calls -> Call] /\ \A c \in Calls : CallOK(calls[c])

\* The types of what a call has.
LEMMA CallFields ==
    ASSUME NEW call \in Call
    PROVE  /\ call.texts \in Seq(Texts) /\ Len(call.texts) \in Nat /\ Len(call.texts) <= Longest
           /\ DOMAIN call.texts = 1..Len(call.texts)
           /\ call.found \in Seq(Texts \cup {Zero, None}) /\ DOMAIN call.found = 1..Len(call.found)
           /\ call.got \in Seq(Texts \cup {Zero}) /\ Len(call.got) \in Nat
<1>1. call.texts \in Requests \cup {<<>>} /\ call.found \in Seq(Texts \cup {Zero, None})
      /\ call.got \in Seq(Texts \cup {Zero})
    BY DEF Call
<1>2. call.texts \in Seq(Texts) /\ Len(call.texts) <= Longest
  <2>1. CASE call.texts \in Requests
      BY <2>1, EmbInputs, LongestBounds
  <2>2. CASE call.texts = <<>>
      BY <2>2, EmptySeq, LongestBounds
  <2> QED BY <1>1, <2>1, <2>2
<1> QED BY <1>1, <1>2, LenProperties

\* The cache has a text's own vector or none.
LEMMA CachedOwn ==
    ASSUME RowsSound(table, clock), NEW t \in Texts
    PROVE  Cached(t) \in {None, t}
<1>1. CASE \E row \in table : row.text = t /\ ~Expired(row)
  <2>1. (CHOOSE row \in table : row.text = t) \in table /\ (CHOOSE row \in table : row.text = t).text = t
      BY <1>1
  <2>2. Cached(t) = (CHOOSE row \in table : row.text = t).vector
      BY <1>1 DEF Cached
  <2> QED BY <2>1, <2>2 DEF RowsSound
<1>2. CASE ~\E row \in table : row.text = t /\ ~Expired(row)
    BY <1>2 DEF Cached
<1> QED BY <1>1, <1>2

\* What is asked for depends on the texts and on what was found.
LEMMA AskedSame ==
    ASSUME NEW a, NEW b, a.texts \in Seq(Texts), a.texts = b.texts, a.found = b.found
    PROVE  /\ Uncached(a) = Uncached(b) /\ \A i : Rank(a, i) = Rank(b, i)
           /\ Asked(a) = Asked(b)
<1>1. Uncached(a) = Uncached(b)
    BY DEF Uncached
<1>2. \A i : Rank(a, i) = Rank(b, i)
    BY <1>1 DEF Rank
<1>3. /\ Asked(a) \in Seq(Texts) /\ Asked(b) \in Seq(Texts)
      /\ Len(Asked(a)) = Cardinality(Uncached(a)) /\ Len(Asked(b)) = Len(Asked(a))
    BY <1>1, AskedTexts
<1>4. ASSUME NEW k \in 1..Len(Asked(a)) PROVE Asked(a)[k] = Asked(b)[k]
  <2>1. PICK i \in Uncached(a) : Rank(a, i) = k
      BY <1>3, Ranks
  <2>2. Asked(a)[Rank(a, i)] = a.texts[i] /\ Asked(b)[Rank(b, i)] = b.texts[i]
      BY <1>1, AskedTexts
  <2> QED BY <1>2, <2>1, <2>2
<1>5. Asked(a) = Asked(b)
    BY <1>3, <1>4, SeqEqual
<1> QED BY <1>1, <1>2, <1>5

\* A call that moves on keeps what it has.
LEMMA MoveKeeps ==
    ASSUME CallsOK, NEW c \in Calls, calls[c].stage \in Pending, NEW stage \in Pending \cup {"failed"},
           NEW tries \in 0..(Retries - 1),
           calls' = [calls EXCEPT ![c] = [calls[c] EXCEPT !.stage = stage, !.tries = tries]]
    PROVE  CallsOK'
<1> DEFINE new == [calls[c] EXCEPT !.stage = stage, !.tries = tries]
<1>1. calls[c] \in Call /\ CallOK(calls[c])
    BY DEF CallsOK
<1>2. new \in Call /\ new.stage = stage /\ new.texts = calls[c].texts /\ new.found = calls[c].found
      /\ new.got = calls[c].got
    BY <1>1 DEF Call, Stages, Pending
<1>3. Asked(new) = Asked(calls[c])
    BY <1>1, <1>2, CallFields, AskedSame
<1> HIDE DEF new
<1>4. CallOK(new)
    BY <1>1, <1>2, <1>3 DEF CallOK, Pending
<1>5. calls' = [calls EXCEPT ![c] = new] /\ calls \in [Calls -> Call]
    BY DEF CallsOK, new
<1>6. calls' \in [Calls -> Call] /\ calls'[c] = new /\ \A d \in Calls \ {c} : calls'[d] = calls[d]
    BY <1>2, <1>5
<1>7. \A d \in Calls : CallOK(calls'[d])
    BY <1>4, <1>6 DEF CallsOK
<1> QED BY <1>6, <1>7 DEF CallsOK

\* A call that begins takes from the cache what it has.
LEMMA BeginKeeps ==
    ASSUME CallsOK, RowsSound(table, clock), NEW c \in Calls, Begin(c)
    PROVE  CallsOK'
<1>1. PICK texts \in Requests :
          calls' = [calls EXCEPT ![c] =
              [Idle EXCEPT !.stage = IF None \in ToSet([i \in DOMAIN texts |-> Cached(texts[i])])
                                     THEN "waiting" ELSE "answered",
                           !.texts = texts, !.found = [i \in DOMAIN texts |-> Cached(texts[i])]]]
    BY DEF Begin, Become
<1> DEFINE found == [i \in DOMAIN texts |-> Cached(texts[i])]
           new == [Idle EXCEPT !.stage = IF None \in ToSet(found) THEN "waiting" ELSE "answered",
                               !.texts = texts, !.found = found]
<1>2. texts \in Seq(Texts) /\ Len(texts) \in Nat /\ DOMAIN texts = 1..Len(texts)
      /\ \A i \in DOMAIN texts : texts[i] \in Texts
    BY EmbInputs, LenProperties
<1>3. \A i \in 1..Len(texts) : found[i] \in {None, texts[i]}
    BY <1>2, CachedOwn
<1>4. found \in Seq(Texts \cup {Zero, None}) /\ Len(found) = Len(texts) /\ DOMAIN found = 1..Len(texts)
    BY <1>2, <1>3
<1>5. new.texts = texts /\ new.found = found /\ new.got = <<>> /\ new.tries = 0
      /\ new.stage = IF None \in ToSet(found) THEN "waiting" ELSE "answered"
    BY DEF Idle
<1>6. new \in Call
  <2>1. <<>> \in Seq(Texts \cup {Zero}) /\ 0 \in 0..(Retries - 1)
      BY EmptySeq, EmbSizes
  <2> HIDE DEF found
  <2> QED BY <1>4, <2>1 DEF Idle, Call, Stages
<1> HIDE DEF found, new
<1>7. CallOK(new)
  <2>1. CASE None \in ToSet(found)
    <3>1. PICK i \in 1..Len(texts) : found[i] = None
        BY <1>4, <2>1 DEF ToSet
    <3>2. i \in Uncached(new)
        BY <1>2, <1>5, <3>1 DEF Uncached
    <3>3. Rank(new, i) \in 1..Cardinality(Uncached(new)) /\ Cardinality(Uncached(new)) \in Nat
        BY <1>2, <1>5, <3>2, Ranks
    <3>4. Len(Asked(new)) = Cardinality(Uncached(new))
        BY <1>2, <1>5, AskedTexts
    <3>5. Len(new.got) = 0
        BY <1>5, EmptySeq
    <3> QED BY <1>2, <1>3, <1>4, <1>5, <1>6, <2>1, <3>3, <3>4, <3>5 DEF CallOK
  <2>2. CASE None \notin ToSet(found)
    <3>1. \A i \in 1..Len(texts) : found[i] = texts[i]
        BY <1>3, <1>4, <2>2 DEF ToSet
    <3>2. found = texts
        BY <1>2, <1>4, <3>1, SeqEqual
    <3> QED BY <1>4, <1>5, <1>6, <2>2, <3>2 DEF CallOK, Pending
  <2> QED BY <2>1, <2>2
<1>8. calls' = [calls EXCEPT ![c] = new]
    BY <1>1 DEF new, found
<1>9. calls' \in [Calls -> Call] /\ calls'[c] = new /\ \A d \in Calls \ {c} : calls'[d] = calls[d]
    BY <1>6, <1>8 DEF CallsOK
<1>10. \A d \in Calls : CallOK(calls'[d])
    BY <1>7, <1>9 DEF CallsOK
<1> QED BY <1>9, <1>10 DEF CallsOK

\* A write of texts with their own vectors, or a failed one.
Stores == \E texts \in Seq(Texts) : /\ Len(texts) <= Longest
                                    /\ Store(texts, texts) \/ StoreFails(texts, texts)
CacheSame == UNCHANGED <<table, committed, rowCount, clock, embFaults>>

\* A call that is given on.
LEMMA GiveKeeps ==
    ASSUME CallsOK, NEW c \in Calls, calls[c].stage \in Pending, NEW stage \in Pending \cup {"failed"},
           Move(c, stage)
    PROVE  CallsOK'
<1>1. calls[c] \in Call
    BY DEF CallsOK
<1>2. calls[c].tries \in 0..(Retries - 1)
      /\ [calls[c] EXCEPT !.stage = stage] = [calls[c] EXCEPT !.stage = stage, !.tries = calls[c].tries]
    BY <1>1 DEF Call
<1>3. calls' = [calls EXCEPT ![c] = [calls[c] EXCEPT !.stage = stage, !.tries = calls[c].tries]]
    BY <1>2 DEF Move, Become
<1> QED BY <1>2, <1>3, MoveKeeps

\* A failed try leads to another one or to the next provider.
LEMMA RetryKeeps ==
    ASSUME CallsOK, NEW c \in Calls, calls[c].stage \in Pending, Retry(c)
    PROVE  CallsOK' /\ CacheSame
<1>1. CASE calls[c].tries + 1 < Retries
  <2>1. calls[c] \in Call /\ calls[c].tries \in 0..(Retries - 1) /\ Retries \in Nat
      BY EmbSizes DEF CallsOK, Call
  <2>2. calls[c].tries + 1 \in 0..(Retries - 1)
      BY <1>1, <2>1
  <2>3. /\ calls' = [calls EXCEPT ![c] = [calls[c] EXCEPT !.stage = "waiting", !.tries = calls[c].tries + 1]]
        /\ CacheSame
      BY <1>1 DEF Retry, Become, CacheSame
  <2>4. "waiting" \in Pending
      BY DEF Pending
  <2> QED BY <2>2, <2>3, <2>4, MoveKeeps
<1>2. CASE ~(calls[c].tries + 1 < Retries)
  <2>1. Move(c, AfterFailures) /\ CacheSame
      BY <1>2 DEF Retry, Give, CacheSame
  <2>2. AfterFailures \in Pending
      BY DEF AfterFailures, Pending
  <2> QED BY <2>1, <2>2, GiveKeeps
<1> QED BY <1>1, <1>2

\* A batch that is taken is put after the ones before it; when all are there,
\* every text has its own vector and the new ones are stored.
LEMMA AcceptKeeps ==
    ASSUME CallsOK, NEW c \in Calls, calls[c].stage \in Pending, Accept(c, Batch(calls[c]))
    PROVE  CallsOK' /\ (CacheSame \/ Stores)
<1> DEFINE old == calls[c]
           got == old.got \o Batch(old)
           call == [old EXCEPT !.got = got, !.tries = 0]
           n == Len(old.got)
           m == Len(Batch(old))
<1>1. old \in Call /\ CallOK(old) /\ calls \in [Calls -> Call]
    BY DEF CallsOK
<1>2. /\ old.texts \in Seq(Texts) /\ Len(old.texts) \in Nat /\ Len(old.texts) <= Longest
      /\ DOMAIN old.texts = 1..Len(old.texts)
      /\ old.found \in Seq(Texts \cup {Zero, None}) /\ DOMAIN old.found = 1..Len(old.found)
      /\ old.got \in Seq(Texts \cup {Zero}) /\ n \in Nat
    BY <1>1, CallFields
<1>3. /\ Asked(old) \in Seq(Texts) /\ Len(Asked(old)) = Cardinality(Uncached(old))
      /\ \A i \in Uncached(old) : Asked(old)[Rank(old, i)] = old.texts[i]
    BY <1>2, AskedTexts
<1>4. /\ IsFiniteSet(Uncached(old)) /\ Cardinality(Uncached(old)) <= Len(old.texts)
      /\ \A i \in Uncached(old) : Rank(old, i) \in 1..Cardinality(Uncached(old))
    BY <1>2, Ranks
<1>5. /\ Len(old.found) = Len(old.texts)
      /\ \A i \in DOMAIN old.texts : old.found[i] \in {None, old.texts[i]}
      /\ n < Len(Asked(old)) /\ \A k \in 1..n : old.got[k] = Asked(old)[k]
    BY <1>1 DEF CallOK
<1>6. /\ Batch(old) \in Seq(Texts) /\ m >= 1 /\ n + m <= Len(Asked(old))
      /\ \A k \in 1..m : Batch(old)[k] = Asked(old)[n + k]
    BY <1>2, <1>3, <1>5, BatchTexts
<1>7. m \in Nat /\ Len(Asked(old)) \in Nat
    BY <1>3, <1>6, LenProperties
<1>8. /\ got \in Seq(Texts \cup {Zero}) /\ Len(got) = n + m
      /\ \A k \in 1..(n + m) : got[k] = Asked(old)[k]
  <2>1. Batch(old) \in Seq(Texts \cup {Zero})
      BY <1>6, <1>7, LenProperties
  <2>2. /\ got \in Seq(Texts \cup {Zero}) /\ Len(got) = n + m
        /\ \A k \in 1..(n + m) : got[k] = IF k <= n THEN old.got[k] ELSE Batch(old)[k - n]
      BY <1>2, <2>1, ConcatProperties
  <2>3. ASSUME NEW k \in 1..(n + m) PROVE got[k] = Asked(old)[k]
    <3>1. CASE k <= n
        BY <1>2, <1>5, <2>2, <3>1
    <3>2. CASE k > n
      <4>1. k - n \in 1..m /\ n + (k - n) = k
        <5>1. n \in Nat /\ m \in Nat
            BY <1>2, <1>7
        <5> HIDE DEF n, m
        <5> QED BY <3>2, <5>1
      <4>2. got[k] = Batch(old)[k - n]
          BY <1>2, <1>7, <2>2, <3>2
      <4> QED BY <1>6, <4>1, <4>2
    <3> QED BY <1>2, <1>7, <3>1, <3>2
  <2> QED BY <2>2, <2>3
<1> HIDE DEF got
<1>9. /\ call \in Call /\ call.stage = old.stage /\ call.texts = old.texts /\ call.found = old.found
      /\ call.got = got
  <2>1. 0 \in 0..(Retries - 1)
      BY EmbSizes
  <2> QED BY <1>1, <1>8, <2>1 DEF Call
<1> HIDE DEF call
<1>10. Uncached(call) = Uncached(old) /\ Asked(call) = Asked(old) /\ \A i : Rank(call, i) = Rank(old, i)
    BY <1>2, <1>9, AskedSame
<1>11. ASSUME NEW new, new \in Call, CallOK(new), calls' = [calls EXCEPT ![c] = new]
       PROVE  CallsOK'
  <2>1. calls' \in [Calls -> Call] /\ calls'[c] = new /\ \A d \in Calls \ {c} : calls'[d] = calls[d]
      BY <1>1, <1>11
  <2>2. \A d \in Calls : CallOK(calls'[d])
      BY <1>11, <2>1 DEF CallsOK
  <2> QED BY <2>1, <2>2 DEF CallsOK
<1>12. CASE n + m < Len(Asked(old))
  <2> DEFINE new == [call EXCEPT !.stage = "waiting"]
  <2>1. calls' = [calls EXCEPT ![c] = new] /\ CacheSame
      BY <1>8, <1>9, <1>10, <1>12 DEF Accept, Become, CacheSame, call, got
  <2>2. /\ new \in Call /\ new.stage = "waiting" /\ new.texts = old.texts /\ new.found = old.found
        /\ new.got = got
      BY <1>9 DEF Call, Stages
  <2>3. Asked(new) = Asked(old)
      BY <1>2, <2>2, AskedSame
  <2> HIDE DEF new
  <2>4. CallOK(new)
      BY <1>5, <1>8, <1>12, <2>2, <2>3 DEF CallOK
  <2> QED BY <1>11, <2>1, <2>2, <2>4
<1>13. CASE ~(n + m < Len(Asked(old)))
  <2> DEFINE new == [call EXCEPT !.stage = "answered", !.found = Merged(call)]
  <2>1. got = Asked(old)
    <3>1. Asked(old) \in Seq(Texts \cup {Zero}) /\ n + m = Len(Asked(old))
      <4>1. Asked(old) \in Seq(Texts \cup {Zero})
          BY <1>3, LenProperties
      <4> HIDE DEF n, m
      <4> QED BY <1>2, <1>6, <1>7, <1>13, <4>1
    <3> QED BY <1>8, <3>1, SeqEqual
  <2>2. Merged(call) = old.texts
    <3>1. Merged(call) = [i \in 1..Len(old.texts) |->
                             IF old.found[i] # None THEN old.found[i] ELSE got[Rank(old, i)]]
        BY <1>2, <1>9, <1>10 DEF Merged
    <3>2. ASSUME NEW i \in 1..Len(old.texts) PROVE Merged(call)[i] = old.texts[i]
      <4>1. CASE old.found[i] # None
          BY <1>2, <1>5, <3>1, <4>1
      <4>2. CASE old.found[i] = None
        <5>1. i \in Uncached(old)
            BY <1>2, <4>2 DEF Uncached
        <5> QED BY <1>3, <2>1, <3>1, <4>2, <5>1
      <4> QED BY <4>1, <4>2
    <3>3. old.texts = [i \in 1..Len(old.texts) |-> old.texts[i]]
        BY <1>2, LenProperties
    <3> QED BY <3>1, <3>2, <3>3
  <2>3. /\ calls' = [calls EXCEPT ![c] = new]
        /\ Store(Asked(old), Asked(old)) \/ StoreFails(Asked(old), Asked(old))
      BY <1>8, <1>9, <1>10, <1>13, <2>1 DEF Accept, Become, call, got
  <2>4. /\ new \in Call /\ new.stage = "answered" /\ new.texts = old.texts /\ new.found = old.texts
    <3>1. old.texts \in Seq(Texts \cup {Zero, None})
        BY <1>2, LenProperties
    <3> QED BY <1>9, <2>2, <3>1 DEF Call, Stages
  <2> HIDE DEF new
  <2>5. CallOK(new)
      BY <2>4 DEF CallOK, Pending
  <2>6. Len(Asked(old)) <= Longest
      BY <1>2, <1>3, <1>4, <1>7, LongestBounds
  <2>7. Stores
      BY <1>3, <2>3, <2>6 DEF Stores
  <2> QED BY <1>11, <2>3, <2>4, <2>5, <2>7
<1> QED BY <1>12, <1>13

\* An answer of a provider: a failure, or a reply that is refused or taken.
LEMMA ReplyKeeps ==
    ASSUME CallsOK, NEW c \in Calls, calls[c].stage \in Pending,
           NEW items \in Replies(Batch(calls[c])),
           \/ Refused(items, Len(Batch(calls[c]))) /\ Give(c, "failed")
           \/ /\ ~Refused(items, Len(Batch(calls[c]))) /\ ~Misplaced(items, Len(Batch(calls[c])))
              /\ Accept(c, Mapped(items, Len(Batch(calls[c]))))
    PROVE  CallsOK' /\ (CacheSame \/ Stores)
<1>1. CASE Give(c, "failed")
    BY <1>1, GiveKeeps DEF Give, CacheSame
<1>2. CASE /\ ~Refused(items, Len(Batch(calls[c]))) /\ ~Misplaced(items, Len(Batch(calls[c])))
           /\ Accept(c, Mapped(items, Len(Batch(calls[c]))))
  <2>1. calls[c] \in Call /\ CallOK(calls[c])
      BY DEF CallsOK
  <2>2. calls[c].texts \in Seq(Texts) /\ calls[c].got \in Seq(Texts \cup {Zero})
      BY <2>1, CallFields
  <2>3. Asked(calls[c]) \in Seq(Texts) /\ Len(calls[c].got) < Len(Asked(calls[c]))
      BY <2>1, <2>2, AskedTexts DEF CallOK
  <2>4. Batch(calls[c]) \in Seq(Texts) /\ Len(Batch(calls[c])) >= 1
      BY <2>2, <2>3, BatchTexts
  <2>5. Mapped(items, Len(Batch(calls[c]))) = Batch(calls[c])
      BY <1>2, <2>4, MappedIsBatch
  <2> QED BY <1>2, <2>5, AcceptKeeps
<1> QED BY <1>1, <1>2

\* A step of a call.
LEMMA EmbStepKeeps ==
    ASSUME CallsOK, NEW c \in Calls, EmbStep(c)
    PROVE  CallsOK' /\ (CacheSame \/ Stores)
<1> USE DEF Pending
<1>1. CASE Post(c)
    BY <1>1, GiveKeeps DEF Post, CacheSame
<1>2. CASE Answer(c)
  <2>1. calls[c].stage = "posted"
      BY <1>2 DEF Answer
  <2>2. CASE Retry(c)
      BY <2>1, <2>2, RetryKeeps
  <2>3. CASE ~Retry(c)
    <3>1. \E items \in Replies(Batch(calls[c])) :
              \/ Refused(items, Len(Batch(calls[c]))) /\ Give(c, "failed")
              \/ /\ ~Refused(items, Len(Batch(calls[c]))) /\ ~Misplaced(items, Len(Batch(calls[c])))
                 /\ Accept(c, Mapped(items, Len(Batch(calls[c]))))
        BY <1>2, <2>3 DEF Answer, Take
    <3> QED BY <2>1, <3>1, ReplyKeeps
  <2> QED BY <2>2, <2>3
<1>3. CASE AnswerFallback(c)
  <2>1. calls[c].stage = "fallback"
      BY <1>3 DEF AnswerFallback
  <2>2. CASE Give(c, "local")
      BY <2>1, <2>2, GiveKeeps DEF Give, CacheSame
  <2>3. CASE ~Give(c, "local")
    <3>1. \E items \in Replies(Batch(calls[c])) :
              \/ Refused(items, Len(Batch(calls[c]))) /\ Give(c, "failed")
              \/ /\ ~Refused(items, Len(Batch(calls[c]))) /\ ~Misplaced(items, Len(Batch(calls[c])))
                 /\ Accept(c, Mapped(items, Len(Batch(calls[c]))))
        BY <1>3, <2>3 DEF AnswerFallback, Take
    <3> QED BY <2>1, <3>1, ReplyKeeps
  <2> QED BY <2>2, <2>3
<1>4. CASE AnswerLocal(c)
  <2>1. calls[c].stage = "local"
      BY <1>4 DEF AnswerLocal
  <2>2. CASE Give(c, "failed")
      BY <2>1, <2>2, GiveKeeps DEF Give, CacheSame
  <2>3. CASE Accept(c, Batch(calls[c]))
      BY <2>1, <2>3, AcceptKeeps
  <2> QED BY <1>4, <2>2, <2>3 DEF AnswerLocal
<1> QED BY <1>1, <1>2, <1>3, <1>4 DEF EmbStep

-----------------------------------------------------------------------------
(* The embedding client: the cache.                                        *)

\* However far the counter is off: by the rows of one age that an eviction may
\* leave too many, and by what failed writes left uncounted.
Slack    == Longest * (1 + embFaults)
CacheInv == /\ clock \in Nat /\ rowCount \in Nat /\ embFaults \in Nat
            /\ CacheRows(table, clock) /\ CacheRows(committed, clock)
            /\ Cardinality(table) <= rowCount + Slack - 1
            /\ Cardinality(table) <= MaxEntries + Slack - 1
            /\ Cardinality(committed) <= MaxEntries + Slack - 1
EmbInv   == CallsOK /\ CacheInv

\* What EvictsOldest says of a step.
Evicts == \A gone \in table \ table', kept \in table \cap table' :
              rowCount' = Keep /\ clock' > clock /\ gone.text \notin {r.text : r \in table'}
                  => gone.at < kept.at

\* The slack is a number that a failed write raises by a list.
LEMMA SlackBounds ==
    ASSUME embFaults \in Nat
    PROVE  /\ Slack \in Nat /\ Slack >= Longest /\ Longest >= 1 /\ Longest \in Nat
           /\ Longest * (1 + (embFaults + 1)) = Slack + Longest
<1>1. Longest \in Nat /\ Longest >= 1
    BY LongestBounds
<1>2. \A a, b \in Nat : a * (1 + b) \in Nat /\ a * (1 + b) >= a
    OBVIOUS
<1>3. \A a, b \in Nat : a * (1 + (b + 1)) = a * (1 + b) + a
    OBVIOUS
<1> QED BY <1>1, <1>2, <1>3 DEF Slack

\* The rows of the written texts are there and the newest.
LEMMA WrittenNew ==
    ASSUME NEW tab, NEW texts \in Seq(Texts), NEW row \in tab, row \notin Written(tab, texts, texts)
    PROVE  /\ row.text \in ToSet(texts)
           /\ \E new \in Written(tab, texts, texts) : new.text = row.text /\ new.at = clock
<1>1. Written(tab, texts, texts) = {r \in tab : r.text \notin ToSet(texts)} \cup NewRows(texts)
    BY WrittenIs
<1>2. row.text \in ToSet(texts)
    BY <1>1
<1>3. [text |-> row.text, vector |-> row.text, at |-> clock] \in NewRows(texts)
    BY <1>2 DEF NewRows
<1> QED BY <1>1, <1>2, <1>3

\* Writing a list keeps the invariant and removes no row before an older one.
LEMMA StoreKeeps ==
    ASSUME CacheInv, NEW texts \in Seq(Texts), Len(texts) <= Longest, Store(texts, texts)
    PROVE  CacheInv' /\ Evicts
<1> DEFINE full == Written(table, texts, texts)
           count == rowCount + Len(texts)
<1>1. Len(texts) \in Nat
    BY LenProperties
<1>2. NetNew(texts) = Len(texts)
  <2>1. 2 * Len(texts) - Len(texts) = Len(texts) /\ Len(texts) \in Int
      BY <1>1
  <2> QED BY <1>1, <2>1, MaxMinPair DEF NetNew, Delta
<1>3. /\ table' = IF count > MaxEntries THEN Trimmed(full) ELSE full
      /\ rowCount' = IF count > MaxEntries THEN Keep ELSE count
      /\ committed' = table' /\ clock' = clock + 1 /\ embFaults' = embFaults
    BY <1>2 DEF Store
<1>4. clock \in Nat /\ rowCount \in Nat /\ embFaults \in Nat /\ CacheRows(table, clock)
      /\ Cardinality(table) <= rowCount + Slack - 1
    BY DEF CacheInv
<1>5. CacheRows(full, clock + 1) /\ Cardinality(full) <= Cardinality(table) + Len(texts)
    BY <1>4, WrittenRows
<1>6. Slack \in Nat /\ Slack >= Longest /\ Longest >= 1 /\ Longest \in Nat
    BY <1>4, SlackBounds
<1>7. Slack' = Slack
    BY <1>3 DEF Slack
<1>8. MaxEntries \in Nat /\ Keep \in Nat /\ 1 <= Keep /\ Keep <= MaxEntries
    BY EmbSizes, KeepBounds
<1>9. Cardinality(full) \in Nat /\ Cardinality(table) \in Nat
    BY <1>4, <1>5 DEF CacheRows
<1>10. \A row \in table : row \notin full =>
           \E new \in full : new.text = row.text /\ new.at = clock
    BY WrittenNew
<1> HIDE DEF full
<1>11. CASE count > MaxEntries
  <2>1. table' = Trimmed(full) /\ rowCount' = Keep
      BY <1>3, <1>11
  <2>2. Trimmed(full) \in SUBSET full /\ Cardinality(Trimmed(full)) <= Keep + Longest - 1
      BY <1>4, <1>5, TrimmedFew
  <2>3. CacheRows(table', clock')
    <3>1. clock + 1 \in Nat /\ clock + 1 <= clock + 1
        BY <1>4
    <3> QED BY <1>3, <1>5, <2>1, <2>2, <3>1, FewerRows
  <2>4. Cardinality(table') \in Nat
      BY <2>3 DEF CacheRows
  <2>5. /\ Cardinality(table') <= rowCount' + Slack' - 1
        /\ Cardinality(table') <= MaxEntries + Slack' - 1
      BY <1>6, <1>7, <1>8, <2>1, <2>2, <2>4
  <2>6. CacheInv'
      BY <1>3, <1>4, <1>8, <2>1, <2>3, <2>5 DEF CacheInv
  <2>7. ASSUME NEW gone \in table \ table', NEW kept \in table \cap table',
               gone.text \notin {r.text : r \in table'}
        PROVE  gone.at < kept.at
    <3> DEFINE newest == {row \in full : Cardinality({other \in full : other.at > row.at}) < Keep}
    <3>1. table' = {row \in full : \E k \in newest : row.at >= k.at}
        BY <2>1 DEF Trimmed
    <3>2. \A row \in full : row.at \in Nat /\ row.at < clock + 1
        BY <1>5 DEF CacheRows, RowsSound, Row
    <3>3. gone \in full
      <4>1. ASSUME NEW new \in full, new.text = gone.text, new.at = clock PROVE FALSE
        <5>1. {other \in full : other.at > new.at} = {}
            BY <1>4, <3>2, <4>1
        <5>2. Cardinality({other \in full : other.at > new.at}) = 0
            BY <5>1, FS_EmptySet
        <5>3. new \in full /\ new \in newest /\ new.at \in Nat /\ new.at >= new.at
            BY <1>8, <3>2, <5>2
        <5> HIDE DEF newest
        <5>4. new \in table'
            BY <3>1, <5>3
        <5> QED BY <2>7, <4>1, <5>4
      <4> QED BY <1>10, <2>7, <4>1
    <3>4. PICK k \in newest : kept.at >= k.at
        BY <2>7, <3>1
    <3>5. kept \in full /\ k \in full
        BY <2>7, <3>1, <3>4
    <3>6. ~(gone.at >= k.at)
        BY <2>7, <3>1, <3>3
    <3> HIDE DEF newest
    <3> QED BY <3>2, <3>3, <3>4, <3>5, <3>6
  <2> QED BY <2>6, <2>7 DEF Evicts
<1>12. CASE ~(count > MaxEntries)
  <2>1. table' = full /\ rowCount' = count
      BY <1>3, <1>12
  <2>2. CacheRows(table', clock')
      BY <1>3, <1>5, <2>1
  <2>3. /\ Cardinality(table') <= rowCount' + Slack' - 1
        /\ Cardinality(table') <= MaxEntries + Slack' - 1
      BY <1>1, <1>4, <1>5, <1>6, <1>7, <1>8, <1>9, <1>12, <2>1
  <2>4. CacheInv'
      BY <1>1, <1>3, <1>4, <2>1, <2>2, <2>3 DEF CacheInv
  <2>5. Evicts
      BY <1>10, <2>1 DEF Evicts
  <2> QED BY <2>4, <2>5
<1> QED BY <1>11, <1>12

\* So does a write that fails.
LEMMA StoreFailsKeeps ==
    ASSUME CacheInv, NEW texts \in Seq(Texts), Len(texts) <= Longest, StoreFails(texts, texts)
    PROVE  CacheInv' /\ Evicts
<1>1. /\ embFaults' = embFaults + 1 /\ clock' = clock + 1
      /\ committed' = committed /\ rowCount' = rowCount
    BY DEF StoreFails
<1>2. clock \in Nat /\ rowCount \in Nat /\ embFaults \in Nat
      /\ CacheRows(table, clock) /\ CacheRows(committed, clock)
      /\ Cardinality(table) <= rowCount + Slack - 1
      /\ Cardinality(table) <= MaxEntries + Slack - 1
      /\ Cardinality(committed) <= MaxEntries + Slack - 1
    BY DEF CacheInv
<1>3. Slack \in Nat /\ Longest >= 1 /\ Longest \in Nat /\ Slack' = Slack + Longest
    BY <1>1, <1>2, SlackBounds DEF Slack
<1>4. CacheRows(committed', clock')
  <2>1. clock + 1 \in Nat /\ clock <= clock + 1 /\ committed \in SUBSET committed
      BY <1>2
  <2> QED BY <1>1, <1>2, <2>1, FewerRows
<1>5. /\ CacheRows(table', clock') /\ Cardinality(table') <= Cardinality(table) + Longest
      /\ \A row \in table \ table' : \E new \in table' : new.text = row.text
  <2>1. PICK n \in 0..Len(texts) :
            table' = IF n = 0 THEN table
                     ELSE Written(table, SubSeq(texts, 1, n), SubSeq(texts, 1, n))
      BY DEF StoreFails
  <2>2. CASE n = 0
    <3>1. clock + 1 \in Nat /\ clock <= clock + 1 /\ table \in SUBSET table /\ Cardinality(table) \in Nat
        BY <1>2 DEF CacheRows
    <3> QED BY <1>1, <1>2, <1>3, <2>1, <2>2, <3>1, FewerRows
  <2>3. CASE n # 0
    <3> DEFINE part == SubSeq(texts, 1, n)
    <3>1. part \in Seq(Texts) /\ Len(part) = n /\ n <= Longest /\ n \in Nat
      <4>1. Len(texts) \in Nat /\ \A i \in 1..Len(texts) : texts[i] \in Texts
          BY LenProperties
      <4>2. n \in Nat /\ 1 <= n /\ n <= Len(texts) /\ \A i \in 1..n : texts[i] \in Texts
          BY <2>3, <4>1
      <4>3. /\ SubSeq(texts, 1, n) \in Seq(Texts)
            /\ Len(SubSeq(texts, 1, n)) = IF 1 <= n THEN n - 1 + 1 ELSE 0
          BY <4>2, SubSeqProperties
      <4> QED BY <1>3, <4>1, <4>2, <4>3
    <3> HIDE DEF part
    <3>2. table' = Written(table, part, part)
        BY <2>1, <2>3 DEF part
    <3>3. /\ CacheRows(Written(table, part, part), clock + 1)
          /\ Cardinality(Written(table, part, part)) <= Cardinality(table) + Len(part)
        BY <1>2, <3>1, WrittenRows
    <3>4. Cardinality(table) \in Nat /\ Cardinality(table') \in Nat
        BY <1>2, <3>2, <3>3 DEF CacheRows
    <3>5. Cardinality(table') <= Cardinality(table) + Longest
        BY <1>3, <3>1, <3>2, <3>3, <3>4
    <3>6. \A row \in table \ table' : \E new \in table' : new.text = row.text
        BY <3>1, <3>2, WrittenNew
    <3> QED BY <1>1, <3>2, <3>3, <3>5, <3>6
  <2> QED BY <2>2, <2>3
<1>6. Cardinality(table) \in Nat /\ Cardinality(table') \in Nat /\ Cardinality(committed) \in Nat
      /\ MaxEntries \in Nat
    BY <1>2, <1>5, EmbSizes DEF CacheRows
<1>7. /\ Cardinality(table') <= rowCount' + Slack' - 1
      /\ Cardinality(table') <= MaxEntries + Slack' - 1
      /\ Cardinality(committed') <= MaxEntries + Slack' - 1
    BY <1>1, <1>2, <1>3, <1>5, <1>6
<1>8. CacheInv'
    BY <1>1, <1>2, <1>4, <1>5, <1>7 DEF CacheInv
<1> QED BY <1>5, <1>8 DEF Evicts

\* Reading an expired row removes it.
LEMMA GetKeeps ==
    ASSUME EmbInv, NEW t \in Texts, Get(t)
    PROVE  EmbInv'
<1> USE DEF EmbInv
<1>1. /\ table' = {row \in table : row.text # t} /\ committed' = table'
      /\ rowCount' = Max({0, rowCount - 1})
      /\ UNCHANGED <<clock, calls, embFaults>>
    BY DEF Get
<1>2. PICK row \in table : row.text = t
    BY DEF Get
<1>3. clock \in Nat /\ rowCount \in Nat /\ embFaults \in Nat /\ CacheRows(table, clock)
      /\ Cardinality(table) <= rowCount + Slack - 1
      /\ Cardinality(table) <= MaxEntries + Slack - 1
    BY DEF CacheInv
<1>4. table' = table \ {row}
    BY <1>1, <1>2, <1>3 DEF CacheRows, RowsSound
<1>5. Cardinality(table') = Cardinality(table) - 1
    BY <1>2, <1>3, <1>4, FS_RemoveElement DEF CacheRows
<1>6. CacheRows(table', clock')
  <2>1. clock <= clock /\ table' \in SUBSET table
      BY <1>3, <1>4
  <2> QED BY <1>1, <1>3, <2>1, FewerRows
<1>7. Slack' = Slack /\ Slack \in Nat /\ Slack >= 1
    BY <1>1, <1>3, SlackBounds DEF Slack
<1>8. Cardinality(table) \in Nat /\ MaxEntries \in Nat
    BY <1>3, EmbSizes DEF CacheRows
<1>9. rowCount' = IF rowCount = 0 THEN 0 ELSE rowCount - 1
    BY <1>1, <1>3, MaxMinPair
<1>10. /\ Cardinality(table') <= rowCount' + Slack' - 1
       /\ Cardinality(table') <= MaxEntries + Slack' - 1
       /\ rowCount' \in Nat
    BY <1>3, <1>5, <1>7, <1>8, <1>9
<1>11. CacheInv'
    BY <1>1, <1>3, <1>6, <1>10 DEF CacheInv
<1> QED BY <1>1, <1>11 DEF CallsOK

\* The first state.
LEMMA EmbInitInv == EmbInit => EmbInv
<1> SUFFICES ASSUME EmbInit PROVE EmbInv
    OBVIOUS
<1>1. /\ table = {} /\ committed = {} /\ rowCount = 0 /\ clock = 0
      /\ embFaults = 0 /\ calls = [c \in Calls |-> Idle]
    BY DEF EmbInit
<1>2. CacheRows({}, 0)
  <2>1. \A v \in Nat : OfAge({}, v) = {}
      BY DEF OfAge
  <2> QED BY <2>1, FS_EmptySet, LongestBounds DEF CacheRows, RowsSound
<1>3. Slack \in Nat /\ Slack >= 1
    BY <1>1, SlackBounds
<1>4. Idle \in Call /\ CallOK(Idle)
  <2>1. <<>> \in Seq(Texts \cup {Zero}) /\ <<>> \in Seq(Texts \cup {Zero, None}) /\ 0 \in 0..(Retries - 1)
      BY EmptySeq, EmbSizes
  <2> QED BY <2>1 DEF Idle, Call, CallOK, Stages, Pending
<1>5. CallsOK
    BY <1>1, <1>4 DEF CallsOK
<1>6. CacheInv
  <2>1. Cardinality({}) = 0 /\ MaxEntries \in Nat
      BY FS_EmptySet, EmbSizes
  <2> QED BY <1>1, <1>2, <1>3, <2>1 DEF CacheInv
<1> QED BY <1>5, <1>6 DEF EmbInv

\* Every step.
LEMMA EmbNextKeeps ==
    ASSUME EmbInv, [EmbNext]_embVars
    PROVE  EmbInv' /\ Evicts
<1> USE DEF EmbInv
<1>1. clock \in Nat /\ rowCount \in Nat /\ embFaults \in Nat
      /\ CacheRows(table, clock) /\ CacheRows(committed, clock)
      /\ Cardinality(table) <= rowCount + Slack - 1
      /\ Cardinality(table) <= MaxEntries + Slack - 1
      /\ Cardinality(committed) <= MaxEntries + Slack - 1
    BY DEF CacheInv
<1>2. ASSUME UNCHANGED <<table, committed, rowCount, clock, embFaults>> PROVE CacheInv' /\ Evicts
  <2>1. Slack' = Slack
      BY <1>2 DEF Slack
  <2> QED BY <1>1, <1>2, <2>1 DEF CacheInv, Evicts
<1>3. ASSUME UNCHANGED calls PROVE CallsOK'
    BY <1>3 DEF CallsOK
<1>4. CASE UNCHANGED embVars
    BY <1>2, <1>3, <1>4 DEF embVars
<1>5. ASSUME NEW c \in Calls, Begin(c) PROVE EmbInv' /\ Evicts
  <2>1. UNCHANGED <<table, committed, rowCount, clock, embFaults>>
      BY <1>5 DEF Begin
  <2> QED BY <1>1, <1>2, <1>5, <2>1, BeginKeeps DEF CacheRows
<1>6. ASSUME NEW c \in Calls, EmbStep(c) PROVE EmbInv' /\ Evicts
  <2>1. CallsOK' /\ (CacheSame \/ Stores)
      BY <1>6, EmbStepKeeps
  <2>2. CASE CacheSame
      BY <1>2, <2>1, <2>2 DEF CacheSame
  <2>3. CASE Stores
    <3>1. PICK texts \in Seq(Texts) : /\ Len(texts) <= Longest
                                      /\ Store(texts, texts) \/ StoreFails(texts, texts)
        BY <2>3 DEF Stores
    <3> QED BY <2>1, <3>1, StoreKeeps, StoreFailsKeeps
  <2> QED BY <2>1, <2>2, <2>3
<1>7. ASSUME NEW t \in Texts, Get(t) PROVE EmbInv' /\ Evicts
  <2>1. clock' = clock
      BY <1>7 DEF Get
  <2> QED BY <1>1, <1>7, <2>1, GetKeeps DEF Evicts
<1>8. CASE Clear
  <2>1. /\ table' = {} /\ committed' = {} /\ rowCount' = 0
        /\ UNCHANGED <<clock, calls, embFaults>>
      BY <1>8 DEF Clear
  <2>2. CacheRows({}, clock)
    <3>1. \A v \in Nat : OfAge({}, v) = {}
        BY DEF OfAge
    <3> QED BY <3>1, FS_EmptySet, LongestBounds DEF CacheRows, RowsSound
  <2>3. Slack' = Slack /\ Slack \in Nat /\ Slack >= 1
      BY <1>1, <2>1, SlackBounds DEF Slack
  <2>4. Cardinality({}) = 0 /\ MaxEntries \in Nat
      BY FS_EmptySet, EmbSizes
  <2>5. CacheInv'
      BY <1>1, <2>1, <2>2, <2>3, <2>4 DEF CacheInv
  <2> QED BY <1>3, <2>1, <2>5 DEF Evicts
<1>9. CASE Tick
  <2>1. clock' = clock + 1 /\ UNCHANGED <<table, committed, rowCount, calls, embFaults>>
      BY <1>9 DEF Tick
  <2>2. CacheRows(table, clock + 1) /\ CacheRows(committed, clock + 1)
    <3>1. clock + 1 \in Nat /\ clock <= clock + 1
        BY <1>1
    <3>2. table \in SUBSET table /\ committed \in SUBSET committed
        OBVIOUS
    <3> QED BY <1>1, <3>1, <3>2, FewerRows
  <2>3. Slack' = Slack
      BY <2>1 DEF Slack
  <2>4. CacheInv'
      BY <1>1, <2>1, <2>2, <2>3 DEF CacheInv
  <2> QED BY <1>3, <2>1, <2>4 DEF Evicts
<1>10. CASE Restart
  <2>1. /\ table' = committed /\ rowCount' = Cardinality(committed) /\ calls' = [c \in Calls |-> Idle]
        /\ UNCHANGED <<committed, clock, embFaults>>
      BY <1>10 DEF Restart
  <2>2. Slack' = Slack /\ Slack \in Nat /\ Slack >= 1
      BY <1>1, <2>1, SlackBounds DEF Slack
  <2>3. Cardinality(committed) \in Nat
      BY <1>1 DEF CacheRows
  <2>4. CacheInv'
      BY <1>1, <2>1, <2>2, <2>3 DEF CacheInv
  <2>5. Idle \in Call /\ CallOK(Idle)
    <3>1. <<>> \in Seq(Texts \cup {Zero}) /\ <<>> \in Seq(Texts \cup {Zero, None}) /\ 0 \in 0..(Retries - 1)
        BY EmptySeq, EmbSizes
    <3> QED BY <3>1 DEF Idle, Call, CallOK, Stages, Pending
  <2>6. CallsOK'
      BY <2>1, <2>5 DEF CallsOK
  <2> QED BY <1>1, <2>1, <2>4, <2>6 DEF Evicts
<1> QED BY <1>4, <1>5, <1>6, <1>7, <1>8, <1>9, <1>10 DEF EmbNext

\* The invariant, and what is true of every step, in every reachable state.
THEOREM EmbeddingInvariant == EmbSpec => []EmbInv /\ [][Evicts]_embVars
<1>1. EmbInv /\ [EmbNext]_embVars => EmbInv' /\ [Evicts]_embVars
    BY EmbNextKeeps
<1> QED BY <1>1, EmbInitInv, PTL DEF EmbSpec

\* Every text gets its own vector, whatever came from the cache, however the
\* batches were cut and the replies ordered; the cache is sound and bounded, and
\* evicts the oldest rows.
THEOREM EmbeddingCorrect == EmbSpec => EmbeddingSafe
<1>1. EmbInv => EmbTypeOK /\ VectorsAligned /\ CacheSound /\ CacheBounded
  <2> SUFFICES ASSUME EmbInv PROVE EmbTypeOK /\ VectorsAligned /\ CacheSound /\ CacheBounded
      OBVIOUS
  <2> USE DEF EmbInv
  <2>1. EmbTypeOK
      BY DEF EmbTypeOK, CacheInv, CacheRows, RowsSound, CallsOK, Call
  <2>2. VectorsAligned
      BY DEF VectorsAligned, CallsOK, CallOK
  <2>3. CacheSound
      BY DEF CacheSound, CacheInv, CacheRows, RowsSound
  <2>4. CacheBounded
      BY DEF CacheBounded, CacheInv, Slack
  <2> QED BY <2>1, <2>2, <2>3, <2>4
<1>2. [Evicts]_embVars => [\A gone \in table \ table', kept \in table \cap table' :
           rowCount' = Keep /\ clock' > clock /\ gone.text \notin {r.text : r \in table'}
               => gone.at < kept.at]_embVars
    BY DEF Evicts
<1> QED BY <1>1, <1>2, EmbeddingInvariant, PTL DEF EmbeddingSafe, EvictsOldest
=============================================================================
