------------------------------- MODULE Chunker -------------------------------
(***************************************************************************)
(* The chunker (engine/chunker.py): a parsed text is cut by its sections   *)
(* (headings), by its definitions (code), or into windows of a fixed       *)
(* length, so that each chunk can be embedded and nothing of the text is   *)
(* left out.                                                               *)
(*                                                                         *)
(*   doc    the text: doc.off[i] is the position where its section i ends, *)
(*          doc.n the number of its sections; blank ones are skipped       *)
(*   way    the strategy                                                   *)
(*   at     how many sections the loop has taken                           *)
(*   from   the position up to which the text is in chunks; in "semantic"  *)
(*          what lies between it and doc.off[at] is the list current       *)
(*   made   the chunks: the stretches of the text from .. to - 1           *)
(*                                                                         *)
(* The two characters that join sections, and those that strip takes away, *)
(* are left out of the lengths.                                            *)
(***************************************************************************)
EXTENDS Integers, Sequences

CONSTANTS
    Documents,    \* texts, as above
    ChunkSize, ChunkOverlap

\* __init__: "overlap >= chunk_size makes the fixed-stride step <= 0".
ASSUME ChunkerAssumption ==
    /\ ChunkSize \in Nat /\ ChunkOverlap \in Nat /\ ChunkOverlap < ChunkSize
    /\ \A d \in Documents :
          /\ d.n \in Nat \ {0} /\ d.off \in [0..d.n -> Nat] /\ d.off[0] = 0
          /\ \A i, j \in 0..d.n : i < j => d.off[i] < d.off[j]

VARIABLES doc, way, at, from, made

chunkVars == <<doc, way, at, from, made>>

\* Code without a definition to cut at is cut like any other text.
ChunkInit ==
    /\ doc \in Documents
    /\ way \in {"semantic", "fixed", "code"}
    /\ way = "fixed" => doc.n = 1
    /\ way = "code" => doc.n > 1
    /\ at = 0 /\ from = 0 /\ made = <<>>

End(i) == doc.off[i]
Emit(a, b) == made' = Append(made, [from |-> a, to |-> b])

-----------------------------------------------------------------------------
(* Sections are collected until the next one does not fit; the last ones   *)
(* of a chunk that together are no longer than the overlap begin the next. *)

Overfull(next) == from < End(at) /\ End(next) - from > ChunkSize

Carries(p) == /\ \E k \in 0..at : p = End(k)
              /\ from <= p /\ End(at) - p <= ChunkOverlap

AddSection ==
    /\ way = "semantic" /\ at < doc.n
    /\ at' = at + 1
    /\ \/ ~Overfull(at + 1) /\ UNCHANGED <<from, made>>
       \/ /\ Overfull(at + 1) /\ Emit(from, End(at))
          /\ from' \in {p \in 0..End(at) : Carries(p)}
          /\ \A p \in 0..(from' - 1) : ~Carries(p)
    /\ UNCHANGED <<doc, way>>

LastSections ==
    /\ way = "semantic" /\ at = doc.n /\ from < End(at)
    /\ Emit(from, End(at)) /\ from' = End(at)
    /\ UNCHANGED <<doc, way, at>>

-----------------------------------------------------------------------------
(* Windows that overlap, over the text or over a definition that is too    *)
(* long; a definition that fits is a chunk.                                *)

StrideBug == ChunkSize + ChunkOverlap
Stride == ChunkSize - ChunkOverlap

Long == End(at + 1) - End(at) > ChunkSize
Upto(p) == IF p < End(at + 1) THEN p ELSE End(at + 1)

Window ==
    /\ at < doc.n
    /\ way = "fixed" \/ (way = "code" /\ Long)
    /\ Emit(from, Upto(from + ChunkSize))
    /\ from' = Upto(from + Stride)
    /\ at' = IF from' = End(at + 1) THEN at + 1 ELSE at
    /\ UNCHANGED <<doc, way>>

Definition ==
    /\ way = "code" /\ at < doc.n /\ ~Long
    /\ Emit(from, End(at + 1)) /\ from' = End(at + 1)
    /\ at' = at + 1
    /\ UNCHANGED <<doc, way>>

ChunkNext == AddSection \/ LastSections \/ Window \/ Definition

ChunkSpec == ChunkInit /\ [][ChunkNext]_chunkVars

-----------------------------------------------------------------------------
(* Properties.                                                             *)

\* Every variable has its type.
ChunkTypeOK ==
    /\ way \in {"semantic", "fixed", "code"}
    /\ at \in 0..doc.n /\ from \in 0..End(doc.n)
    /\ made \in Seq([from : 0..End(doc.n), to : 0..End(doc.n)])

\* Nothing of a text is lost between chunks, nor under the overlap that is
\* carried: each character before from is in a chunk.
NothingLost ==
    \A p \in 0..(from - 1) : \E i \in 1..Len(made) : made[i].from <= p /\ p < made[i].to

\* A chunk fits the size that it is to be embedded with, unless a single section
\* after the carried overlap takes it beyond.
Fits(a, b) ==
    \/ b - a <= ChunkSize
    \/ /\ way = "semantic"
       /\ \E k \in 0..(doc.n - 1) : End(k + 1) = b /\ End(k) - a <= ChunkOverlap
ChunksFit == \A i \in 1..Len(made) : Fits(made[i].from, made[i].to)

\* Chunks cover the text, and fit.
ChunkerSafe == ChunkTypeOK /\ NothingLost /\ ChunksFit
=============================================================================
