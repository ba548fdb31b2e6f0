------------------------------ MODULE AstChunks ------------------------------
(***************************************************************************)
(* Python files are cut at their top-level statements                      *)
(* (engine/ast_chunker.py): a loop that gathers imports until something    *)
(* else comes, gives every function and class a chunk, and makes one chunk *)
(* of the rest, from its first line to its last.  A file that does not     *)
(* parse goes to another splitter and is left out.                         *)
(*                                                                         *)
(*   body     the kinds of the statements, in order                        *)
(*   taken    how many of them the loop has taken                          *)
(*   imports  import_nodes: the statements gathered                        *)
(*   rest     constant_ranges                                              *)
(*   pieces   the chunks: first and last statement, and what they are;     *)
(*            they are sorted by their first line at the end               *)
(***************************************************************************)
EXTENDS Integers, FiniteSetsExt

CONSTANT MaxStatements    \* bound: statements of a file

ASSUME AstAssumption == MaxStatements \in Nat

VARIABLES body, taken, imports, rest, pieces

astVars == <<body, taken, imports, rest, pieces>>

StatementKinds == {"import", "definition", "other"}

AstInit ==
    /\ body \in UNION {[1..n -> StatementKinds] : n \in 0..MaxStatements}
    /\ taken = 0 /\ imports = {} /\ rest = {} /\ pieces = {}

Piece(what, nodes) == [what |-> what, first |-> Min(nodes), last |-> Max(nodes)]
PieceIf(what, nodes) == IF nodes = {} THEN {} ELSE {Piece(what, nodes)}

Comes(kind) == /\ taken + 1 \in DOMAIN body /\ body[taken + 1] = kind
               /\ taken' = taken + 1

TakeImport ==
    /\ Comes("import")
    /\ imports' = imports \cup {taken + 1}
    /\ UNCHANGED <<body, rest, pieces>>

\* What ends a run of imports makes a chunk of it; the next run starts anew.
NextRunBug == imports
NextRun == {}

TakeDefinition ==
    /\ Comes("definition")
    /\ pieces' = pieces \cup PieceIf("imports", imports) \cup {Piece("definition", {taken + 1})}
    /\ imports' = NextRun
    /\ UNCHANGED <<body, rest>>

TakeOther ==
    /\ Comes("other")
    /\ pieces' = pieces \cup PieceIf("imports", imports)
    /\ imports' = NextRun
    /\ rest' = rest \cup {taken + 1}
    /\ UNCHANGED body

\* The imports and the rest that are left when the file ends.
Left == PieceIf("imports", imports) \cup PieceIf("rest", rest)

EndOfFile ==
    /\ taken = Cardinality(DOMAIN body)
    /\ taken' = taken + 1
    /\ pieces' = pieces \cup Left
    /\ UNCHANGED <<body, imports, rest>>

AstNext == TakeImport \/ TakeDefinition \/ TakeOther \/ EndOfFile

AstSpec == AstInit /\ [][AstNext]_astVars

-----------------------------------------------------------------------------
(* Properties.                                                             *)

\* Every variable has its type.
AstTypeOK ==
    /\ taken \in 0..(MaxStatements + 1)
    /\ imports \cup rest \subseteq DOMAIN body
    /\ \A p \in pieces : {p.first, p.last} \subseteq DOMAIN body /\ p.first <= p.last

\* What the loop makes of a file, said without a loop: each definition, each
\* longest run of imports, and the stretch of the rest.  Nothing of the file is
\* left out, whatever it ends with.
Run(i, j) ==
    /\ \A k \in i..j : body[k] = "import"
    /\ \A k \in {i - 1, j + 1} \cap DOMAIN body : body[k] # "import"
Of(kind) == {i \in DOMAIN body : body[i] = kind}

AstAsSaid ==
    taken > Cardinality(DOMAIN body) =>
        pieces = {Piece("definition", {i}) : i \in Of("definition")}
                 \cup {Piece("imports", {p[1], p[2]}) : p \in
                          {q \in Of("import") \X Of("import") : q[1] <= q[2] /\ Run(q[1], q[2])}}
                 \cup PieceIf("rest", Of("other"))

\* The loop makes of a file what is said of it, and of nothing else.
AstSafe == AstTypeOK /\ AstAsSaid
=============================================================================
