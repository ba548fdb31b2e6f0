---------------------------- MODULE MCRetrieval ----------------------------
(* Three documents in two folders, two chunks in each of two of them.       *)
EXTENDS Retrieval

MCChunks   == {"x1", "x2", "y1", "y2", "z1"}
MCDocOf    == [c \in MCChunks |-> CASE c \in {"x1", "x2"} -> "x" [] c \in {"y1", "y2"} -> "y"
                                    [] OTHER -> "z"]
MCPathOf   == [x |-> <<"", "a", "x">>, y |-> <<"", "b", "y">>, z |-> <<"inline:", "", "z">>]
MCTypeOf   == [x |-> "text", y |-> "pdf", z |-> "text"]
MCVariants == <<"q", "v">>
MCNearness == [q |-> [x1 |-> 5, y1 |-> 4, y2 |-> 3, x2 |-> 2, z1 |-> 1],
               v |-> [y2 |-> 6, z1 |-> 5, x1 |-> 4, y1 |-> 2, x2 |-> 1]]
MCKeyness  == [q |-> [z1 |-> 3, x1 |-> 2, x2 |-> 0, y1 |-> 0, y2 |-> 0],
               v |-> [x1 |-> 2, z1 |-> 1, x2 |-> 0, y1 |-> 0, y2 |-> 0]]

Simple == [kind |-> "search", hybrid |-> FALSE, rewrite |-> FALSE, folder |-> NoFolder,
           types |-> {}, status |-> "active", rerank |-> FALSE, exclude |-> NoDoc]
FolderA == <<"", "a">>
FolderB == <<"", "b">>

MCShapes  == {[Simple EXCEPT !.folder = FolderB],
              [Simple EXCEPT !.kind = "similar", !.exclude = "y", !.status = "all"],
              [Simple EXCEPT !.rewrite = TRUE, !.types = {"pdf"}, !.status = "deprecated"],
              [Simple EXCEPT !.kind = "ask", !.hybrid = TRUE, !.rerank = TRUE]}
AskShapes == {[Simple EXCEPT !.kind = "ask", !.hybrid = TRUE]}

MCRules == {[subject |-> "ann", path |-> Root, actions |-> {"search", "write"}],
            [subject |-> "bob", path |-> FolderB, actions |-> {"write"}]}
MCFirstRows  == {[x |-> "active", y |-> "active", z |-> "none"]}
MCFirstRules == {{rule} : rule \in MCRules}
=============================================================================
