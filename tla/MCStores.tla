------------------------------ MODULE MCStores ------------------------------
(***************************************************************************)
(* The stores and services around the documents, without fairness.  They   *)
(* share no state: one is looked at in each behaviour.                     *)
(***************************************************************************)
EXTENDS FusionStore, RemoteStore, QdrantStore, BnupLessons, DirectorySync,
        GraphRag, Chunker, AstChunks, AuditLog, Trajectory, AdminStores,
        Tenancy, MetadataConn, TLC

VARIABLE part

Parts == {"fusion", "remote", "qdrant", "bnup", "sync", "graph", "chunks",
          "ast", "audit", "trajectory", "admin", "tenancy", "catalogue"}

Others(here) == /\ here # "fusion" => UNCHANGED fstVars
                /\ here # "remote" => UNCHANGED remVars
                /\ here # "qdrant" => UNCHANGED qVars
                /\ here # "bnup" => UNCHANGED lesVars
                /\ here # "sync" => UNCHANGED syncVars
                /\ here # "graph" => UNCHANGED graphVars
                /\ here # "chunks" => UNCHANGED chunkVars
                /\ here # "ast" => UNCHANGED astVars
                /\ here # "audit" => UNCHANGED audVars
                /\ here # "trajectory" => UNCHANGED trajVars
                /\ here # "admin" => UNCHANGED admVars
                /\ here # "tenancy" => UNCHANGED tenVars
                /\ here # "catalogue" => UNCHANGED catVars

Here(name) == part = name /\ UNCHANGED part /\ Others(name)

\* Texts of one, two and three sections, given by where these end.
One(a)         == [n |-> 1, off |-> (0 :> 0) @@ (1 :> a)]
Two(a, b)      == [n |-> 2, off |-> (0 :> 0) @@ (1 :> a) @@ (2 :> b)]
Three(a, b, c) == [n |-> 3, off |-> (0 :> 0) @@ (1 :> a) @@ (2 :> b) @@ (3 :> c)]
ATitle == One(1)

\* A part that is not looked at starts in one way.
Init == /\ part \in Parts
        /\ FstInit /\ LesInit /\ GraphInit /\ AudInit /\ TrajInit /\ AdmInit /\ ConnInit
        /\ RemInit /\ (part # "remote" => ~oldNode)
        /\ QInit /\ (part # "qdrant" => ~isolated)
        /\ SyncInit /\ (part # "sync" => \A p \in TreePaths : tree[p] = Missing)
        /\ ChunkInit /\ (part # "chunks" => doc = ATitle /\ way = "semantic")
        /\ AstInit /\ (part # "ast" => body = <<>>)
        /\ TenInit /\ (part # "tenancy" => stored = <<>> /\ owner = [b \in BaseIds |-> Gone])
        /\ mode = "off" /\ ~secured   \* as it comes; Reconfigure sets another

Next == \/ Here("fusion") /\ FstNext
        \/ Here("remote") /\ RemNext
        \/ Here("qdrant") /\ QNext
        \/ Here("bnup") /\ LesNext
        \/ Here("sync") /\ SyncNext
        \/ Here("graph") /\ GraphNext
        \/ Here("chunks") /\ ChunkNext
        \/ Here("ast") /\ AstNext
        \/ Here("audit") /\ AudNext
        \/ Here("trajectory") /\ TrajNext
        \/ Here("admin") /\ AdmNext
        \/ Here("tenancy") /\ TenNext
        \/ Here("catalogue") /\ ConnNext

Spec == Init /\ [][Next]_<<part, fstVars, remVars, qVars, lesVars, syncVars,
                           graphVars, chunkVars, astVars, audVars, trajVars, admVars,
                           tenVars, catVars>>

\* The threads of all parts are the same two.
Interchangeable == Permutations(StoreThreads)

MCStorePath == ("d" :> "p") @@ ("e" :> "q")
MCChunksOf  == ("d" :> <<"d0">>) @@ ("e" :> <<"e0", "e1">>)
MCRemPath   == ("d" :> "p") @@ ("e" :> "p")

MCQOwner == ("b" :> "A") @@ ("c" :> "B")
MCQHome  == ("d" :> "b") @@ ("e" :> "b") @@ ("f" :> "c")
MCQPath  == ("d" :> "p") @@ ("e" :> "q") @@ ("f" :> "p")

MCCorpora == {{"l"}, {"l", "m"}}

MCSays == ("1" :> [names |-> {"a", "b"}, relations |-> {<<"a", "b">>}]) @@
          ("2" :> [names |-> {"b", "c"}, relations |-> {<<"c", "b">>, <<"a", "b">>}]) @@
          ("3" :> [names |-> {"c", "d"}, relations |-> {<<"c", "d">>}])
MCLike == {{"a"}}

MCDocuments == {ATitle, One(4), One(5), One(9), Two(1, 3), Two(3, 5), Two(6, 8),
                Three(1, 2, 4), Three(2, 4, 9), Three(3, 4, 6), Three(1, 7, 8)}

MCTokenTenant == [t \in Tokens |-> "A"]
MCKeyPrefixes == {{"k1", "k2"}}
MCOldKeys     == {<<>>, <<[key |-> "k2", name |-> "reader"], [key |-> "k1", name |-> "reader"]>>}
Brings(t, h, k, v) == [token |-> t, header |-> h, key |-> k, via |-> v]
MCInputs      == {Brings("t", Nobody, "env", TRUE), Brings("t", "B", "k1", TRUE),
                  Brings(Nobody, "A", "k1", FALSE)}
=============================================================================
