------------------------------ MODULE GraphRag ------------------------------
(***************************************************************************)
(* The entity graph of a base (engine/graph_rag.py, api/routes_graph.py):  *)
(* builds that ask an LLM about chunks and then insert what it found in    *)
(* one transaction, and a search in a thread that reads the tables row by  *)
(* row, so that builds can commit between two of its reads.                *)
(*                                                                         *)
(*   live                 chunks in the catalogue                          *)
(*   entities, relations  the tables: <<name, chunk>>, <<source, target>>  *)
(*   building             the chunks that each build asks about            *)
(*   find                 the search: what it expands and has found        *)
(*                                                                         *)
(* Types and labels are left out; the rows of a base are in a file of its  *)
(* own, so that its id in them changes nothing.                            *)
(***************************************************************************)
EXTENDS Integers, FiniteSetsExt

CONSTANTS
    EntityNames, GraphChunks,
    Says,         \* Says[c]: the names and the relations that the LLM reads in c
    Like,         \* the queries, each given by the names that contain it
    HopLimits,    \* values of max_hops
    MaxChunks,    \* max_chunks of a build
    GraphBuilds   \* bound: builds, each made once

ASSUME GraphAssumption ==
    /\ IsFiniteSet(EntityNames) /\ IsFiniteSet(GraphChunks)
    /\ Says \in [GraphChunks -> [names     : SUBSET EntityNames,
                                 relations : SUBSET (EntityNames \X EntityNames)]]
    /\ HopLimits \subseteq Nat /\ MaxChunks \in Nat \ {0}

VARIABLES live, entities, relations, building, find,
          reported, \* history: the sums of the counts that builds answered
          was       \* history: the tables as they were when the search began

graphVars == <<live, entities, relations, building, find, reported, was>>

NoSearch == [at |-> "idle"]
NotBegun == {}
Over     == {"over"}

GraphInit ==
    /\ live = GraphChunks /\ entities = {} /\ relations = {}
    /\ building = [b \in GraphBuilds |-> NotBegun]
    /\ find = NoSearch
    /\ reported = [entities |-> 0, relations |-> 0]
    /\ was = [entities |-> {}, relations |-> {}]

-----------------------------------------------------------------------------

\* A document goes, and its chunks leave the catalogue; the graph stays.
Forget(c) == /\ c \in live /\ live' = live \ {c}
             /\ UNCHANGED <<entities, relations, building, find, reported, was>>

\* The newest documents' chunks, up to max_chunks; a build of none is refused.
BeginBuild(b) ==
    /\ building[b] = NotBegun /\ live # {}
    /\ \E chunks \in kSubset(Min({MaxChunks, Cardinality(live)}), live) :
          building' = [building EXCEPT ![b] = chunks]
    /\ UNCHANGED <<live, entities, relations, find, reported, was>>

EntityRows(chunks) == {row \in EntityNames \X chunks : row[1] \in Says[row[2]].names}
RelationRows(chunks) == UNION {Says[c].relations : c \in chunks}

\* "count only rows that actually landed": INSERT OR IGNORE skips duplicates.
Landed(rows, table) == Cardinality(rows \ table)

\* All extractions are in; a chunk whose extraction failed brings nothing.
\* The inserts and the commit run without an await.
FinishBuild(b) ==
    /\ building[b] \notin {NotBegun, Over}
    /\ \E answered \in SUBSET building[b] :
          LET names == EntityRows(answered)  rels == RelationRows(answered) IN
          /\ entities' = entities \cup names /\ relations' = relations \cup rels
          /\ reported' = [entities  |-> reported.entities + Landed(names, entities),
                          relations |-> reported.relations + Landed(rels, relations)]
    /\ building' = [building EXCEPT ![b] = Over]
    /\ UNCHANGED <<live, find, was>>

\* The file is locked or full: 502, and nothing is committed.
BuildFails(b) ==
    /\ building[b] \notin {NotBegun, Over}
    /\ building' = [building EXCEPT ![b] = Over]
    /\ UNCHANGED <<live, entities, relations, find, reported, was>>

-----------------------------------------------------------------------------
(* A search.                                                               *)

\* SELECT ... WHERE name LIKE: with no entity the answer is empty.
Match(query, hops) ==
    LET rows == {row \in entities : row[1] \in query}
        seen == {row[1] : row \in rows}
    IN  /\ find.at = "idle"
        /\ find' = [at |-> IF rows = {} \/ hops = 0 THEN "answered" ELSE "expand",
                    query |-> query, hops |-> hops, left |-> hops,
                    todo |-> seen, visited |-> seen, next |-> {}, hits |-> {row[2] : row \in rows}]
        /\ was' = [entities |-> entities, relations |-> relations]
        /\ UNCHANGED <<live, entities, relations, building, reported>>

Beside(n, rels) == UNION {{r[1], r[2]} : r \in {q \in rels : n \in {q[1], q[2]}}}

\* One of the current names: the neighbours that were not visited come next.
Expand(n) ==
    /\ find.at = "expand" /\ n \in find.todo
    /\ find' = [find EXCEPT !.todo = @ \ {n},
                            !.visited = @ \cup Beside(n, relations),
                            !.next = @ \cup (Beside(n, relations) \ find.visited)]
    /\ UNCHANGED <<live, entities, relations, building, reported, was>>

\* The hop is over: without a new name so is the search, else their chunks
\* are read.
EndHop ==
    /\ find.at = "expand" /\ find.todo = {}
    /\ find' = IF find.next = {} THEN [find EXCEPT !.at = "answered"]
               ELSE [find EXCEPT !.at = "chunks", !.todo = find.next]
    /\ UNCHANGED <<live, entities, relations, building, reported, was>>

ReadChunks(n) ==
    /\ find.at = "chunks" /\ n \in find.todo
    /\ find' = [find EXCEPT !.todo = @ \ {n},
                            !.hits = @ \cup {row[2] : row \in {r \in entities : r[1] = n}}]
    /\ UNCHANGED <<live, entities, relations, building, reported, was>>

\* for _ in range(max_hops)
MoreBug(left) == left > 2
More(left) == left > 1

NextHop ==
    /\ find.at = "chunks" /\ find.todo = {}
    /\ find' = [find EXCEPT !.at = IF More(find.left) THEN "expand" ELSE "answered",
                            !.left = @ - 1, !.todo = find.next, !.next = {}]
    /\ UNCHANGED <<live, entities, relations, building, reported, was>>

\* The hits go out with their text from the catalogue, "" where it has none.
SendHits == /\ find.at = "answered" /\ find' = NoSearch
            /\ UNCHANGED <<live, entities, relations, building, reported, was>>

GraphNext ==
    \/ \E c \in GraphChunks : Forget(c)
    \/ \E b \in GraphBuilds : BeginBuild(b) \/ FinishBuild(b) \/ BuildFails(b)
    \/ \E query \in Like, hops \in HopLimits : Match(query, hops)
    \/ \E n \in EntityNames : Expand(n) \/ ReadChunks(n)
    \/ EndHop \/ NextHop \/ SendHits

GraphSpec == GraphInit /\ [][GraphNext]_graphVars

-----------------------------------------------------------------------------
(* Properties.                                                             *)

\* Every variable has its type; a search that expands has a hop left for it.
GraphTypeOK ==
    /\ live \subseteq GraphChunks
    /\ entities \subseteq EntityNames \X GraphChunks
    /\ relations \subseteq EntityNames \X EntityNames
    /\ \A b \in GraphBuilds : building[b] \in (SUBSET GraphChunks) \cup {Over}
    /\ find.at \in {"idle", "expand", "chunks", "answered"}
    /\ find.at = "expand" => find.left \in 1..find.hops

\* "the build result never matched get_entity_count" is mended: what the builds
\* answered adds up to the rows of the tables, however builds overlap, chunks
\* repeat each other and extractions fail.
CountsLanded ==
    /\ reported.entities = Cardinality(entities)
    /\ reported.relations = Cardinality(relations)

\* Reference: the chunks of the names at the end of a path of at most k
\* relations, in either direction, from a matching entity.
Reference(tables, query, k) ==
    LET Linked(x, y) == {<<x, y>>, <<y, x>>} \cap tables.relations # {}
        Starts == {row[1] : row \in {r \in tables.entities : r[1] \in query}}
        Paths  == UNION {[0..j -> EntityNames] : j \in 0..k}
        Ends   == {path[Cardinality(DOMAIN path) - 1] : path \in
                     {q \in Paths : /\ q[0] \in Starts
                                    /\ \A i \in DOMAIN q \ {0} : Linked(q[i - 1], q[i])}}
    IN  {row[2] : row \in {r \in tables.entities : r[1] \in Ends}}

\* A search whose reads builds come between answers no less than the tables held
\* when it began, and no more than they hold when it ends.
SearchBetween ==
    find.at = "answered" =>
        /\ Reference(was, find.query, find.hops) \subseteq find.hits
        /\ find.hits \subseteq
              Reference([entities |-> entities, relations |-> relations], find.query, find.hops)

\* "resolves hit chunk ids back to text": a hit is a chunk of the catalogue.
HitsLive == find.at = "answered" => find.hits \subseteq live

\* The answers of builds add up to the tables, and a search between them answers
\* what the tables held at some time.
GraphSafe == GraphTypeOK /\ CountsLanded /\ SearchBetween
=============================================================================
