----------------------------- MODULE Retrieval -----------------------------
(***************************************************************************)
(* Search, ask and similar (api/routes_search.py, api/routes.py,           *)
(* engine/reranker.py) over one knowledge base, while its documents are    *)
(* written, deleted and patched and its permission rules change            *)
(* (api/access.py, permissions/acl.py, patch_document).                    *)
(*                                                                         *)
(*   row, mirror     the status in the documents table, and its copy on    *)
(*                   the rows of the chunks table                          *)
(*   vectors, words  the documents whose chunks are in the vector table    *)
(*                   and in the keyword index                              *)
(*   rules           the base's permission rules                           *)
(*                                                                         *)
(* A step ends where a handler awaits a worker thread or a model; awaits   *)
(* between which nothing shared is read are one step.  How a document is   *)
(* written, with its failures, is DocWrite; here it is a list of store     *)
(* calls.  Left out: hybrid_method alpha, templates (they only choose a    *)
(* request's parameters), the metadata filter (as the folder one), the     *)
(* audit log, and the second patched field, superseded_by.                 *)
(***************************************************************************)
EXTENDS Integers, FiniteSets, Functions, SequencesExt

CONSTANTS
    Docs, Chunks,       \* documents and their chunks
    DocOf, PathOf, TypeOf,   \* a chunk's document, a document's path and type
    Queries, Original,  \* the query as asked, and its rewritings
    Variants,           \* the rewritings that an expansion returns, the original first
    Nearness, Keyness,  \* the similarity and the keyword score of a chunk, by query
    Threshold,          \* similarity_threshold
    K,                  \* top_k
    Mult,               \* search_fetch_k_multiplier
    TopN,               \* rerank_top_n
    Shapes,             \* the parameters a request may have
    Searches, Patches,  \* requests
    Callers, Trusted,   \* who asks; trusted: the admin key, or no authentication
    RuleSet,            \* rules an administrator may write
    FirstRows, FirstRules,   \* bound: the statuses and the rules at the start
    MaxEvents           \* bound: documents written, patches and rule changes, together

Statuses == {"active", "deprecated"}
Requests == Searches \cup Patches

\* A path is its components: "/" is <<"">>, "/a/x" is <<"", "a", "x">>.
Root       == <<"">>
Unresolved == <<"", "__acl_unresolved__">>
NoFolder   == <<>>
NoDoc      == "no document"

Shape == [kind : {"search", "ask", "similar"}, hybrid : BOOLEAN, rewrite : BOOLEAN,
          folder : {NoFolder} \cup {PathOf[d] : d \in Docs} \cup Seq(STRING),
          types : SUBSET {TypeOf[d] : d \in Docs},
          status : Statuses \cup {"all"}, rerank : BOOLEAN, exclude : Docs \cup {NoDoc}]

ASSUME SizeAssumption == /\ K \in Nat \ {0} /\ Mult \in Nat \ {0} /\ TopN \in Nat \ {0}
                         /\ Threshold \in Nat /\ MaxEvents \in Nat
ASSUME DataAssumption == /\ IsFiniteSet(Chunks) /\ DocOf \in [Chunks -> Docs]
                         /\ \A q \in Queries, c \in Chunks :
                               Nearness[q][c] \in Nat /\ Keyness[q][c] \in Nat
                         /\ \A q \in Queries, b, c \in Chunks : b # c =>
                               /\ Nearness[q][b] # Nearness[q][c]
                               /\ Keyness[q][b] = Keyness[q][c] => Keyness[q][b] = 0
                         /\ Original \in Queries /\ Variants \in Seq(Queries)
                         /\ Shapes \subseteq Shape /\ Shapes # {}
                         /\ \A s \in Shapes :
                               /\ s.kind # "search" => s.types = {}
                               /\ s.kind # "similar" => s.exclude = NoDoc
                               /\ s.kind = "similar" => /\ s.folder = NoFolder
                                                       /\ ~s.hybrid /\ ~s.rewrite /\ ~s.rerank
                         /\ FirstRows \subseteq [Docs -> Statuses \cup {"none"}]
                         /\ FirstRules \subseteq SUBSET RuleSet
                         /\ RuleSet \subseteq [subject : STRING, path : Seq(STRING),
                                               actions : SUBSET {"search", "write"}]
ASSUME DocsAssumption == Docs # {} /\ NoDoc \notin Docs
ASSUME ActorAssumption == /\ Searches \cap Patches = {}
                          /\ Trusted \in Callers
                          /\ \A rule \in RuleSet : rule.subject # Trusted

VARIABLES row, mirror, vectors, words, rules,
          used,     \* the document ids given out
          job,      \* the document that is being written, and the store calls left
          at,       \* a request's next step
          who, path,  \* its caller and the path it is checked for, while it is checked
          search,   \* a search's parameters, and what it has read so far
          patch,    \* a patch's document and new status
          touched,  \* history: documents that changed since a search began
          allowed, denied,   \* history: requests that the rules would have let through
                             \* and refused, at some moment of their check
          lost,     \* history: requests whose check a deleted rule has crossed
          away,     \* history: patches whose document's path could not be looked up
          mixed,    \* history: documents with two writers at once
          events

vars == <<row, mirror, vectors, words, rules, used, job, who, at, path, search, patch,
          touched, allowed, denied, lost, away, mixed, events>>

gate    == <<allowed, denied, lost, away>>
stores  == <<row, mirror, vectors, words, used, job>>
history == <<touched, gate, mixed>>

-----------------------------------------------------------------------------
(* The gate: require_kb_action and the rules it reads.                     *)

Covers(rule, p) == IsPrefix(rule.path, p)

Grants(held, subject, action, p) ==
    \E rule \in held : /\ rule.subject = subject
                       /\ Covers(rule, p)
                       /\ action \in rule.actions

ActionOf(r) == IF r \in Searches THEN "search" ELSE "write"

\* The resource a request is about: the base, or the document it patches.
Target(r) == IF r \in Searches THEN Root ELSE PathOf[patch[r].doc]

\* What the rules say of a request: a base without rules is open.
Permitted(r) == who[r] = Trusted \/ rules = {} \/ Grants(rules, who[r], ActionOf(r), Target(r))

Checking == {r \in Requests : at[r] \in {"resolve", "rules", "check"}}

\* What the rules come to say of requests that are checked is noted.
Judged(S) == /\ allowed' = allowed \cup {r \in S : Permitted(r)'}
             /\ denied' = denied \cup {r \in S : ~Permitted(r)'}

-----------------------------------------------------------------------------
(* What a search reads, and what it makes of it.                           *)

\* full: the hit carries its document's name, path and type; one that only
\* the keyword index found has its id, text and score.
Hit == [chunk : Chunks, full : BOOLEAN, score : Nat]

DocHit(h)  == DocOf[h.chunk]
Upto(s, n) == SubSeq(s, 1, Min({n, Len(s)}))

\* The sequence s, which TLC then computes once and not at each use.
AsTuple(s) == SubSeq(s, 1, Len(s))

\* The members of S in the order of a relation that orders any two of them, a
\* set of pairs.
InOrder(S, before) ==
    AsTuple([i \in 1..Cardinality(S) |->
        CHOOSE x \in S : Cardinality({y \in S : <<y, x>> \in before}) = i - 1])

\* The members of s at the given places, in their order.
At(s, places) ==
    LET order == InOrder(places, {p \in places \X places : p[1] < p[2]})
    IN  AsTuple([i \in 1..Cardinality(places) |-> s[order[i]]])

\* The lists of ls one after the other.
Joined(ls) ==
    LET places == UNION {{l} \X DOMAIN ls[l] : l \in DOMAIN ls}
        order  == InOrder(places, {p \in places \X places :
                              \/ p[1][1] < p[2][1]
                              \/ p[1][1] = p[2][1] /\ p[1][2] < p[2][2]})
    IN  AsTuple([i \in 1..Cardinality(places) |-> ls[order[i][1]][order[i][2]]])

\* The chunks of S with the highest of the given scores.
Best(S, score, full, n) ==
    LET order == InOrder(S, {p \in S \X S : score[p[1]] > score[p[2]]})
    IN  Upto([i \in 1..Cardinality(S) |->
                 [chunk |-> order[i], full |-> full, score |-> score[order[i]]]], n)

\* The table returns the n nearest rows, of which those under the threshold go.
Near(q, n, least) ==
    LET rows == Best({c \in Chunks : DocOf[c] \in vectors}, Nearness[q], TRUE, n)
    IN  At(rows, {i \in DOMAIN rows : rows[i].score >= least})

Matching(q, n) ==
    Best({c \in Chunks : DocOf[c] \in words /\ Keyness[q][c] > 0}, Keyness[q], FALSE, n)

\* The first place of a chunk in a list of hits, 0 if it is not in it.
Places(hits, c) == {i \in DOMAIN hits : hits[i].chunk = c}
Place(hits, c)  == IF Places(hits, c) = {} THEN 0 ELSE Min(Places(hits, c))

ChunksOf(hits) == {hits[i].chunk : i \in DOMAIN hits}

\* The entries, one for each chunk of the hits, highest score first and, among
\* equals, in the order of the hits.
Ranked(entries, hits) ==
    InOrder(entries, {p \in entries \X entries :
                         \/ p[1].score > p[2].score
                         \/ /\ p[1].score = p[2].score
                            /\ Place(hits, p[1].chunk) < Place(hits, p[2].chunk)})

Unit     == 10000000    \* of the reciprocal ranks, which are only compared
Share(p) == IF p = 0 THEN 0 ELSE Unit \div (60 + p)

\* Reciprocal rank fusion.  A chunk in both lists keeps the vector table's entry.
Fused(near, matching, n) ==
    LET all      == near \o matching
        entry(c) == [all[Place(all, c)] EXCEPT
                        !.score = Share(Place(near, c)) + Share(Place(matching, c))]
    IN  Upto(Ranked({entry(c) : c \in ChunksOf(all)}, all), n)

\* The results of several queries: each chunk with the best score it got.
BestPlaces(all, c) ==
    {i \in Places(all, c) : \A j \in Places(all, c) : all[j].score <= all[i].score}
Merged(all, n) ==
    Upto(Ranked({all[Min(BestPlaces(all, c))] : c \in ChunksOf(all)}, all), n)

\* doc_path.startswith(folder); no folder here begins with another one's name.
InFolder(h, f) == f = NoFolder \/ (h.full /\ IsPrefix(f, PathOf[DocHit(h)]))
OfType(h, ts)  == ts = {} \/ (h.full /\ TypeOf[DocHit(h)] \in ts)

Pool(s) == IF s.rerank THEN Max({TopN, K}) ELSE K

FetchCountBug(r) == Pool(search[r].shape)   \* mutant: no more than the page

\* How many hits a search asks of each store.
FetchCount(r) ==
    LET s == search[r].shape
        filtered == s.folder # NoFolder \/ s.types # {}
    IN CASE s.kind = "similar" -> IF s.exclude # NoDoc THEN K * Mult ELSE K
         [] search[r].several  -> IF s.types # {} THEN Max({K * 4, K * Mult}) ELSE K * 4
         [] OTHER              -> IF filtered /\ ~s.hybrid THEN Max({Pool(s), K * Mult})
                                                           ELSE Pool(s)

\* The reads a search makes, in any order: of one store or both, by query.
Reads(r) == {"near"} \cup (IF search[r].shape.hybrid THEN {"matching"} ELSE {})

\* mutant: every search reads both stores
PendingBug(r) == ({"near", "matching"} \X ToSet(search[r].queries)) \ DOMAIN search[r].lists

Pending(r) == (Reads(r) \X ToSet(search[r].queries)) \ DOMAIN search[r].lists

\* The hits for one query.
Found(r, q) ==
    LET s    == search[r].shape
        l    == search[r].lists
        Inside(hits) == At(hits, {i \in DOMAIN hits : InFolder(hits[i], s.folder)})
        near == Inside(l[<<"near", q>>])
    IN  IF s.hybrid THEN Fused(near, Inside(l[<<"matching", q>>]), FetchCount(r))
                    ELSE near

\* The candidates that a search looks up the status of.
Candidates(r) ==
    LET s   == search[r].shape
        qs  == search[r].queries
        got == IF search[r].several
               THEN Merged(Joined([i \in 1..Len(qs) |-> Found(r, qs[i])]), K)
               ELSE IF s.kind = "similar" THEN Found(r, qs[1])
               ELSE Upto(Found(r, qs[1]), Pool(s))
    IN  At(got, {i \in DOMAIN got : OfType(got[i], s.types)})

\* A document without a row counts as active.
StatusOf(d) == IF row[d] = "none" THEN "active" ELSE row[d]

\* mutant: the status that the chunk rows carry
ShownBug(d, filter) == filter = "all" \/ mirror[d].status = filter

Shown(d, filter) == CASE filter = "all"        -> TRUE
                      [] filter = "deprecated" -> row[d] = "deprecated"
                      [] OTHER                 -> StatusOf(d) = "active"

-----------------------------------------------------------------------------
Idle     == [doc |-> NoDoc, todo |-> <<>>]
NoSearch == [shape |-> CHOOSE s \in Shapes : TRUE, several |-> FALSE, queries |-> <<>>,
             lists |-> <<>>, hits |-> <<>>]
NoPatch  == [doc |-> CHOOSE d \in Docs : TRUE, status |-> "active"]

Init == /\ row \in FirstRows
        /\ mirror = [d \in Docs |-> [status |-> row[d], quoted |-> FALSE]]
        /\ vectors = {d \in Docs : row[d] # "none"} /\ words = vectors
        /\ rules \in FirstRules
        /\ used = vectors
        /\ job = Idle
        /\ who = [r \in Requests |-> Trusted]
        /\ at = [r \in Requests |-> "idle"]
        /\ path = [r \in Requests |-> Root]
        /\ search = [r \in Searches |-> NoSearch]
        /\ patch = [p \in Patches |-> NoPatch]
        /\ touched = [r \in Searches |-> {}]
        /\ allowed = {} /\ denied = {} /\ lost = {} /\ away = {} /\ mixed = {}
        /\ events = 0

Ended == {"answered", "refused", "unavailable", "failed", "missing", "crashed"}

Event == events < MaxEvents /\ events' = events + 1

Go(r, step) == at' = [at EXCEPT ![r] = step]

-----------------------------------------------------------------------------
(* The gate.                                                               *)

\* The check ends, and with it what it knew.
Leave(r, step) ==
    /\ Go(r, step)
    /\ who' = [who EXCEPT ![r] = Trusted] /\ path' = [path EXCEPT ![r] = Root]
    /\ allowed' = allowed \ {r} /\ denied' = denied \ {r}
    /\ lost' = lost \ {r} /\ away' = away \ {r}

Admit(r) == Leave(r, IF r \in Searches THEN "prepare" ELSE "get")

BeginSearch(r) ==
    /\ at[r] = "idle"
    /\ \E caller \in Callers : who' = [who EXCEPT ![r] = caller]
    /\ Go(r, "rules")
    /\ touched' = [touched EXCEPT ![r] = {job.doc} \ {NoDoc}]
    /\ UNCHANGED <<stores, rules, path, search, patch, lost, away, mixed, events>>
    /\ Judged({r})

BeginPatch(p) ==
    /\ at[p] = "idle"
    /\ Event
    /\ \E caller \in Callers : who' = [who EXCEPT ![p] = caller]
    /\ \E d \in used, s \in Statuses : patch' = [patch EXCEPT ![p] = [doc |-> d, status |-> s]]
    /\ Go(p, "resolve")
    /\ UNCHANGED <<stores, rules, path, search, touched, lost, away, mixed>>
    /\ Judged({p})

\* mutant: every document is checked as the base itself is
PathBug(p, seen) == path' = [path EXCEPT ![p] = Root]

Path(p, seen) == path' = [path EXCEPT ![p] = seen]

\* The path of the patched document, from its row; of a missing one, the root.
Resolve(p) ==
    /\ at[p] = "resolve"
    /\ \/ row[patch[p].doc] # "none" /\ Path(p, Target(p)) /\ UNCHANGED away
       \/ row[patch[p].doc] = "none" /\ Path(p, Root) /\ away' = away \cup {p}
       \/ Path(p, Unresolved) /\ away' = away \cup {p}
    /\ Go(p, "rules")
    /\ UNCHANGED <<stores, rules, who, search, patch, touched, allowed, denied, lost, mixed, events>>

\* The base's rules: a base that has none is open.
ReadRules(r) ==
    /\ at[r] = "rules"
    /\ \/ (who[r] = Trusted \/ rules = {}) /\ Admit(r)
       \/ who[r] # Trusted /\ rules # {} /\ Go(r, "check")
                           /\ UNCHANGED <<who, path, gate>>
       \/ who[r] # Trusted /\ Leave(r, "unavailable")
    /\ UNCHANGED <<stores, rules, search, patch, touched, mixed, events>>

\* The caller's rules, which are read again.
CheckRules(r) ==
    /\ at[r] = "check"
    /\ LET granted == Grants(rules, who[r], ActionOf(r), path[r])
       IN  \/ granted /\ Admit(r)
           \/ ~granted /\ Leave(r, "refused")
           \/ Leave(r, "unavailable")
    /\ UNCHANGED <<stores, rules, search, patch, touched, mixed, events>>

\* An administrator writes or deletes a rule.
AddRule ==
    /\ Event
    /\ \E rule \in RuleSet \ rules : rules' = rules \cup {rule}
    /\ UNCHANGED <<stores, who, at, path, search, patch, touched, lost, away, mixed>>
    /\ Judged(Checking)

DeleteRule ==
    /\ Event
    /\ \E rule \in rules : rules' = rules \ {rule}
    /\ lost' = lost \cup {r \in Requests : at[r] = "check"}
    /\ UNCHANGED <<stores, who, at, path, search, patch, touched, away, mixed>>
    /\ Judged(Checking)

-----------------------------------------------------------------------------
(* A search.                                                               *)

\* The request ends, and with it what it read.
Drop(r, step) ==
    /\ Go(r, step)
    /\ search' = [search EXCEPT ![r] = NoSearch]
    /\ touched' = [touched EXCEPT ![r] = {}]

\* The query is rewritten, or not when the model is away, and embedded.
\* Queries of an expansion that got no vector find nothing.
Prepare(r) ==
    /\ at[r] = "prepare"
    /\ \E s \in Shapes :
          LET Asking(several, qs) ==
                /\ search' = [search EXCEPT ![r] = [shape |-> s, several |-> several,
                                  queries |-> qs, lists |-> <<>>, hits |-> <<>>]]
                /\ Go(r, "fetch")
                /\ UNCHANGED touched
          IN \/ s.rewrite /\ s.kind = "search" /\ \E D \in SUBSET DOMAIN Variants :
                                                    Asking(TRUE, At(Variants, D))
             \/ \E q \in IF s.rewrite THEN Queries ELSE {Original} : Asking(FALSE, <<q>>)
             \/ Drop(r, "failed")
    /\ UNCHANGED <<stores, rules, who, path, patch, gate, mixed, events>>

\* One read of one store, in a worker thread.  A fused search has no threshold.
Read(r) ==
    /\ at[r] = "fetch"
    /\ \E read \in Pending(r) :
          LET s == search[r].shape
              n == IF s.hybrid THEN 2 * FetchCount(r) ELSE FetchCount(r)
              hits == IF read[1] = "matching" THEN Matching(read[2], n)
                      ELSE Near(read[2], n, IF s.hybrid THEN 0 ELSE Threshold)
          IN search' = [search EXCEPT ![r].lists =
                           [l \in DOMAIN @ \cup {read} |-> IF l = read THEN hits ELSE @[l]]]
    /\ UNCHANGED <<stores, rules, who, at, path, patch, history, events>>

\* The statuses, by one query, of the candidates' documents.
Filter(r) ==
    /\ at[r] = "fetch" /\ Pending(r) = {}
    /\ LET s    == search[r].shape
           some == Candidates(r)
           kept == At(some, {i \in DOMAIN some : Shown(DocHit(some[i]), s.status)})
           hits == IF s.kind = "similar"
                   THEN Upto(At(kept, {i \in DOMAIN kept : DocHit(kept[i]) # s.exclude}), K)
                   ELSE kept
       IN /\ search' = [search EXCEPT ![r].hits = hits, ![r].lists = <<>>]
          /\ Go(r, IF s.kind = "ask" /\ hits = <<>> THEN "log"
                   ELSE IF s.rerank THEN "rerank"
                   ELSE IF s.kind = "ask" THEN "compose" ELSE "log")
    /\ UNCHANGED <<stores, rules, who, path, patch, history, events>>

\* mutant: without a reranker the whole pool stays
RerankedBug(hits) == {hits}

\* A reranker answers with up to top_k of the hits in its own order (the one
\* of the chat model may give fewer scores than there are hits, the service
\* names no hit twice); without one the first top_k stay.
Reranked(hits) ==
    {Upto(hits, K)} \cup UNION {Injection(1..n, ToSet(hits)) : n \in 0..K}

Rerank(r) ==
    /\ at[r] = "rerank"
    /\ \E hits \in Reranked(search[r].hits) : search' = [search EXCEPT ![r].hits = hits]
    /\ Go(r, IF search[r].shape.kind = "ask" THEN "compose" ELSE "log")
    /\ UNCHANGED <<stores, rules, who, path, patch, history, events>>

\* The context of an ask names the document of each hit; then the model answers.
Compose(r) ==
    /\ at[r] = "compose"
    /\ \/ (\E h \in ToSet(search[r].hits) : ~h.full) /\ Drop(r, "crashed")
       \/ (\A h \in ToSet(search[r].hits) : h.full) /\ Drop(r, "failed")
       \/ (\A h \in ToSet(search[r].hits) : h.full) /\ Go(r, "log")
                                                    /\ UNCHANGED <<search, touched>>
    /\ UNCHANGED <<stores, rules, who, path, patch, gate, mixed, events>>

\* The audit row and the trajectory line are written, or not; the hits go out.
Log(r) ==
    /\ at[r] = "log"
    /\ Drop(r, "answered")
    /\ UNCHANGED <<stores, rules, who, path, patch, gate, mixed, events>>

-----------------------------------------------------------------------------
(* Writers.                                                                *)

Patching(p) == at[p] \in {"get", "row", "chunks"}
Writers(d)  == {p \in Patches : Patching(p) /\ patch[p].doc = d}
Crossed     == {d \in Docs : Cardinality(Writers(d)) + (IF job.doc = d THEN 1 ELSE 0) > 1}

\* patch_document: a document that is not there is 404.
GetDocument(p) ==
    /\ at[p] = "get"
    /\ Go(p, IF row[patch[p].doc] = "none" THEN "missing" ELSE "row")
    /\ mixed' = mixed \cup Crossed
    /\ UNCHANGED <<stores, rules, who, path, search, patch, touched, gate, events>>

Touch(d) == touched' = [r \in Searches |->
                            IF at[r] \in {"idle"} \cup Ended THEN {} ELSE touched[r] \cup {d}]

\* The row, if it is still there.
PatchRow(p) ==
    LET d == patch[p].doc IN
    /\ at[p] = "row"
    /\ row' = [row EXCEPT ![d] = IF @ = "none" THEN @ ELSE patch[p].status]
    /\ Touch(d)
    /\ Go(p, "chunks")
    /\ mixed' = mixed \cup Crossed
    /\ UNCHANGED <<mirror, vectors, words, used, job, rules, who, path, search, patch,
                   gate, events>>

\* The rows of its chunks, where json_set stores the dumped string, quotes and all.
PatchChunks(p) ==
    LET d == patch[p].doc IN
    /\ at[p] = "chunks"
    /\ mirror' = [mirror EXCEPT ![d] = IF @.status = "none" THEN @
                                       ELSE [status |-> patch[p].status, quoted |-> TRUE]]
    /\ Go(p, "answered")
    /\ patch' = [patch EXCEPT ![p] = NoPatch]
    /\ mixed' = mixed \cup Crossed
    /\ UNCHANGED <<row, vectors, words, used, job, rules, who, path, search,
                   touched, gate, events>>

RemovalBug == <<"-vectors", "-words", "-row">>   \* mutant: the chunk rows stay

Removal   == <<"-vectors", "-words", "-chunks", "-row">>
Insertion == <<"+vectors", "+words", "+row", "+chunks">>

\* An ingest under a new id, a delete or a replace, one at a time (bound).
StartJob ==
    /\ job = Idle
    /\ Event
    /\ \E d \in Docs :
          /\ \/ d \notin used /\ job' = [doc |-> d, todo |-> Insertion]
             \/ row[d] # "none" /\ \E todo \in {Removal, Removal \o Insertion} :
                                     job' = [doc |-> d, todo |-> todo]
          /\ used' = used \cup {d}
          /\ Touch(d)
    /\ UNCHANGED <<row, mirror, vectors, words, rules, who, at, path, search, patch,
                   gate, mixed>>

\* One store call of it.
DoJob ==
    /\ job # Idle
    /\ LET d == job.doc
           op == Head(job.todo)
           Set(f, old, new) == IF op = old THEN [f EXCEPT ![d] = new] ELSE f
       IN /\ vectors' = CASE op = "-vectors" -> vectors \ {d}
                          [] op = "+vectors" -> vectors \cup {d}
                          [] OTHER           -> vectors
          /\ words' = CASE op = "-words" -> words \ {d}
                        [] op = "+words" -> words \cup {d}
                        [] OTHER         -> words
          /\ row' = Set(Set(row, "-row", "none"), "+row", "active")
          /\ mirror' = Set(Set(mirror, "-chunks", [status |-> "none", quoted |-> FALSE]),
                           "+chunks", [status |-> "active", quoted |-> FALSE])
          /\ job' = IF Len(job.todo) = 1 THEN Idle ELSE [job EXCEPT !.todo = Tail(@)]
          /\ Touch(d)
    /\ mixed' = mixed \cup Crossed
    /\ UNCHANGED <<used, rules, who, at, path, search, patch, gate, events>>

Next == \/ \E r \in Searches : \/ BeginSearch(r) \/ Prepare(r) \/ Read(r) \/ Filter(r)
                               \/ Rerank(r) \/ Compose(r) \/ Log(r)
        \/ \E p \in Patches : \/ BeginPatch(p) \/ Resolve(p) \/ GetDocument(p)
                              \/ PatchRow(p) \/ PatchChunks(p)
        \/ \E r \in Requests : ReadRules(r) \/ CheckRules(r)
        \/ AddRule \/ DeleteRule
        \/ StartJob \/ DoJob

Spec == Init /\ [][Next]_vars

-----------------------------------------------------------------------------
(* Properties.                                                             *)

Steps   == Ended \cup {"idle", "resolve", "rules", "check", "prepare", "fetch", "rerank",
                       "compose", "log", "get", "row", "chunks"}
Lists   == {"near", "matching"} \X Queries

\* Every variable holds a value of its kind; the stores hold known documents,
\* a search's lists answer the reads it was to make, and the hits are chunks.
TypeOK ==
    /\ row \in [Docs -> Statuses \cup {"none"}]
    /\ mirror \in [Docs -> [status : Statuses \cup {"none"}, quoted : BOOLEAN]]
    /\ vectors \subseteq used /\ words \subseteq used /\ used \subseteq Docs
    /\ rules \subseteq RuleSet
    /\ job.doc \in Docs \cup {NoDoc} /\ (job.doc = NoDoc) = (job.todo = <<>>)
    /\ who \in [Requests -> Callers] /\ at \in [Requests -> Steps]
    /\ \A r \in Searches : /\ search[r].shape \in Shapes
                           /\ DOMAIN search[r].lists \subseteq Reads(r) \X ToSet(search[r].queries)
                           /\ ToSet(search[r].hits) \subseteq Hit
    /\ patch \in [Patches -> [doc : Docs, status : Statuses]]
    /\ touched \in [Searches -> SUBSET Docs] /\ allowed \cup denied \subseteq Requests
    /\ lost \subseteq Requests /\ away \subseteq Patches /\ mixed \subseteq Docs

Answered(r) == at[r] = "log"
Shows(r, c) == \E h \in ToSet(search[r].hits) : h.chunk = c

\* A document that kept its status while a search was at work is in its answer
\* only if that status is one it asked for, whichever chunks, stores and
\* rewritings brought the document in: the statuses are those of the documents
\* table, not those the chunks were indexed with (_apply_status_filter).
StatusHonoured ==
    \A r \in Searches : Answered(r) =>
        \A h \in ToSet(search[r].hits) :
            LET s == search[r].shape.status IN
            DocHit(h) \notin touched[r] /\ s # "all" => row[DocHit(h)] = s

\* No answer has more than top_k hits or a chunk twice, over all of the merges,
\* the wider pool of a rerank, and its fallbacks (search, ask, similar).
PageSound ==
    \A r \in Searches : Answered(r) =>
        /\ Len(search[r].hits) <= K
        /\ Cardinality({h.chunk : h \in ToSet(search[r].hits)}) = Len(search[r].hits)

\* A request by vectors alone, with one query and no rerank.
Plain(r) == /\ Answered(r)
            /\ ~search[r].shape.hybrid /\ ~search[r].shape.rerank /\ ~search[r].several

Asked(r) == search[r].queries[1]

\* A chunk the request is after.
Eligible(r, c) ==
    LET s == search[r].shape
        h == [chunk |-> c, full |-> TRUE, score |-> 0]
    IN  /\ DocOf[c] \in vectors /\ Nearness[Asked(r)][c] >= Threshold
        /\ InFolder(h, s.folder) /\ OfType(h, s.types)
        /\ Shown(DocOf[c], s.status) /\ DocOf[c] # s.exclude

\* An answer never passes over a better chunk of a document that was there,
\* unchanged, all along: not for the filters that are applied after the store
\* has cut its list, and not for documents that come and go meanwhile.
NonePassedOver ==
    \A r \in Searches : Plain(r) =>
        \A h \in ToSet(search[r].hits), c \in Chunks :
            /\ DocOf[c] \notin touched[r] /\ Eligible(r, c)
            /\ Nearness[Asked(r)][c] > Nearness[Asked(r)][h.chunk]
            => Shows(r, c)

\* Stored chunks that a folder or an excluded document keeps out of an answer.
Outside(r) ==
    {c \in Chunks : DocOf[c] \in vectors /\ ~Eligible(r, c) /\ Nearness[Asked(r)][c] >= Threshold}

\* A page is full when there is enough to fill it: the store is asked for more
\* than top_k when a folder or an excluded document is about to take hits away
\* (routes_search.py, L10 and the over-fetch of similar).  This holds as long as
\* the filters take no more than the surplus; a status or a type filter is
\* applied to a list already cut to top_k, so requests it touches are left out.
PageFull ==
    \A r \in Searches :
        /\ Plain(r) /\ touched[r] = {}
        /\ search[r].shape.types = {}
        /\ \A d \in vectors : Shown(d, search[r].shape.status)
        /\ Cardinality(Outside(r)) <= K * (Mult - 1)
        => Len(search[r].hits) = Min({K, Cardinality({c \in Chunks : Eligible(r, c)})})

\* A caller is let through only if the rules allowed the action on the target at
\* some moment of its check, which reads them twice (access.py 84 and 94).
\* And a caller that the rules allowed at every moment of its check is not
\* refused, unless a rule was deleted between the two reads of the rules: the
\* deletion of the last rule opens the base, but the second read finds no rule.
JustVerdict ==
    \A r \in Requests :
        at[r] \in {"rules", "check"} /\ at'[r] # at[r] /\ r \notin away
        => /\ at'[r] \in {"prepare", "get"} => r \in allowed
           /\ at'[r] = "refused" /\ r \notin lost => r \in denied

Verdicts == [][JustVerdict]_vars

\* The status on a document's chunk rows is that of its own row once no request
\* is at work on it (patch_document writes one after the other, not together),
\* unless two have been at once; quotes aside, which a patch leaves around it.
MirrorFollows ==
    \A d \in Docs \ mixed : Writers(d) = {} /\ job.doc # d => mirror[d].status = row[d]

\* An ask whose candidates, embedding and model are there does not end in an
\* internal error (docs/get-started.md shows one with hybrid).
AskAnswers == \A r \in Searches : at[r] # "crashed"

\* A page has what belongs on it: nothing better is passed over, and it is full
\* when there is enough.
PageComplete == NonePassedOver /\ PageFull
=============================================================================
