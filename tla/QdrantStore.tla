----------------------------- MODULE QdrantStore -----------------------------
(***************************************************************************)
(* The Qdrant backend (store/qdrant_backend.py): the collection is chosen  *)
(* anew for every call from the tenant of the request, the keyword index   *)
(* lies beside the base's own files, and both are to hold the same chunks. *)
(*                                                                         *)
(*   points    the points of each collection: documents and the base from  *)
(*             which they were added; a collection without an entry does   *)
(*             not exist                                                   *)
(*   keywords  the documents in the keyword index of each base             *)
(*                                                                         *)
(* A document stands for its chunks; its id is unique, its path need not   *)
(* be.  delete_by_chunk_ids calls self._point_id, which does not exist.    *)
(***************************************************************************)
EXTENDS Integers, FiniteSets, Functions

CONSTANTS
    QBases,      \* bases
    QOwner,      \* QOwner[b]: the tenant of base b
    QDocs,       \* documents
    QHome,       \* QHome[d]: the base that d is written to
    QPath,       \* QPath[d]: its doc_path
    NoTenant,    \* a request without a tenant: isolation off, or an admin
    MaxQFails    \* bound: calls of the server or of SQLite that raise

ASSUME QAssumption ==
    /\ DOMAIN QOwner = QBases /\ QHome \in [QDocs -> QBases] /\ DOMAIN QPath = QDocs
    /\ {NoTenant, "vectors"} \cap Range(QOwner) = {} /\ MaxQFails \in Nat

VARIABLES points, keywords, isolated, qFails,
          usedBy,   \* history: the collections that each base was written to
          unsound   \* history: bases of which a call raised half way

qVars == <<points, keywords, isolated, qFails, usedBy, unsound>>

QInit ==
    /\ points = <<>> /\ keywords = [b \in QBases |-> {}]
    /\ isolated \in BOOLEAN
    /\ qFails = 0
    /\ usedBy = [b \in QBases |-> {}] /\ unsound = {}

\* get_request_tenant: with isolation the base is reached by its tenant or by
\* an admin, without it nobody has one.
TenantsAt(b) == IF isolated THEN {QOwner[b], NoTenant} ELSE {NoTenant}

\* _collection_for: "tenant_id_<tenant>", or "fusion_rag_kb_<kb_id>" where kb_id
\* is the last component of the vector path: "vectors" for every base.
Collection(tenant, b) == IF tenant = NoTenant THEN "vectors" ELSE tenant

PointsIn(c) == IF c \in DOMAIN points THEN points[c] ELSE {}
SetPoints(c, ps) == points' = [x \in DOMAIN points \cup {c} |-> IF x = c THEN ps ELSE points[x]]

Point(d) == [doc |-> d, base |-> QHome[d]]
Wrote(b, c) == usedBy' = [usedBy EXCEPT ![b] = @ \cup {c}]
QFail == qFails < MaxQFails /\ qFails' = qFails + 1

\* add_batch: the collection is made on first touch, the upsert replaces points
\* with the same ids, and the keyword index follows or raises.
Upsert(d, tenant) ==
    LET b == QHome[d]  c == Collection(tenant, b) IN
    /\ SetPoints(c, PointsIn(c) \cup {Point(d)})
    /\ Wrote(b, c)
    /\ \/ keywords' = [keywords EXCEPT ![b] = @ \cup {d}] /\ UNCHANGED <<qFails, unsound>>
       \/ QFail /\ unsound' = unsound \cup {b} /\ UNCHANGED keywords
    /\ UNCHANGED isolated

\* delete_by_doc: every point of the path in the collection, then the keywords
\* of the path; of a collection that does not exist only the keywords.
OnPath(d, e) == QPath[e] = QPath[d]
DropPath(d, tenant) ==
    LET b == QHome[d]  c == Collection(tenant, b)
        gone == {e \in keywords[b] : OnPath(d, e)} IN
    /\ IF c \in DOMAIN points
       THEN SetPoints(c, {p \in points[c] : ~OnPath(d, p.doc)})
       ELSE UNCHANGED points
    /\ \/ keywords' = [keywords EXCEPT ![b] = @ \ gone] /\ UNCHANGED <<qFails, unsound>>
       \/ QFail /\ unsound' = unsound \cup {b} /\ UNCHANGED keywords
    /\ Wrote(b, c)
    /\ UNCHANGED isolated

\* delete_by_chunk_ids raises when there is a collection to delete from, before
\* it has changed anything; without one it forgets the keywords.
KeepsBug(c) == FALSE
Keeps(c) == c \in DOMAIN points

DropChunks(d, tenant) ==
    LET b == QHome[d]  c == Collection(tenant, b) IN
    /\ keywords' = IF Keeps(c) THEN keywords ELSE [keywords EXCEPT ![b] = @ \ {d}]
    /\ Wrote(b, c)
    /\ UNCHANGED <<points, isolated, qFails, unsound>>

\* When the server cannot be asked, either removal takes the collection for
\* missing: the points stay, the keywords go.
Unreached(d, tenant) ==
    LET b == QHome[d] IN
    /\ QFail /\ unsound' = unsound \cup {b}
    /\ \E gone \in {{d}, {e \in keywords[b] : OnPath(d, e)}} :
          keywords' = [keywords EXCEPT ![b] = @ \ gone]
    /\ Wrote(b, Collection(tenant, b))
    /\ UNCHANGED <<points, isolated>>

\* clear drops the collection of the caller; the keyword index is the caller's
\* business (a failure is only logged).
ClearCollection(b, tenant) ==
    LET c == Collection(tenant, b) IN
    /\ \/ points' = [x \in DOMAIN points \ {c} |-> points[x]] /\ UNCHANGED qFails
       \/ QFail /\ UNCHANGED points
    /\ Wrote(b, c) /\ unsound' = unsound \cup {b}
    /\ UNCHANGED <<keywords, isolated>>

QNext ==
    \/ \E d \in QDocs : \E tenant \in TenantsAt(QHome[d]) :
          \/ Upsert(d, tenant) \/ DropPath(d, tenant) \/ DropChunks(d, tenant)
          \/ Unreached(d, tenant)
    \/ \E b \in QBases : \E tenant \in TenantsAt(b) : ClearCollection(b, tenant)

QSpec == QInit /\ [][QNext]_qVars

-----------------------------------------------------------------------------
(* Properties.                                                             *)

\* Every variable has its type.
QTypeOK ==
    /\ \A c \in DOMAIN points : points[c] \subseteq [doc : QDocs, base : QBases]
    /\ keywords \in [QBases -> SUBSET QDocs]
    /\ isolated \in BOOLEAN /\ qFails \in 0..MaxQFails
    /\ usedBy \in [QBases -> SUBSET (Range(QOwner) \cup {"vectors"})]
    /\ unsound \subseteq QBases

\* "cross-tenant vectors are physically invisible": what a search of a tenant
\* looks at was added from bases of that tenant, also by administrators.
TenantsApart ==
    \A b \in QBases : isolated =>
        \A p \in PointsIn(Collection(QOwner[b], b)) : QOwner[p.base] = QOwner[b]

\* As long as a base was always written under one name and alone has that
\* name, its two indexes hold the same documents, whichever removals raised.
HalvesAgree ==
    \A b \in QBases \ unsound : \A c \in usedBy[b] :
        usedBy[b] = {c} /\ (\A a \in QBases \ {b} : c \notin usedBy[a]) =>
            {p.doc : p \in PointsIn(c)} = keywords[b]

\* "namespaced by it so two KBs never share a collection": without a tenant a
\* search of a base sees what was added from that base only.
BasesApart ==
    \A b \in QBases : \A p \in PointsIn(Collection(NoTenant, b)) : ~isolated => p.base = b

\* Tenants are apart, and the two indexes of a base hold the same documents.
QdrantSafe == QTypeOK /\ TenantsApart /\ HalvesAgree
=============================================================================
