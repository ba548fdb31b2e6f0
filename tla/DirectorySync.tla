---------------------------- MODULE DirectorySync ----------------------------
(***************************************************************************)
(* POST /sync (api/routes_admin.py, engine/incremental_sync.py): the       *)
(* documents of a base compared with a directory, file by file, while      *)
(* files change and ingests go on.  Nothing is written: the answer says    *)
(* what is to be done.                                                     *)
(*                                                                         *)
(*   tree    the files under the directory and what they contain           *)
(*   known   the documents: path, and the content that was ingested        *)
(*   page    the documents that the request read at its start              *)
(*   todo    the paths that the walk has still to come to                  *)
(*   hand    the path that it is at                                        *)
(*   scanned, listed   scanned_paths and the four lists of the answer      *)
(*                                                                         *)
(* A directory that does not exist is walked like an empty one.            *)
(***************************************************************************)
EXTENDS Integers, FiniteSets, FiniteSetsExt, Functions

CONSTANTS
    TreePaths,    \* paths under the directory
    OtherPaths,   \* paths of documents from elsewhere (inline, another folder)
    Matching,     \* paths that the patterns select and that resolve under the root
    PageLimit,    \* list_documents returns this many documents, the newest
    MaxTreeEdits  \* bound: changes of files

NoPath == "none"

ASSUME SyncAssumption ==
    /\ Matching \subseteq TreePaths /\ NoPath \notin TreePaths
    /\ PageLimit \in Nat \ {0} /\ MaxTreeEdits \in Nat

VARIABLES tree, known, page, todo, hand, scanned, listed, treeEdits,
          standing,   \* history: paths that have existed throughout the request
          unreadable, \* history: paths that the request could not read
          untouched   \* history: paths whose file is as its document was ingested

syncVars == <<tree, known, page, todo, hand, scanned, listed, treeEdits,
              standing, unreadable, untouched>>

Missing  == 0
NoHash   == -1     \* no "file_hash" in a document's metadata
DocPaths == TreePaths \cup OtherPaths
Lists    == {"added", "modified", "deleted", "unchanged"}
NoLists  == [l \in Lists |-> {}]

SyncInit ==
    /\ tree \in [TreePaths -> {Missing, 1}]
    /\ known = <<>> /\ page = <<>> /\ todo = {} /\ hand = NoPath
    /\ scanned = {} /\ listed = NoLists /\ treeEdits = 0
    /\ standing = {} /\ unreadable = {} /\ untouched = {}

Idle == todo = {} /\ hand = NoPath

-----------------------------------------------------------------------------

\* A file changes, appears or goes away, at any moment.
EditFile(p) ==
    /\ treeEdits < MaxTreeEdits /\ treeEdits' = treeEdits + 1
    /\ \E v \in {Missing, treeEdits + 2} \ {tree[p]} : tree' = [tree EXCEPT ![p] = v]
    /\ standing' = standing \ {p}
    /\ untouched' = untouched \ {p}
    /\ UNCHANGED <<known, page, todo, hand, scanned, listed, unreadable>>

\* A file, or text from elsewhere, becomes the document of its path.
Ingest(p) ==
    /\ p \in TreePaths => tree[p] # Missing
    /\ known' = [q \in DOMAIN known \cup {p} |->
                   IF q # p THEN known[q] ELSE IF p \in TreePaths THEN tree[p] ELSE 1]
    /\ untouched' = untouched \cup {p}
    /\ UNCHANGED <<tree, page, todo, hand, scanned, listed, treeEdits, standing, unreadable>>

\* The hash of a document is read from its metadata's "file_hash", where no
\* ingest puts it: they write "content_hash".
HashRead(p) == NoHash

BeginSync ==
    /\ Idle
    /\ \E found \in kSubset(Min({PageLimit, Cardinality(DOMAIN known)}), DOMAIN known) :
          page' = [p \in found |-> HashRead(p)]
    /\ todo' = TreePaths /\ hand' = NoPath
    /\ scanned' = {} /\ listed' = NoLists
    /\ standing' = {p \in TreePaths : tree[p] # Missing} /\ unreadable' = {}
    /\ UNCHANGED <<tree, known, treeEdits, untouched>>

\* What the walk has still to come to after p, and what is then deleted: the
\* documents of the page whose path it has not scanned.
AfterBug(p) == {}
After(p) == todo \ {p}

Unscanned == IF Idle' THEN DOMAIN page \ scanned' ELSE {}

\* The walk finds nothing at the path, or its name is not selected.
PassBy(p) ==
    /\ hand = NoPath /\ p \in todo
    /\ tree[p] = Missing \/ p \notin Matching
    /\ todo' = After(p)
    /\ UNCHANGED <<hand, scanned>>
    /\ listed' = [listed EXCEPT !.deleted = Unscanned]
    /\ UNCHANGED <<tree, known, page, treeEdits, standing, unreadable, untouched>>

\* A selected file counts as scanned from here on, whatever comes of it.
Scanned(p) == scanned \cup {p}

Take(p) ==
    /\ hand = NoPath /\ p \in todo \cap Matching /\ tree[p] # Missing
    /\ hand' = p /\ todo' = After(p) /\ scanned' = Scanned(p)
    /\ UNCHANGED <<tree, known, page, listed, treeEdits, standing, unreadable, untouched>>

ListFor(p, hash) ==
    IF p \notin DOMAIN page THEN "added"
    ELSE IF page[p] # hash THEN "modified" ELSE "unchanged"

Hash ==
    /\ hand # NoPath /\ tree[hand] # Missing
    /\ hand' = NoPath /\ UNCHANGED <<todo, scanned>>
    /\ listed' = [listed EXCEPT ![ListFor(hand, tree[hand])] = @ \cup {hand},
                                !.deleted = Unscanned]
    /\ UNCHANGED <<tree, known, page, treeEdits, standing, unreadable, untouched>>

\* Gone by now, or stat or open fails: it is on no list.
Skip ==
    /\ hand # NoPath
    /\ hand' = NoPath /\ UNCHANGED <<todo, scanned>>
    /\ listed' = [listed EXCEPT !.deleted = Unscanned]
    /\ unreadable' = unreadable \cup {hand}
    /\ UNCHANGED <<tree, known, page, treeEdits, standing, untouched>>

SyncNext ==
    \/ \E p \in TreePaths : EditFile(p) \/ PassBy(p) \/ Take(p)
    \/ \E p \in DocPaths : Ingest(p)
    \/ BeginSync \/ Hash \/ Skip

SyncSpec == SyncInit /\ [][SyncNext]_syncVars

-----------------------------------------------------------------------------

\* Every variable has its type, and no path is on two lists.
SyncTypeOK ==
    /\ tree \in [TreePaths -> Nat] /\ treeEdits \in 0..MaxTreeEdits
    /\ DOMAIN known \subseteq DocPaths /\ DOMAIN page \subseteq DocPaths
    /\ todo \subseteq TreePaths /\ hand \in TreePaths \cup {NoPath}
    /\ scanned \subseteq Matching /\ listed \in [Lists -> SUBSET DocPaths]
    /\ \A l, k \in Lists : l # k => listed[l] \cap listed[k] = {}

\* A file that the patterns select and that was there from the beginning of the
\* walk to its end is answered for, unless it could not be read, and its
\* document is never reported as deleted, not even then.
StandingAnswered ==
    Idle =>
        /\ standing \cap Matching \cap listed.deleted = {}
        /\ (standing \cap Matching) \ unreadable
               \subseteq listed.added \cup listed.modified \cup listed.unchanged

\* "incremental_sync can detect an unchanged file and skip re-ingest": a file
\* that is as it was ingested is not reported as modified.
UnchangedSeen == untouched \cap standing \cap listed.modified = {}

\* A walk answers for the files that stood all along, each on one list.
SyncSafe == SyncTypeOK /\ StandingAnswered
=============================================================================
