----------------------------- MODULE BnupLessons -----------------------------
(***************************************************************************)
(* The lesson corpus (api/routes_bnup.py, bnup/corpus.py): an ingest that  *)
(* removes and adds lessons under fixed ids, without a lock and without a  *)
(* rollback, and then writes the sidecar that the other routes read.       *)
(*                                                                         *)
(*   copies   how many chunk rows the vector table has of each lesson      *)
(*   catalogued   the lessons whose catalogue row was written              *)
(*   corpus   the lessons of the sidecar; NoCorpus before the first ingest *)
(*   ingest   each POST /ingest                                            *)
(***************************************************************************)
EXTENDS Integers, FiniteSets

CONSTANTS
    Lessons,       \* lessons: doc_id, doc_path and chunk id follow from the place
    Corpora,       \* the sets of lessons that a corpus may hold
    Ingests,       \* requests
    MaxLessonFails \* bound: store calls that raise

ASSUME LessonAssumption ==
    /\ Corpora \subseteq (SUBSET Lessons) \ {{}} /\ MaxLessonFails \in Nat

VARIABLES copies, catalogued, corpus, ingest, lessonFails,
          concurrent,   \* history: an ingest began while another was running
          lost          \* history: lessons removed by an ingest that then failed

lesVars == <<copies, catalogued, corpus, ingest, lessonFails, concurrent, lost>>

NoCorpus == {}
Off == [at |-> "off", brings |-> {}, left |-> {}]

LesInit ==
    /\ copies = [l \in Lessons |-> 0] /\ catalogued = {} /\ corpus = NoCorpus
    /\ ingest = [r \in Ingests |-> Off]
    /\ lessonFails = 0 /\ concurrent = FALSE /\ lost = {}

Goes(r, from, to) == ingest[r].at = from /\ ingest' = [ingest EXCEPT ![r] = to]
LessonFail == lessonFails < MaxLessonFails /\ lessonFails' = lessonFails + 1
Running == {r \in Ingests : ingest[r].at \notin {"off", "done"}}

\* The corpus is parsed and embedded; a corpus without lessons, or an embedding
\* that falls short, ends the request before anything is touched.
BeginIngest(r) ==
    \E c \in Corpora :
        /\ Goes(r, "off", [at |-> "drop", brings |-> c, left |-> c])
        /\ concurrent' = (concurrent \/ Running # {})
        /\ UNCHANGED <<copies, catalogued, corpus, lessonFails, lost>>

\* delete_by_doc for each lesson; a failure is logged and the next one follows.
DroppedAllBug(l) == [k \in Lessons |-> 0]
Dropped(l) == [copies EXCEPT ![l] = 0]

DropLesson(r) ==
    \E l \in ingest[r].left :
        /\ Goes(r, "drop", [ingest[r] EXCEPT !.left = @ \ {l}])
        /\ \/ copies' = Dropped(l) /\ UNCHANGED lessonFails
           \/ LessonFail /\ UNCHANGED copies
        /\ UNCHANGED <<catalogued, corpus, concurrent, lost>>

\* add_batch of the whole corpus.  When it raises the request ends in a 500,
\* with its rows there or not, and nothing is taken back.
AddLessons(r) ==
    LET c == ingest[r].brings
        added == [l \in Lessons |-> IF l \in c THEN copies[l] + 1 ELSE copies[l]]
    IN
    /\ ingest[r].left = {}
    /\ \/ /\ Goes(r, "drop", [ingest[r] EXCEPT !.at = "list", !.left = c])
          /\ copies' = added
          /\ UNCHANGED <<lessonFails, lost>>
       \/ /\ Goes(r, "drop", [ingest[r] EXCEPT !.at = "done"])
          /\ LessonFail
          /\ copies' \in {copies, added}
          /\ lost' = lost \cup c
    /\ UNCHANGED <<catalogued, corpus, concurrent>>

\* The catalogue rows, one lesson after the other; a failure is logged.
ListLesson(r) ==
    \E l \in ingest[r].left :
        /\ Goes(r, "list", [ingest[r] EXCEPT !.left = @ \ {l}])
        /\ \/ catalogued' = catalogued \cup {l} /\ UNCHANGED lessonFails
           \/ LessonFail /\ UNCHANGED catalogued
        /\ UNCHANGED <<copies, corpus, concurrent, lost>>

\* The sidecar says what this corpus has, whatever others brought.
WriteCorpus(r) ==
    /\ ingest[r].left = {}
    /\ Goes(r, "list", [ingest[r] EXCEPT !.at = "done"])
    /\ corpus' = ingest[r].brings
    /\ UNCHANGED <<copies, catalogued, lessonFails, concurrent, lost>>

LesNext ==
    \E r \in Ingests :
        BeginIngest(r) \/ DropLesson(r) \/ AddLessons(r) \/ ListLesson(r) \/ WriteCorpus(r)

LesSpec == LesInit /\ [][LesNext]_lesVars

-----------------------------------------------------------------------------
(* Properties.                                                             *)

\* Every variable has its type.
LesTypeOK ==
    /\ copies \in [Lessons -> Nat]
    /\ catalogued \subseteq Lessons /\ corpus \subseteq Lessons /\ lost \subseteq Lessons
    /\ \A r \in Ingests : ingest[r].left \subseteq ingest[r].brings
    /\ lessonFails \in 0..MaxLessonFails /\ concurrent \in BOOLEAN

\* Re-ingesting a corpus does not fill the base with copies: a lesson is stored
\* once more than a removal was ignored, unless ingests overlap.
LessonsOnce == ~concurrent => \A l \in Lessons : copies[l] <= 1 + lessonFails

\* The sidecar vouches for what can be retrieved: between ingests each lesson it
\* lists is stored, unless an ingest that removed it failed.
CorpusServed ==
    Running = {} => \A l \in corpus \ lost : copies[l] >= 1

\* Lessons are stored once, and the sidecar vouches for stored ones.
LessonsSafe == LesTypeOK /\ LessonsOnce /\ CorpusServed
=============================================================================
