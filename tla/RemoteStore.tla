----------------------------- MODULE RemoteStore -----------------------------
(***************************************************************************)
(* The split store (store/remote_backend.py, api/routes_store.py, the      *)
(* fallback of store/vector_store.py): the catalogue is here, the vectors  *)
(* are on another node behind HTTP calls with a timeout, and the node may  *)
(* apply a call that the caller has given up, at any later time.  A call   *)
(* is sent once.                                                           *)
(*                                                                         *)
(*   remote   how many copies of its chunks the node has of each document: *)
(*            one call carries them all, and LanceDB appends               *)
(*   wire     calls that the node has not worked off                       *)
(*   remCall  the document request of each thread, and the call it awaits  *)
(*   remRow   the document in the catalogue, or how its request ended      *)
(*   oldNode  the node has no delete_by_chunk_ids and answers 404          *)
(***************************************************************************)
EXTENDS Integers, FiniteSets

CONSTANTS
    RemDocs,       \* documents
    RemPath,       \* RemPath[d]: its doc_path; inline documents can share one
    RemThreads,    \* threads that run requests
    MaxPosts,      \* bound: calls sent
    MaxTimeouts,   \* bound: calls that time out
    MaxRefusals    \* bound: calls that the node answers with an error

ASSUME RemAssumption == {MaxPosts, MaxTimeouts, MaxRefusals} \subseteq Nat

VARIABLES remote, wire, remCall, remRow, oldNode, posts, timeouts, refusals,
          late      \* history: documents of which a call timed out

remVars == <<remote, wire, remCall, remRow, oldNode, posts, timeouts, refusals, late>>

Waiting == {"adding", "undoing", "removing"}

\* op: what the request is for; for: the number of the call it waits for;
\* got: how that call ended.
Free == [op |-> "none", at |-> "idle"]

RemInit ==
    /\ remote = [d \in RemDocs |-> 0] /\ wire = {}
    /\ remCall = [t \in RemThreads |-> Free]
    /\ remRow = [d \in RemDocs |-> "new"]
    /\ oldNode \in BOOLEAN
    /\ posts = 0 /\ timeouts = 0 /\ refusals = 0 /\ late = {}

-----------------------------------------------------------------------------
(* The caller.                                                             *)

\* _post: the call is on its way and the thread waits for the answer.
Message(verb, d) == [nr |-> posts, verb |-> verb, doc |-> d]
Post(t, verb, op, at, d) ==
    /\ posts < MaxPosts /\ posts' = posts + 1
    /\ wire' = wire \cup {Message(verb, d)}
    /\ remCall' = [remCall EXCEPT ![t] =
                     [op |-> op, at |-> at, doc |-> d, for |-> posts, got |-> "nothing"]]

Ended(t, d, state) ==
    /\ remRow' = [remRow EXCEPT ![d] = state]
    /\ remCall' = [remCall EXCEPT ![t] = Free]
    /\ UNCHANGED <<posts, wire>>

Alone(d) == \A t \in RemThreads : remCall[t].at # "idle" => remCall[t].doc # d

\* A first ingest adds; a replace and a delete remove by chunk ids first.
BeginRemote(t, d) ==
    /\ remCall[t].at = "idle" /\ Alone(d)
    /\ \/ remRow[d] = "new" /\ Post(t, "add_batch", "add", "adding", d)
       \/ /\ remRow[d] = "there"
          /\ \E op \in {"replace", "delete"} :
                Post(t, "delete_by_chunk_ids", op, "removing", d)
    /\ UNCHANGED <<remote, remRow, oldNode, timeouts, refusals, late>>

\* What was added is entered in the catalogue.  When the node or the catalogue
\* fails it is taken back.
Added(t) ==
    LET d == remCall[t].doc IN
    /\ remCall[t].at = "adding"
    /\ \/ remCall[t].got = "ok" /\ Ended(t, d, "there")
       \/ /\ remCall[t].got \in {"ok", "error"}
          /\ Post(t, "delete_by_chunk_ids", "undo", "undoing", d)
          /\ UNCHANGED remRow
    /\ UNCHANGED <<remote, oldNode, timeouts, refusals, late>>

\* VectorStore.delete_by_chunk_ids: on a 404 the path is deleted instead.
FallsBackBug(got) == got \in {"404", "error"}
FallsBack(got) == got = "404"

FallBack(t) ==
    /\ remCall[t].at \in {"undoing", "removing"} /\ FallsBack(remCall[t].got)
    /\ Post(t, "delete_by_doc", remCall[t].op, remCall[t].at, remCall[t].doc)
    /\ UNCHANGED <<remote, remRow, oldNode, timeouts, refusals, late>>

\* The taking back is over: a clean failure (500), or one that says that
\* orphans are likely (503).
Verdict(got) == IF got = "ok" THEN "failed" ELSE "orphan"

Undone(t) ==
    /\ remCall[t].at = "undoing" /\ remCall[t].got \in {"ok", "error"}
    /\ Ended(t, remCall[t].doc, Verdict(remCall[t].got))
    /\ UNCHANGED <<remote, oldNode, timeouts, refusals, late>>

\* The old chunks are gone: a delete is over, a replace adds.  A removal that
\* raised ends the request and leaves the row.
Removed(t) ==
    LET d == remCall[t].doc IN
    /\ remCall[t].at = "removing"
    /\ \/ /\ remCall[t].got = "ok" /\ remCall[t].op = "delete"
          /\ Ended(t, d, "deleted")
       \/ /\ remCall[t].got = "ok" /\ remCall[t].op = "replace"
          /\ Post(t, "add_batch", "add", "adding", d)
          /\ UNCHANGED remRow
       \/ remCall[t].got = "error" /\ Ended(t, d, "there")
    /\ UNCHANGED <<remote, oldNode, timeouts, refusals, late>>

\* The caller gives a call up; the node does not know.
TimeOut(t) ==
    /\ remCall[t].at \in Waiting /\ remCall[t].got = "nothing"
    /\ timeouts < MaxTimeouts /\ timeouts' = timeouts + 1
    /\ remCall' = [remCall EXCEPT ![t].got = "error"]
    /\ late' = late \cup {remCall[t].doc}
    /\ UNCHANGED <<remote, wire, remRow, oldNode, posts, refusals>>

-----------------------------------------------------------------------------
(* The node: each handler runs in a thread of its own, in any order.       *)

Applied(m) ==
    CASE m.verb = "add_batch"           -> [remote EXCEPT ![m.doc] = @ + 1]
      [] m.verb = "delete_by_chunk_ids" -> [remote EXCEPT ![m.doc] = 0]
      [] m.verb = "delete_by_doc"       ->
             [d \in RemDocs |-> IF RemPath[d] = RemPath[m.doc] THEN 0 ELSE remote[d]]

\* The answer reaches the thread that still waits for it.
Deliver(m, got) ==
    remCall' = [t \in RemThreads |->
                  IF /\ remCall[t].at \in Waiting
                     /\ remCall[t].for = m.nr /\ remCall[t].got = "nothing"
                  THEN [remCall[t] EXCEPT !.got = got]
                  ELSE remCall[t]]

Unknown(m) == oldNode /\ m.verb = "delete_by_chunk_ids"

Handle(m) ==
    /\ m \in wire /\ wire' = wire \ {m}
    /\ \/ Unknown(m) /\ Deliver(m, "404") /\ UNCHANGED <<remote, refusals>>
       \/ ~Unknown(m) /\ remote' = Applied(m) /\ Deliver(m, "ok") /\ UNCHANGED refusals
       \/ /\ refusals < MaxRefusals /\ refusals' = refusals + 1
          /\ remote' \in {remote} \cup IF Unknown(m) THEN {} ELSE {Applied(m)}
          /\ Deliver(m, "error")
    /\ UNCHANGED <<remRow, oldNode, posts, timeouts, late>>

-----------------------------------------------------------------------------

RemNext ==
    \/ \E t \in RemThreads :
          \/ \E d \in RemDocs : BeginRemote(t, d)
          \/ Added(t) \/ FallBack(t) \/ Undone(t) \/ Removed(t) \/ TimeOut(t)
    \/ \E m \in wire : Handle(m)

RemSpec == RemInit /\ [][RemNext]_remVars

-----------------------------------------------------------------------------
(* Properties.                                                             *)

\* Every variable has its type.
RemTypeOK ==
    /\ remote \in [RemDocs -> Nat]
    /\ \A m \in wire : m.doc \in RemDocs /\ m.nr \in 0..(MaxPosts - 1)
    /\ \A t \in RemThreads : remCall[t].at = "idle" \/ remCall[t].at \in Waiting
    /\ remRow \in [RemDocs -> {"new", "there", "failed", "orphan", "deleted"}]
    /\ oldNode \in BOOLEAN /\ late \subseteq RemDocs
    /\ posts \in 0..MaxPosts /\ timeouts \in 0..MaxTimeouts /\ refusals \in 0..MaxRefusals

\* However its calls time out, are refused half way and applied late, the node
\* never has the chunks of a document twice.
StoredOnce == \A d \in RemDocs : remote[d] <= 1

\* "ops distinguish clean retry from needs cleanup": when none of its calls
\* timed out, a document whose write failed cleanly, or that was deleted, has
\* nothing left on the node.
FailedClean ==
    \A d \in RemDocs \ late :
        remRow[d] \in {"failed", "deleted"} /\ Alone(d) => remote[d] = 0

\* The same with calls that time out: the node can apply an add after the call
\* that takes it back.
FailedCleanAlways ==
    \A d \in RemDocs : remRow[d] \in {"failed", "deleted"} /\ Alone(d) => remote[d] = 0

\* A node that knows chunk ids removes the chunks of the document that a call
\* names and of no other on its path, whatever else fails.
NeighboursKept ==
    [][~oldNode => \A d \in RemDocs :
          remote'[d] < remote[d] => \E m \in wire \ wire' : m.doc = d]_remVars

\* What the node keeps of the documents, whatever its calls do: one copy, nothing
\* of a clean failure, and the neighbours on a path.
RemoteSafe == [](RemTypeOK /\ StoredOnce /\ FailedClean) /\ NeighboursKept
=============================================================================
