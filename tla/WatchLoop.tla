------------------------------ MODULE WatchLoop ------------------------------
(***************************************************************************)
(* File watches (api/routes_docs.py, api/app_state.py): POST /watch starts *)
(* a polling task that re-indexes files whose content hash has changed,    *)
(* and saves the registry of watches so that a restart brings them back.   *)
(*                                                                         *)
(*   watches   app.state.watches, a dict in insertion order                *)
(*   registry  watch_registry.json, written whole by _persist_watches      *)
(*   hash      the "hashes" of each watch: the version it last noticed     *)
(*   loop      the asyncio task of each watch                              *)
(*   file      the version of each file on disk, 0 when it is missing      *)
(*   indexed   the version of each file that each base has indexed last    *)
(*                                                                         *)
(* Handlers that await nothing are one step.  _index_document (DocWrite)   *)
(* appears as reading the file and, later, publishing what was read.       *)
(***************************************************************************)
EXTENDS Integers, SequencesExt

CONSTANTS
    KBs,               \* knowledge bases
    Files,             \* watched paths
    WatchIds,          \* watch ids; uuid4 never gives one twice
    Cap,               \* FUSION_RAG_WATCH_CAP
    MaxFileEdits,      \* bound: changes to files
    MaxWatchFaults,    \* bound: re-indexes and registry writes that fail
    MaxWatchRestarts   \* bound: restarts of the process

ASSUME CapAssumption   == Cap \in Nat \ {0}
ASSUME WatchAssumption == {MaxFileEdits, MaxWatchFaults, MaxWatchRestarts} \subseteq Nat

VARIABLES watches, registry, hash, loop, file, indexed,
          stopped,   \* history: watches whose /unwatch was answered and recorded
          noticed,   \* history: files that each watch has seen to change
          failed,    \* history: files whose last re-index failed, as logged
          fileEdits, watchFaults, watchRestarts

watchVars == <<watches, registry, hash, loop, file, indexed, stopped, noticed, failed,
          fileEdits, watchFaults, watchRestarts>>

Entry    == [id : WatchIds, kb : KBs, files : SUBSET Files]
Versions == 0..(MaxFileEdits + 1)

\* bound: the context variable _current_app is set in the task.
\* at: "start" not run yet, "sleep" in asyncio.sleep, "index" between two
\*     files, "write" inside _index_document, "ended" returned or raised.
\* todo: changed files still to index; cur: the one at hand; read: its text.
Loop == [kb    : KBs,
         at    : {"none", "start", "sleep", "index", "write", "ended"},
         bound : BOOLEAN,
         todo  : SUBSET Files,
         cur   : SUBSET Files,
         read  : Versions]

NewLoop(kb, at, bound) ==
    [kb |-> kb, at |-> at, bound |-> bound, todo |-> {}, cur |-> {}, read |-> 0]

Active(id) == \E w \in Range(watches) : w.id = id
Of(id)     == CHOOSE w \in Range(watches) : w.id = id
Exists(f)  == file[f] # 0

WatchInit ==
    /\ watches = <<>> /\ registry = <<>>
    /\ hash = [id \in WatchIds |-> [f \in Files |-> 0]]
    /\ \E kb \in KBs : loop = [id \in WatchIds |-> NewLoop(kb, "none", FALSE)]
    /\ file = [f \in Files |-> 1]
    /\ indexed = [kb \in KBs |-> [f \in Files |-> 1]]
    /\ stopped = {} /\ noticed = {} /\ failed = {}
    /\ fileEdits = 0 /\ watchFaults = 0 /\ watchRestarts = 0

-----------------------------------------------------------------------------
(* The file system: files change, vanish and come back; a new content is   *)
(* never one that was seen before.                                         *)

Edit(f) ==
    /\ fileEdits < MaxFileEdits
    /\ fileEdits' = fileEdits + 1
    /\ \E v \in {fileEdits + 2, 0} \ {file[f]} : file' = [file EXCEPT ![f] = v]
    /\ UNCHANGED <<watches, registry, hash, loop, indexed, stopped, noticed, failed,
                   watchFaults, watchRestarts>>

-----------------------------------------------------------------------------
(* Requests.                                                               *)

\* _persist_watches: a failure is logged and the caller goes on.
Persist(ws) ==
    \/ registry' = ws /\ UNCHANGED watchFaults
    \/ watchFaults < MaxWatchFaults /\ watchFaults' = watchFaults + 1 /\ UNCHANGED registry

\* The cap is checked against the watches of this base.
BelowCap(kb) == Cardinality({w \in Range(watches) : w.kb = kb}) < Cap

\* The hash of every file that can be read, as recorded with a watch.
Hashes(files) == [f \in Files |-> IF f \in files THEN file[f] ELSE 0]

\* A new watch has an id of its own.
FreshId(id) == loop[id].at = "none"

\* watch_files: missing files are left out, and one file must remain.
Watch(id, kb, F) ==
    LET valid == {f \in F : Exists(f)} IN
    /\ FreshId(id)
    /\ valid # {}
    /\ BelowCap(kb)
    /\ watches' = Append(watches, [id |-> id, kb |-> kb, files |-> valid])
    /\ hash' = [hash EXCEPT ![id] = Hashes(valid)]
    /\ loop' = [loop EXCEPT ![id] = NewLoop(kb, "start", TRUE)]
    /\ Persist(watches')
    /\ UNCHANGED <<file, indexed, stopped, noticed, failed, fileEdits, watchRestarts>>

\* The one entry of a watch is taken out.
Without(ws, id) == RemoveAt(ws, CHOOSE i \in DOMAIN ws : ws[i].id = id)

\* The registry without the stopped watch is written.
PersistStop(id) == Persist(Without(watches, id))

\* unwatch_files: the task is told through the flag "active", not cancelled.
Unwatch(id) ==
    /\ Active(id)
    /\ watches' = Without(watches, id)
    /\ PersistStop(id)
    /\ stopped' = IF watchFaults' = watchFaults THEN stopped \cup {id} ELSE stopped
    /\ UNCHANGED <<hash, loop, file, indexed, noticed, failed, fileEdits, watchRestarts>>

-----------------------------------------------------------------------------
(* The polling task, _watch_loop.                                          *)

SetLoop(id, l) == loop' = [loop EXCEPT ![id] = l]

\* It starts by reading app.state through the context variable: outside a
\* request that raises, and the task is gone.
BeginLoop(id) ==
    /\ loop[id].at = "start"
    /\ SetLoop(id, [loop[id] EXCEPT
                      !.at = IF loop[id].bound /\ Active(id) THEN "sleep" ELSE "ended"])
    /\ UNCHANGED <<watches, registry, hash, file, indexed, stopped, noticed, failed,
                   fileEdits, watchFaults, watchRestarts>>

Changed(id) == {f \in Of(id).files : Exists(f) /\ file[f] # hash[id][f]}

\* After the sleep the flag is looked at: the task ends, ...
Leave(id) ==
    /\ loop[id].at = "sleep"
    /\ ~Active(id)
    /\ SetLoop(id, [loop[id] EXCEPT !.at = "ended"])
    /\ UNCHANGED <<watches, registry, hash, file, indexed, stopped, noticed, failed,
                   fileEdits, watchFaults, watchRestarts>>

\* ... or it hashes every file, and records the new hash of those that changed
\* before any of them is indexed.
Poll(id) ==
    /\ loop[id].at = "sleep"
    /\ Active(id) /\ Changed(id) # {}
    /\ SetLoop(id, [loop[id] EXCEPT !.at = "index", !.todo = Changed(id)])
    /\ hash' = [hash EXCEPT ![id] =
                 [f \in Files |-> IF f \in Changed(id) THEN file[f] ELSE hash[id][f]]]
    /\ noticed' = noticed \cup {<<id, f>> : f \in Changed(id)}
    /\ UNCHANGED <<watches, registry, file, indexed, stopped, failed,
                   fileEdits, watchFaults, watchRestarts>>

\* The loop once it is done with file f, well or badly.
LeftAfterBug(l, f) == {}
LeftAfter(l, f) == l.todo \ {f}

DoneWith(l, f) ==
    [l EXCEPT !.at = IF LeftAfter(l, f) = {} THEN "sleep" ELSE "index",
              !.todo = LeftAfter(l, f), !.cur = {}, !.read = 0]

\* _index_document, first half: the file is parsed as it is now.  One that is
\* gone gives an error, which is logged.
ReadFile(id, f) ==
    /\ loop[id].at = "index" /\ f \in loop[id].todo
    /\ \/ /\ Exists(f)
          /\ SetLoop(id, [loop[id] EXCEPT !.at = "write", !.cur = {f}, !.read = file[f]])
          /\ UNCHANGED failed
       \/ /\ ~Exists(f)
          /\ SetLoop(id, DoneWith(loop[id], f))
          /\ failed' = failed \cup {<<id, f>>}
    /\ UNCHANGED <<watches, registry, hash, file, indexed, stopped, noticed,
                   fileEdits, watchFaults, watchRestarts>>

\* _index_document, second half: the stores hold what was read.
WriteIndex(id, f) ==
    /\ loop[id].at = "write" /\ f \in loop[id].cur
    /\ indexed' = [indexed EXCEPT ![loop[id].kb][f] = loop[id].read]
    /\ failed' = failed \ {<<id, f>>}
    /\ SetLoop(id, DoneWith(loop[id], f))
    /\ UNCHANGED <<watches, registry, hash, file, stopped, noticed, fileEdits, watchFaults,
                   watchRestarts>>

\* An error that _index_document returns is logged, and the next file's turn comes.
IndexFails(id, f) ==
    /\ watchFaults < MaxWatchFaults
    /\ loop[id].at = "write" /\ f \in loop[id].cur
    /\ watchFaults' = watchFaults + 1
    /\ failed' = failed \cup {<<id, f>>}
    /\ SetLoop(id, DoneWith(loop[id], f))
    /\ UNCHANGED <<watches, registry, hash, file, indexed, stopped, noticed, fileEdits,
                   watchRestarts>>

\* Where the loop goes when an exception came out of _index_document.
AfterExceptionBug == "ended"
AfterException == "sleep"

\* An exception (embedding service, KB deleted) is logged, and the other
\* changed files are not indexed any more.
IndexRaises(id) ==
    /\ watchFaults < MaxWatchFaults
    /\ loop[id].at = "write"
    /\ watchFaults' = watchFaults + 1
    /\ failed' = failed \cup {<<id, f>> : f \in loop[id].todo}
    /\ SetLoop(id, NewLoop(loop[id].kb, AfterException, loop[id].bound))
    /\ UNCHANGED <<watches, registry, hash, file, indexed, stopped, noticed, fileEdits,
                   watchRestarts>>

-----------------------------------------------------------------------------
(* The process stops, at any point, and starts again: init_app_state.      *)

\* _restore_watches looks at the first Cap watches of the registry, whatever
\* bases they belong to, ...
FirstOnes(ws) == SubSeq(ws, 1, IF Len(ws) < Cap THEN Len(ws) ELSE Cap)

\* ... and skips one that has no file left.
RestorableBug(w) == \A f \in w.files : Exists(f)
Restorable(w) == \E f \in w.files : Exists(f)

Kept == {i \in DOMAIN FirstOnes(registry) : Restorable(registry[i])}

\* The members of a set of numbers, in their order.
InOrder(S) == {o \in [1..Cardinality(S) -> S] :
                 /\ \A i, j \in DOMAIN o : i < j => o[i] < o[j]
                 /\ Range(o) = S}

Restored(o) == [i \in DOMAIN o |-> [registry[o[i]] EXCEPT !.files = {f \in @ : Exists(f)}]]

\* The hashes are those of the files as they are now, so an edit made while
\* the service was down is not noticed.  The tasks are created in the
\* lifespan, where _current_app is not set.
RestoreWatches ==
    /\ watchRestarts < MaxWatchRestarts
    /\ watchRestarts' = watchRestarts + 1
    /\ \E o \in InOrder(Kept) : watches' = Restored(o)
    /\ hash' = [id \in WatchIds |->
                  Hashes(UNION {w.files : w \in {x \in Range(watches') : x.id = id}})]
    /\ loop' = [id \in WatchIds |->
                  IF loop[id].at = "none" THEN loop[id]
                  ELSE NewLoop(loop[id].kb, IF Active(id)' THEN "start" ELSE "ended", FALSE)]
    /\ UNCHANGED <<registry, file, indexed, stopped, noticed, failed, fileEdits, watchFaults>>

-----------------------------------------------------------------------------

LoopStep(id) ==
    \/ BeginLoop(id) \/ Leave(id) \/ Poll(id) \/ IndexRaises(id)
    \/ \E f \in Files : ReadFile(id, f) \/ WriteIndex(id, f) \/ IndexFails(id, f)

Request(id) == Unwatch(id) \/ \E kb \in KBs, F \in SUBSET Files : Watch(id, kb, F)

WatchNext ==
    \/ \E id \in WatchIds : LoopStep(id) \/ Request(id)
    \/ \E f \in Files : Edit(f)
    \/ RestoreWatches

WatchSpec == WatchInit /\ [][WatchNext]_watchVars

\* The event loop comes back to every task: asyncio.sleep ends, and so does
\* every call that the task awaits.  Nobody has to edit, watch or unwatch.
WatchFairness == \A id \in WatchIds : WF_watchVars(LoopStep(id))

WatchFairSpec == WatchSpec /\ WatchFairness

-----------------------------------------------------------------------------
(* Properties.                                                             *)

\* Every variable has its type, and each id names at most one watch.
WatchTypeOK ==
    /\ watches \in Seq(Entry) /\ registry \in Seq(Entry)
    /\ \A i, j \in DOMAIN watches : watches[i].id = watches[j].id => i = j
    /\ hash \in [WatchIds -> [Files -> Versions]]
    /\ loop \in [WatchIds -> Loop]
    /\ file \in [Files -> Versions]
    /\ indexed \in [KBs -> [Files -> Versions]]
    /\ stopped \subseteq WatchIds
    /\ noticed \subseteq WatchIds \X Files /\ failed \subseteq WatchIds \X Files
    /\ fileEdits \in 0..MaxFileEdits /\ watchFaults \in 0..MaxWatchFaults
    /\ watchRestarts \in 0..MaxWatchRestarts

\* "per-KB watch concurrency cap": no base has more than Cap watches, also
\* after restarts that bring watches back beside new ones.
CapHeld == \A kb \in KBs : Cardinality({w \in Range(watches) : w.kb = kb}) <= Cap

\* An active watch that a request started has a running task: no failed
\* re-index and no race with /unwatch leaves a watch that is listed as active
\* and looks at nothing.
Monitored == \A id \in WatchIds : Active(id) /\ loop[id].bound => loop[id].at # "ended"

\* "so a restart does not silently drop every directory monitor": an active
\* watch that a restart brought back has a running task too.
RestoredMonitored == \A id \in WatchIds : Active(id) => loop[id].at # "ended"

\* The re-indexes of f by the watch on it and by the others all succeeded, and
\* none of the others was stopped, perhaps half way.
Undisturbed(id, f) ==
    \A w \in WatchIds : /\ <<w, f>> \notin failed
                        /\ w = id \/ Active(w) \/ loop[w].at = "none"

\* Once files stop changing, a file that a watch has seen to change is indexed
\* as it is, although the hash is recorded before the re-index, the file is
\* read again by it, and tasks of other watches index the same file.
Converges ==
    \A id \in WatchIds, f \in Files :
        <>[](Active(id) /\ loop[id].bound /\ <<id, f>> \in noticed /\ Exists(f) /\ Undisturbed(id, f)
                => indexed[Of(id).kb][f] = file[f])

\* "re-persist so a restart does not re-spawn a just-unwatched monitor": a
\* watch that was stopped never comes back, once the registry could be written.
UnwatchFinal == \A id \in stopped : ~Active(id)

\* "a restart restores watches instead of silently dropping them": a watch
\* that the registry has and that still has a file is there after a restart.
RestartKeeps ==
    [][watchRestarts' # watchRestarts =>
         \A w \in Range(watches) : w \in Range(registry) /\ (\E f \in w.files : Exists(f)) =>
            \E x \in Range(watches') : x.id = w.id]_watchVars

\* A watch that a request started is one entry, with a task that runs.
WatchSafe == WatchTypeOK /\ Monitored

\* Over restarts, the registry brings back what it should, and no more.
RegistrySound == [](CapHeld /\ UnwatchFinal) /\ RestartKeeps
=============================================================================
