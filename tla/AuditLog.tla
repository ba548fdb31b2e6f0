------------------------------ MODULE AuditLog ------------------------------
(***************************************************************************)
(* The audit table of a base (engine/audit_logger.py).  Threads that have  *)
(* answered a search insert a row; every so many inserts the one that      *)
(* reaches the number prunes the table; the table is exported page by page *)
(* while all this goes on.                                                 *)
(***************************************************************************)
EXTENDS Integers, FiniteSets, SequencesExt

CONSTANTS Auditors,              \* threads that log a search
          Retention, ReapEvery,  \* 0 keeps rows for ever
          PageSize,
          MaxRows, MaxHours, MaxExports, MaxOpens   \* bounds

ASSUME AudSizes == /\ {ReapEvery, PageSize} \subseteq Nat \ {0}
                   /\ {Retention, MaxRows, MaxHours, MaxExports, MaxOpens} \subseteq Nat

VARIABLES audit, lastId,   \* the table and its AUTOINCREMENT
          inserts,         \* _insert_count
          hour,            \* the clock
          auditor,         \* what each thread is at, and the time it took for its row
          export, exports, opens,
          unpruned         \* history: rows inserted since a prune was last tried

audVars == <<audit, lastId, inserts, hour, auditor, export, exports, opens, unpruned>>

-----------------------------------------------------------------------------
(* Logging.                                                                *)

Turn(t, from, to) == /\ auditor[t].step = from
                     /\ auditor' = [auditor EXCEPT ![t] = [step |-> to, at |-> 0]]

\* The time of a row is taken before the connection's lock is.
BeginLog(t) ==
    /\ auditor[t].step = "idle"
    /\ auditor' = [auditor EXCEPT ![t] = [step |-> "insert", at |-> hour]]
    /\ UNCHANGED <<audit, lastId, inserts, hour, export, exports, opens, unpruned>>

\* The insert that reaches ReapEvery starts the count anew and is to prune.
Due    == Retention > 0 /\ inserts + 1 >= ReapEvery
Count  == IF Due \/ Retention = 0 THEN 0 ELSE inserts + 1

Insert(t) ==
    /\ lastId < MaxRows
    /\ Turn(t, "insert", IF Due THEN "reap" ELSE "idle")
    /\ lastId' = lastId + 1
    /\ audit' = audit \cup {[id |-> lastId + 1, at |-> auditor[t].at]}
    /\ inserts' = Count
    /\ unpruned' = unpruned + 1
    /\ UNCHANGED <<hour, export, exports, opens>>

\* An insert that raises is rolled back; the search is not audited.
InsertFails(t) ==
    /\ Turn(t, "insert", "idle")
    /\ UNCHANGED <<audit, lastId, inserts, hour, export, exports, opens, unpruned>>

PrunedBug(rows) == {row \in rows : row.at >= hour}   \* mutant: the retention is left out
Pruned(rows)    == {row \in rows : row.at >= hour - Retention}

Reap(t) ==
    /\ Turn(t, "reap", "idle")
    /\ audit' = Pruned(audit)
    /\ unpruned' = 0
    /\ UNCHANGED <<lastId, inserts, hour, export, exports, opens>>

\* A prune that raises is logged; the next one is due after as many inserts.
ReapFails(t) ==
    /\ Turn(t, "reap", "idle")
    /\ unpruned' = 0
    /\ UNCHANGED <<audit, lastId, inserts, hour, export, exports, opens>>

\* A new logger of the table prunes it at once, and counts from 0.
OpenLogger ==
    /\ opens < MaxOpens /\ opens' = opens + 1
    /\ \A t \in Auditors : auditor[t].step = "idle"
    /\ audit' = IF Retention > 0 THEN Pruned(audit) ELSE audit
    /\ inserts' = 0
    /\ unpruned' = 0
    /\ export' = [export EXCEPT !.on = FALSE, !.owed = {}]
    /\ UNCHANGED <<lastId, hour, auditor, exports>>

-----------------------------------------------------------------------------
(* Export.                                                                 *)

NoExport == [on |-> FALSE, last |-> 0, ids |-> <<>>, owed |-> {}]
Ids(rows) == {row.id : row \in rows}

BeginExport ==
    /\ ~export.on /\ exports < MaxExports /\ exports' = exports + 1
    /\ export' = [NoExport EXCEPT !.on = TRUE, !.owed = audit]
    /\ UNCHANGED <<audit, lastId, inserts, hour, auditor, opens, unpruned>>

\* The rows after the last id, in the order of ids.
NextPage(last) ==
    LET later == {i \in Ids(audit) : i > last}
    IN  SetToSortSeq({i \in later : Cardinality({j \in later : j < i}) < PageSize}, <)

ReadPage ==
    /\ export.on
    /\ LET page == NextPage(export.last)
       IN  export' = IF page = <<>> THEN [export EXCEPT !.on = FALSE]
                     ELSE [export EXCEPT !.ids = @ \o page, !.last = Last(page)]
    /\ UNCHANGED <<audit, lastId, inserts, hour, auditor, exports, opens, unpruned>>

PassHour == /\ hour < MaxHours /\ hour' = hour + 1
            /\ UNCHANGED <<audit, lastId, inserts, auditor, export, exports, opens, unpruned>>

AudInit ==
    /\ audit = {} /\ lastId = 0 /\ inserts = 0 /\ hour = 0
    /\ auditor = [t \in Auditors |-> [step |-> "idle", at |-> 0]]
    /\ export = NoExport /\ exports = 0 /\ opens = 0 /\ unpruned = 0

AudNext ==
    \/ \E t \in Auditors : \/ BeginLog(t) \/ Insert(t) \/ InsertFails(t)
                           \/ Reap(t) \/ ReapFails(t)
    \/ OpenLogger
    \/ BeginExport
    \/ ReadPage
    \/ PassHour

AudSpec == AudInit /\ [][AudNext]_audVars

-----------------------------------------------------------------------------
(* Properties.                                                             *)

\* Every variable has its type.
AudTypeOK ==
    /\ audit \subseteq [id : 1..lastId, at : 0..hour]
    /\ inserts \in 0..(ReapEvery - 1)
    /\ auditor \in [Auditors -> [step : {"idle", "insert", "reap"}, at : 0..hour]]
    /\ export.owed \subseteq [id : 1..lastId, at : 0..hour] /\ export.ids \in Seq(1..lastId)

\* The table is pruned in time (_REAPER_EVERY): whatever threads insert at once,
\* and though the count starts anew before the prune, as many inserts as the
\* reaper waits for are not made without a prune, unless one is just due.
AuditReaped ==
    Retention > 0 /\ unpruned >= ReapEvery => \E t \in Auditors : auditor[t].step = "reap"

\* A prune spares every row that is not older than the retention.
PruneSpares == [][\A row \in audit \ audit' : row.at < hour - Retention]_audVars

\* An export has every row that was there when it began and is still there, no
\* row twice, in the order of ids, whatever is logged and pruned between its
\* pages (iter_logs).
ExportSound ==
    /\ \A i, j \in DOMAIN export.ids : i < j => export.ids[i] < export.ids[j]
    /\ ~export.on => Ids(export.owed \cap audit) \subseteq ToSet(export.ids)

\* The log is pruned in time and not too early, and exported whole.
AuditSafe == [](AudTypeOK /\ AuditReaped /\ ExportSound) /\ PruneSpares
=============================================================================
