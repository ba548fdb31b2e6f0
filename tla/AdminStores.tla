---------------------------- MODULE AdminStores ----------------------------
(***************************************************************************)
(* The small databases of a base that administration and searches share:   *)
(* its search templates and its audit table (api/app_state.py, api/        *)
(* routes_admin.py, api/routes_search.py, engine/search_template.py).      *)
(*                                                                         *)
(* get_template_manager and get_audit_logger append the file name to the   *)
(* base's directory.  Administration passes them the directory; a search   *)
(* passes <directory>/<file name>, so that what one side means as a file   *)
(* is a directory to the other.                                            *)
(***************************************************************************)
EXTENDS Integers, FiniteSets

CONSTANTS Searchers,             \* searches that may overlap
          Builtins, Names,         \* template names
          MaxSearches, MaxStarts   \* bounds

ASSUME AdmNames == Builtins \subseteq Names /\ MaxSearches \in Nat /\ MaxStarts \in Nat

Kinds == {"templates", "audit"}
Sides == {"admin", "search"}

VARIABLES node,      \* what is at <directory>/<kind>.db
          pooled,    \* the handles in app.state.admin_pool
          own,       \* the base's own templates, by side
          rows,      \* the searches in the audit table, by side
          finder,    \* a search's number, and the template it is for
          answered,  \* the searches that were answered
          listing,   \* the last answer of the audit route
          searches, starts

admVars == <<node, pooled, own, rows, finder, answered, listing, searches, starts>>

-----------------------------------------------------------------------------
(* Handles.                                                                *)

\* open_sqlite makes the missing directories above a database and opens it: a
\* directory cannot be opened, and a file cannot be made a directory.
Means(side) == IF side = "admin" THEN "file" ELSE "directory"

OpensBug(kind, side) == TRUE   \* mutant: each side has a path of its own

Opens(kind, side) == <<kind, side>> \in pooled \/ node[kind] \in {"nothing", Means(side)}

\* The first use of a handle opens it and puts it into the pool.
OpenStore(kind, side) ==
    /\ Opens(kind, side)
    /\ node' = [node EXCEPT ![kind] = Means(side)]
    /\ pooled' = pooled \cup {<<kind, side>>}

OpenFails(kind, side) == ~Opens(kind, side) /\ UNCHANGED <<node, pooled>>

-----------------------------------------------------------------------------
(* Templates.                                                              *)

\* A base's own template hides the builtin of its name.
Found(side, name) == CASE name \in own[side]  -> "own"
                       [] name \in Builtins   -> "builtin"
                       [] OTHER               -> "none"

\* A name that is taken raises; nothing is written.
CreateTemplate(name) ==
    /\ OpenStore("templates", "admin") \/ OpenFails("templates", "admin")
    /\ own' = IF Opens("templates", "admin") THEN [own EXCEPT !["admin"] = @ \cup {name}]
              ELSE own
    /\ UNCHANGED <<rows, finder, answered, listing, searches, starts>>

\* Only a template of the base's own is removed, never a builtin.
DeleteTemplate(name) ==
    /\ OpenStore("templates", "admin")
    /\ own' = [own EXCEPT !["admin"] = IF Found("admin", name) = "own" THEN @ \ {name} ELSE @]
    /\ UNCHANGED <<rows, finder, answered, listing, searches, starts>>

ListTemplates ==
    /\ OpenStore("templates", "admin")
    /\ UNCHANGED <<own, rows, finder, answered, listing, searches, starts>>

-----------------------------------------------------------------------------
(* Searches.                                                               *)

\* A template that cannot be looked up ends the search in an internal error; one
\* that is not found is ignored.
BeginSearch(s) ==
    /\ finder[s].stage \in {"idle", "answered", "failed"}
    /\ searches < MaxSearches /\ searches' = searches + 1
    /\ \E name \in Names \cup {"no template"} :
           \/ /\ name # "no template" /\ OpenFails("templates", "search")
              /\ finder' = [finder EXCEPT ![s] = [stage |-> "failed", number |-> searches',
                                                  used |-> "none"]]
           \/ /\ \/ name = "no template" /\ UNCHANGED <<node, pooled>>
                 \/ name # "no template" /\ OpenStore("templates", "search")
              /\ finder' = [finder EXCEPT ![s] = [stage |-> "read", number |-> searches',
                                                  used |-> Found("search", name)]]
    /\ UNCHANGED <<own, rows, answered, listing, starts>>

\* The search is logged, if that can be, and answered.
LogAndAnswer(s) ==
    /\ finder[s].stage = "read"
    /\ \/ /\ OpenStore("audit", "search")
          /\ rows' = [rows EXCEPT !["search"] = @ \cup {finder[s].number}]
       \/ OpenFails("audit", "search") /\ UNCHANGED rows
    /\ finder' = [finder EXCEPT ![s].stage = "answered"]
    /\ answered' = answered \cup {finder[s].number}
    /\ UNCHANGED <<own, listing, searches, starts>>

-----------------------------------------------------------------------------
(* The audit route, checkpoints and restarts.                              *)

Nothing == {0}   \* an internal error instead of a list

ListAudit ==
    /\ \/ OpenStore("audit", "admin") /\ listing' = [asked |-> answered, shown |-> rows["admin"]]
       \/ OpenFails("audit", "admin") /\ listing' = [asked |-> answered, shown |-> Nothing]
    /\ UNCHANGED <<own, rows, finder, answered, searches, starts>>

\* checkpoint_kb opens the handle of every kind, in this order; one that does not
\* open ends it.
Checkpoint ==
    /\ LET opened == IF Opens("templates", "admin")
                     THEN IF Opens("audit", "admin") THEN Kinds ELSE {"templates"}
                     ELSE {}
       IN  /\ node' = [k \in Kinds |-> IF k \in opened THEN "file" ELSE node[k]]
           /\ pooled' = pooled \cup (opened \X {"admin"})
    /\ UNCHANGED <<own, rows, finder, answered, listing, searches, starts>>

Start ==
    /\ starts < MaxStarts /\ starts' = starts + 1
    /\ pooled' = {}
    /\ finder' = [s \in Searchers |-> [stage |-> "idle", number |-> 0, used |-> "none"]]
    /\ UNCHANGED <<node, own, rows, answered, listing, searches>>

AdmInit ==
    /\ node = [k \in Kinds |-> "nothing"] /\ pooled = {}
    /\ own = [side \in Sides |-> {}] /\ rows = [side \in Sides |-> {}]
    /\ finder = [s \in Searchers |-> [stage |-> "idle", number |-> 0, used |-> "none"]]
    /\ answered = {} /\ listing = [asked |-> {}, shown |-> {}]
    /\ searches = 0 /\ starts = 0

AdmNext ==
    \/ \E name \in Names : CreateTemplate(name) \/ DeleteTemplate(name)
    \/ ListTemplates
    \/ \E s \in Searchers : BeginSearch(s) \/ LogAndAnswer(s)
    \/ ListAudit
    \/ Checkpoint
    \/ Start

AdmSpec == AdmInit /\ [][AdmNext]_admVars

-----------------------------------------------------------------------------
(* Properties.                                                             *)

\* Every variable has its type.
AdmTypeOK ==
    /\ node \in [Kinds -> {"nothing", "file", "directory"}] /\ pooled \subseteq Kinds \X Sides
    /\ own \in [Sides -> SUBSET Names] /\ rows \in [Sides -> SUBSET (1..searches)]
    /\ finder \in [Searchers -> [stage : {"idle", "read", "answered", "failed"},
                                 number : 0..searches, used : {"own", "builtin", "none"}]]
    /\ answered \subseteq 1..searches

\* Whichever side uses a database of the base first keeps the other side out of
\* it, also over restarts: never do both have a handle, and what is at the path
\* is for ever what the first one made of it.
FirstSideStays ==
    [][\A k \in Kinds : /\ node[k] # "nothing" => node'[k] = node[k]
                        /\ ~({<<k, "admin">>, <<k, "search">>} \subseteq pooled')]_admVars

\* The audit route shows the searches that were answered before it was asked
\* (README.md: "Full search audit trail").
AuditComplete == listing.asked \subseteq listing.shown

\* The two sides never get at one database, as long as it is there.
SidesApart == []AdmTypeOK /\ FirstSideStays
=============================================================================
