------------------------------ MODULE Tenancy ------------------------------
(***************************************************************************)
(* Who a request is and which bases it sees (api/tenant.py, api/           *)
(* identity.py, api/auth.py, api/access.py, api/routes_kb.py, api/         *)
(* routes_auth.py, api/routes_project.py).  The middleware finds the       *)
(* tenant, by asking the identity service about a token or from the        *)
(* gateway's header; then the API key gives the subject; then the handler  *)
(* runs, which awaits nothing.                                             *)
(*                                                                         *)
(* The identity service is external: it judges a token at one moment and   *)
(* its reply arrives later, or not.                                        *)
(***************************************************************************)
EXTENDS Integers, FiniteSets, SequencesExt

CONSTANTS
    Callers,                  \* requests that may overlap
    OldKeys,                  \* what earlier processes left in auth.db, each newest first
    Tenants, Tokens,
    TokenTenant,              \* the tid of a token, Nobody for one without
    Keys, KeyPrefixes,        \* a prefix is the set of keys whose hashes begin with it
    Inputs,                   \* what requests bring: token, tenant header, key, route header
    BaseIds, Projects,
    CacheTtl,
    MaxArrivals, MaxClock, MaxReconfigs   \* bounds

Nobody == "nobody"

ASSUME TenInputs == /\ Nobody \notin Tenants /\ Nobody \notin Tokens /\ {Nobody, "env"} \cap Keys = {}
                    /\ TokenTenant \in [Tokens -> Tenants \cup {Nobody}]
                    /\ Inputs \subseteq [token : Tokens \cup {Nobody}, header : Tenants \cup {Nobody},
                                   key : Keys \cup {"env", Nobody}, via : BOOLEAN]
                    /\ KeyPrefixes \subseteq SUBSET Keys
                    /\ OldKeys \subseteq Seq([key : Keys, name : {"reader"}])
ASSUME TenSizes == {CacheTtl, MaxArrivals, MaxClock, MaxReconfigs} \subseteq Nat

Modes    == {"off", "gateway", "identity"}
KeyNames == {"admin", "reader"}
Gone     == "gone"

VARIABLES mode, secured,       \* the environment: tenant mode, an admin key is set
          revoked,             \* at the identity service: tokens with the time of it
          idCache,             \* tokens with the time until which they are believed
          time,
          stored,              \* the keys of auth.db, newest first
          owner,               \* the tenant of each base, Gone if there is none
          projects,            \* project_kb_map
          req, arrivals, reconfigs

tenVars == <<mode, secured, revoked, idCache, time, stored, owner, projects, req, arrivals,
             reconfigs>>

-----------------------------------------------------------------------------
(* The middleware.                                                         *)

Fresh == [stage |-> "idle", token |-> Nobody, header |-> Nobody, key |-> Nobody, at |-> 0,
          answer |-> FALSE, tenant |-> Nobody, subject |-> Nobody, shown |-> {}]

Step(c, from, to) == req[c].stage = from /\ req' = [req EXCEPT ![c] = to]

\* A token's tid is the tenant; a header that says otherwise is refused.
Claimed(r) ==
    LET tid == TokenTenant[r.token]
    IN  IF tid = Nobody \/ r.header \notin {Nobody, tid} THEN [r EXCEPT !.stage = "refused"]
        ELSE [r EXCEPT !.stage = "known", !.tenant = tid]

Believed(token) == \E entry \in idCache : entry.token = token /\ entry.until > time

\* The clock of the cache is read before the service is asked.
ByIdentity(r) == IF r.token = Nobody THEN [r EXCEPT !.stage = "refused"]
                 ELSE IF Believed(r.token) THEN Claimed(r)
                 ELSE [r EXCEPT !.stage = "asking"]

ByHeader(r, via) == IF mode = "gateway" /\ ~via THEN [r EXCEPT !.stage = "refused"]
                    ELSE [r EXCEPT !.stage = "known", !.tenant = r.header]

Arrive(c) ==
    /\ arrivals < MaxArrivals /\ arrivals' = arrivals + 1
    /\ req[c].stage \in {"idle", "refused", "served", "missing"}
    /\ \E in \in Inputs :
           LET r == [Fresh EXCEPT !.token = in.token, !.header = in.header, !.key = in.key,
                                  !.at = time]
           IN  req' = [req EXCEPT ![c] = IF mode = "identity" THEN ByIdentity(r)
                                         ELSE ByHeader(r, in.via)]
    /\ UNCHANGED <<mode, secured, revoked, idCache, time, stored, owner, projects, reconfigs>>

IsRevoked(token) == \E mark \in revoked : mark.token = token

\* The service judges the token, or the call fails, which counts as a refusal.
IdentityJudges(c) ==
    /\ \E answer \in BOOLEAN :
           /\ answer => ~IsRevoked(req[c].token)
           /\ Step(c, "asking", [req[c] EXCEPT !.stage = "judged", !.answer = answer])
    /\ UNCHANGED <<mode, secured, revoked, idCache, time, stored, owner, projects, arrivals,
                   reconfigs>>

Until(r)    == r.at + CacheTtl

\* A good answer is cached and entries that had expired when the service was
\* asked are dropped; no refusal is cached.
IdentityReplies(c) ==
    LET r == req[c]
    IN  /\ Step(c, "judged", IF r.answer THEN Claimed(r) ELSE [r EXCEPT !.stage = "refused"])
        /\ idCache' = IF ~r.answer THEN idCache
                      ELSE {entry \in idCache : entry.token # r.token /\ entry.until > r.at}
                               \cup {entry \in {[token |-> r.token, until |-> Until(r)]} :
                                         entry.until > r.at}
        /\ UNCHANGED <<mode, secured, revoked, time, stored, owner, projects, arrivals, reconfigs>>

-----------------------------------------------------------------------------
(* The API key.                                                            *)

NameOf(key) == LET i == SelectInSeq(stored, LAMBDA row : row.key = key) IN stored[i].name
HasKey(key) == \E i \in DOMAIN stored : stored[i].key = key

\* Without an admin key there are no subjects.
CheckKey(c) ==
    LET r == req[c]
        as(subject) == [r EXCEPT !.stage = "ready", !.subject = subject]
    IN  /\ Step(c, "known", CASE ~secured      -> as(Nobody)
                              [] r.key = "env"  -> as("admin")
                              [] HasKey(r.key)  -> as(NameOf(r.key))
                              [] OTHER          -> [r EXCEPT !.stage = "refused"])
        /\ UNCHANGED <<mode, secured, revoked, idCache, time, stored, owner, projects, arrivals,
                       reconfigs>>

-----------------------------------------------------------------------------
(* The handlers.                                                           *)

\* tenant_scope: no tenant, no filter.
Scoped(r)    == mode \in {"gateway", "identity"} /\ r.tenant # Nobody

Bases        == {b \in BaseIds : owner[b] # Gone}
Visible(r)   == IF Scoped(r) THEN {b \in Bases : owner[b] = r.tenant} ELSE Bases

\* The access rules look a base up in the caller's scope, unless the caller is
\* admin or keys are off.  (Bases have no rules here, so they let it pass.)
Permitted(r, b) == r.subject \in {Nobody, "admin"} \/ b \in Visible(r)
Admin(r)        == r.subject \in {Nobody, "admin"}

Reply(c, stage, shown) == Step(c, "ready", [req[c] EXCEPT !.stage = stage, !.shown = shown])
Still == UNCHANGED <<mode, secured, revoked, idCache, time, arrivals, reconfigs>>

GetBase(c, b) ==
    /\ IF b \in Visible(req[c]) THEN Reply(c, "served", {owner[b]}) ELSE Reply(c, "missing", {})
    /\ Still /\ UNCHANGED <<stored, owner, projects>>

ListBases(c) ==
    /\ Reply(c, "served", {owner[b] : b \in Visible(req[c])})
    /\ Still /\ UNCHANGED <<stored, owner, projects>>

\* A base of the caller's own is returned as it is.  The id of another tenant's
\* is taken over, in spite of what the comment of create says.
CreateBase(c, b) ==
    /\ Reply(c, "served", {req[c].tenant})
    /\ owner' = [owner EXCEPT ![b] = req[c].tenant]
    /\ Still /\ UNCHANGED <<stored, projects>>

\* The handler itself does not look at the tenant.
DeleteBase(c, b) ==
    /\ IF Permitted(req[c], b) /\ b \in Bases
       THEN Reply(c, "served", {}) /\ owner' = [owner EXCEPT ![b] = Gone]
       ELSE Reply(c, "missing", {}) /\ UNCHANGED owner
    /\ Still /\ UNCHANGED <<stored, projects>>

\* A project is mapped to a base the caller sees, or to a new one.
MapProject(c, p, b) ==
    /\ \/ /\ b \in Visible(req[c]) /\ Reply(c, "served", {}) /\ UNCHANGED owner
          /\ projects' = [projects EXCEPT ![p] = b]
       \/ /\ b \notin Visible(req[c]) /\ Reply(c, "missing", {}) /\ UNCHANGED <<owner, projects>>
       \/ /\ b \notin Bases /\ Reply(c, "served", {})
          /\ owner' = [owner EXCEPT ![b] = req[c].tenant]
          /\ projects' = [projects EXCEPT ![p] = b]
    /\ Still /\ UNCHANGED stored

\* The id is answered as it was mapped; whether there is such a base is not asked.
GetProject(c, p) ==
    /\ Reply(c, IF projects[p] = Nobody THEN "missing" ELSE "served", {})
    /\ Still /\ UNCHANGED <<stored, owner, projects>>

UnmapProject(c, p) ==
    /\ Reply(c, IF projects[p] = Nobody THEN "missing" ELSE "served", {})
    /\ projects' = [projects EXCEPT ![p] = Nobody]
    /\ Still /\ UNCHANGED <<stored, owner>>

-----------------------------------------------------------------------------
(* API keys.                                                               *)

Reserved(name)    == name = "admin"

\* Local keys are made only where no tenant mode is on.
CreateKey(c, key, name) ==
    /\ ~HasKey(key)
    /\ IF Admin(req[c]) /\ mode = "off" /\ ~Reserved(name)
       THEN Reply(c, "served", {}) /\ stored' = <<[key |-> key, name |-> name]>> \o stored
       ELSE Reply(c, "refused", {}) /\ UNCHANGED stored
    /\ Still /\ UNCHANGED <<owner, projects>>

DoomedBug(prefix) ==   \* mutant: by the digits of the request
    {key \in prefix : HasKey(key)}

\* The newest key that matches is removed, by the digits the list shows of it.
Doomed(prefix) ==
    LET i == SelectInSeq(stored, LAMBDA row : row.key \in prefix)
    IN  IF i = 0 THEN {} ELSE {stored[i].key}

DeleteKey(c, prefix) ==
    /\ IF Admin(req[c]) /\ Doomed(prefix) # {}
       THEN /\ Reply(c, "served", {})
            /\ stored' = SelectSeq(stored, LAMBDA row : row.key \notin Doomed(prefix))
       ELSE /\ Reply(c, IF Admin(req[c]) THEN "missing" ELSE "refused", {})
            /\ UNCHANGED stored
    /\ Still /\ UNCHANGED <<owner, projects>>

-----------------------------------------------------------------------------
(* Around the requests.                                                    *)

\* Only identity mode looks at the service and the clock.
Revoke(token) ==
    /\ mode = "identity" /\ ~IsRevoked(token)
    /\ revoked' = revoked \cup {[token |-> token, at |-> time]}
    /\ UNCHANGED <<mode, secured, idCache, time, stored, owner, projects, req, arrivals, reconfigs>>

PassTime ==
    /\ mode = "identity" /\ time < MaxClock /\ time' = time + 1
    /\ UNCHANGED <<mode, secured, revoked, idCache, stored, owner, projects, req, arrivals,
                   reconfigs>>

\* The process starts anew, maybe in another mode; the map and the cache are gone.
Reconfigure ==
    /\ reconfigs < MaxReconfigs /\ reconfigs' = reconfigs + 1
    /\ mode' \in Modes /\ secured' \in BOOLEAN
    /\ idCache' = {} /\ projects' = [p \in Projects |-> Nobody]
    /\ req' = [c \in Callers |-> Fresh]
    /\ UNCHANGED <<revoked, time, stored, owner, arrivals>>

TenInit ==
    /\ mode \in Modes /\ secured \in BOOLEAN
    /\ revoked = {} /\ idCache = {} /\ time = 0
    /\ stored \in OldKeys
    /\ owner \in [BaseIds -> Tenants \cup {Gone}]
    /\ projects = [p \in Projects |-> Nobody]
    /\ req = [c \in Callers |-> Fresh] /\ arrivals = 0 /\ reconfigs = 0

TenNext ==
    \/ \E c \in Callers :
           \/ Arrive(c) \/ IdentityJudges(c) \/ IdentityReplies(c) \/ CheckKey(c)
           \/ ListBases(c)
           \/ \E b \in BaseIds : GetBase(c, b) \/ CreateBase(c, b) \/ DeleteBase(c, b)
           \/ \E p \in Projects : \/ GetProject(c, p) \/ UnmapProject(c, p)
                                  \/ \E b \in BaseIds : MapProject(c, p, b)
           \/ \E key \in Keys, name \in KeyNames : CreateKey(c, key, name)
           \/ \E prefix \in KeyPrefixes : DeleteKey(c, prefix)
    \/ \E token \in Tokens : Revoke(token)
    \/ PassTime
    \/ Reconfigure

TenSpec == TenInit /\ [][TenNext]_tenVars

-----------------------------------------------------------------------------
(* Properties.                                                             *)

\* Every variable has its type.
TenTypeOK ==
    /\ mode \in Modes /\ secured \in BOOLEAN
    /\ revoked \subseteq [token : Tokens, at : 0..time]
    /\ idCache \subseteq [token : Tokens, until : 0..(time + CacheTtl)]
    /\ stored \in Seq([key : Keys, name : KeyNames])
    /\ owner \in [BaseIds -> Tenants \cup {Nobody, Gone}]
    /\ projects \in [Projects -> BaseIds \cup {Nobody}]

\* With a tenant mode on, a request that has a tenant is shown bases of that
\* tenant only, whichever way the tenant was found (tenant_scope, #61 and #68).
ServedOwn ==
    \A c \in Callers : LET r == req[c] IN
        r.stage = "served" /\ r.shown # {} =>
            /\ mode = "identity" => r.shown = {TokenTenant[r.token]}
            /\ mode = "gateway" /\ r.header # Nobody => r.shown = {r.header}

\* A token that has been revoked for as long as a verification is cached opens
\* nothing any more, however late the service's replies come in.
RevokedRefused ==
    \A c \in Callers, mark \in revoked :
        mode = "identity" /\ req[c].stage = "served" /\ req[c].token = mark.token =>
            req[c].at <= mark.at + CacheTtl

\* The subject "admin", before which no rule holds, is that of the
\* environment's key, whatever keys are stored (_RESERVED_KEY_NAMES).
AdminByEnv == \A c \in Callers : req[c].subject = "admin" => req[c].key = "env"

\* A removal takes one key, however many begin with the digits it is given.
OneKeyRemoved == [][Len(stored') >= Len(stored) - 1]_tenVars

\* Tenants are shown their own, the revoked nothing, the stored keys no more than
\* they are given, and one key is removed at a time.
TenancySafe ==
    /\ [](TenTypeOK /\ ServedOwn /\ RevokedRefused /\ AdminByEnv)
    /\ OneKeyRemoved
=============================================================================
