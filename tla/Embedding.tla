----------------------------- MODULE Embedding -----------------------------
(***************************************************************************)
(* The embedding client and its cache (embed/client.py, embed/local.py,    *)
(* engine/embedding_cache.py).  A call asks for the vectors of a list of   *)
(* texts: what the cache has is taken from it, the rest is posted in       *)
(* batches to a provider that may time out, fail or answer out of order,   *)
(* then to a fallback, then to a local model.                              *)
(*                                                                         *)
(* The vector of a text is the text itself, or Zero.  One model is served, *)
(* so the cache is keyed by text.                                          *)
(***************************************************************************)
EXTENDS Integers, FiniteSets, SequencesExt

CONSTANTS
    Texts, Requests,      \* texts, and the lists of them that are asked for
    Calls,                \* embed_batch calls that may overlap
    BatchSize, Retries, Slots,
    MaxEntries, Ttl,      \* of the cache; a Ttl of 0 keeps rows for ever
    Fallback, Local,      \* whether there is a second provider, a local model
    MaxTime, MaxCalls, MaxFaults, MaxRestarts   \* bounds

ASSUME EmbSizes == /\ {BatchSize, Retries, Slots, MaxEntries} \subseteq Nat \ {0}
                   /\ {Ttl, MaxTime, MaxCalls, MaxFaults, MaxRestarts} \subseteq Nat
                   /\ {Fallback, Local} \subseteq BOOLEAN
ASSUME EmbInputs == /\ IsFiniteSet(Texts) /\ "zero" \notin Texts /\ "none" \notin Texts
                    /\ IsFiniteSet(Requests) /\ Requests # {}
                    /\ Requests \subseteq Seq(Texts) \ {<<>>}

VARIABLES table,      \* the rows of embed_cache, as its connection sees them
          committed,  \* and as they are on disk
          rowCount,   \* _row_count
          clock, calls, begun, embFaults, embRestarts

embVars == <<table, committed, rowCount, clock, calls, begun, embFaults, embRestarts>>

Zero == "zero"
None == "none"
Row  == [text : Texts, vector : Texts \cup {Zero}, at : Nat]

-----------------------------------------------------------------------------
(* The cache.                                                              *)

Expired(row) == Ttl > 0 /\ clock - row.at > Ttl

\* get_batch skips what has expired and leaves the row where it is.
Cached(t) == IF \E row \in table : row.text = t /\ ~Expired(row)
             THEN (CHOOSE row \in table : row.text = t).vector
             ELSE None

\* INSERT OR REPLACE of each text's vector, the last of a repeated text stays.
Written(tab, texts, vectors) ==
    LET last(t) == CHOOSE i \in DOMAIN texts : /\ texts[i] = t
                                               /\ \A j \in DOMAIN texts : texts[j] = t => j <= i
    IN  {row \in tab : row.text \notin ToSet(texts)}
            \cup {[text |-> t, vector |-> vectors[last(t)], at |-> clock] : t \in ToSet(texts)}

\* SQLite's total_changes counts a replaced row once, as it does a new one.
Delta(texts)  == Len(texts)
NetNew(texts) == Max({0, 2 * Len(texts) - Delta(texts)})

Keep == Max({MaxEntries \div 2, 1})

TrimmedBug(tab) ==   \* mutant: ORDER BY without DESC
    LET oldest == {row \in tab : Cardinality({other \in tab : other.at < row.at}) < Keep}
    IN  {row \in tab : \E kept \in oldest : row.at <= kept.at}

\* What is left of a table when rows older than the oldest of its Keep newest go.
Trimmed(tab) ==
    LET newest == {row \in tab : Cardinality({other \in tab : other.at > row.at}) < Keep}
    IN  {row \in tab : \E kept \in newest : row.at >= kept.at}

\* Write a batch and evict; time passes between two writes.
Store(texts, vectors) ==
    LET full  == Written(table, texts, vectors)
        count == rowCount + NetNew(texts)
    IN  /\ table' = IF count > MaxEntries THEN Trimmed(full) ELSE full
        /\ rowCount' = IF count > MaxEntries THEN Keep ELSE count
        /\ committed' = table'
        /\ clock' = clock + 1
        /\ UNCHANGED embFaults

\* A statement of set_batch raises: what it wrote so far stays in the open
\* transaction, uncounted, and the next commit takes it along.
StoreFails(texts, vectors) ==
    /\ embFaults < MaxFaults
    /\ embFaults' = embFaults + 1
    /\ \E n \in 0..Len(texts) :
           table' = IF n = 0 THEN table
                    ELSE Written(table, SubSeq(texts, 1, n), SubSeq(vectors, 1, n))
    /\ clock' = clock + 1
    /\ UNCHANGED <<committed, rowCount>>

-----------------------------------------------------------------------------
(* What a provider answers, and what the client makes of it.               *)

NoIndex == 0 - 1

\* The item for the p-th text of a batch, with its position counted from base;
\* one of the vectors may be zero.
Item(batch, p, base, zero) == [index  |-> p - 1 + base,
                               vector |-> IF zero = p THEN Zero ELSE batch[p]]
Bare(batch, p, zero) == [Item(batch, p, 0, zero) EXCEPT !.index = NoIndex]

\* The items of a reply: any of the texts in any order with their positions,
\* counted from 0 or by a careless provider from 1, or the first of them without
\* positions.
Orders(n) == UNION {SetToSeqs(S) : S \in SUBSET (1..n)}
Replies(batch) ==
    LET n == Len(batch)
    IN  {[k \in DOMAIN o |-> Item(batch, o[k], base, zero)] :
             o \in Orders(n), base \in {0, 1}, zero \in 0..n}
        \cup {[k \in 1..m |-> Bare(batch, k, zero)] : m \in 0..n, zero \in 0..n}

\* _map_embed_response: the vectors by position, the last of a repeated one.  An
\* item without a position has the number of those before it (in a reply, none
\* of them repeat one).  A zero vector or a wrong number of vectors is refused, a
\* position that is not there raises.
Position(items, k) == IF items[k].index = NoIndex THEN k - 1 ELSE items[k].index
ByIndex(items) ==
    [i \in {Position(items, k) : k \in DOMAIN items} |->
        items[Max({k \in DOMAIN items : Position(items, k) = i})].vector]

Refused(items, n) == \/ \E k \in DOMAIN items : items[k].vector = Zero
                     \/ Cardinality(DOMAIN ByIndex(items)) # n
Misplaced(items, n) == ~Refused(items, n) /\ DOMAIN ByIndex(items) # 0..(n - 1)

Mapped(items, n) == [p \in 1..n |-> ByIndex(items)[p - 1]]

-----------------------------------------------------------------------------
(* embed_batch.                                                            *)

Idle == [stage |-> "idle", texts |-> <<>>, found |-> <<>>, got |-> <<>>, tries |-> 0]

Stages == {"idle", "waiting", "posted", "fallback", "local", "answered", "failed"}

\* The texts the cache did not have, in the order of their places.
Uncached(call) == {i \in DOMAIN call.texts : call.found[i] = None}
Rank(call, i)  == Cardinality({j \in Uncached(call) : j <= i})
Asked(call)    == [k \in 1..Cardinality(Uncached(call)) |->
                      call.texts[CHOOSE i \in Uncached(call) : Rank(call, i) = k]]
Batch(call)    == LET n == Len(call.got)
                  IN  SubSeq(Asked(call), n + 1, Min({n + BatchSize, Len(Asked(call))}))

\* The cached vectors with the new ones put in their places.
Merged(call) ==
    [i \in DOMAIN call.texts |->
        IF call.found[i] # None THEN call.found[i]
        ELSE call.got[Rank(call, i)]]

Become(c, call) == calls' = [calls EXCEPT ![c] = call]
Move(c, stage)  == Become(c, [calls[c] EXCEPT !.stage = stage])

Begin(c) ==
    /\ calls[c].stage \in {"idle", "answered", "failed"}
    /\ begun < MaxCalls /\ begun' = begun + 1
    /\ \E texts \in Requests :
           LET found == [i \in DOMAIN texts |-> Cached(texts[i])]
           IN  Become(c, [Idle EXCEPT !.stage = IF None \in ToSet(found) THEN "waiting"
                                                ELSE "answered",
                                      !.texts = texts, !.found = found])
    /\ UNCHANGED <<table, committed, rowCount, clock, embFaults, embRestarts>>

\* The semaphore is held while a batch is at the provider, not between tries.
Post(c) ==
    /\ calls[c].stage = "waiting"
    /\ Cardinality({d \in Calls : calls[d].stage = "posted"}) < Slots
    /\ Move(c, "posted")
    /\ UNCHANGED <<table, committed, rowCount, clock, begun, embFaults, embRestarts>>

\* The vectors of a batch: the next batch is waited for, or all are there and
\* the new ones are stored.  The call is answered even if they cannot be.
Accept(c, vectors) ==
    LET call == [calls[c] EXCEPT !.got = @ \o vectors, !.tries = 0]
    IN  IF Len(call.got) < Len(Asked(call))
        THEN /\ Become(c, [call EXCEPT !.stage = "waiting"])
             /\ UNCHANGED <<table, committed, rowCount, clock, embFaults>>
        ELSE /\ Become(c, [call EXCEPT !.stage = "answered", !.found = Merged(call)])
             /\ Store(Asked(call), call.got) \/ StoreFails(Asked(call), call.got)

Give(c, stage) == Move(c, stage) /\ UNCHANGED <<table, committed, rowCount, clock, embFaults>>

AfterFailures == IF Fallback THEN "fallback" ELSE "local"

RetryForEver(c) ==   \* mutant: the tries are not counted
    /\ Become(c, [calls[c] EXCEPT !.stage = "waiting"])
    /\ UNCHANGED <<table, committed, rowCount, clock, embFaults>>

\* A timeout, an error or an unreadable reply is tried again, the last time the
\* next provider is.
Retry(c) ==
    IF calls[c].tries + 1 < Retries
    THEN /\ Become(c, [calls[c] EXCEPT !.stage = "waiting", !.tries = @ + 1])
         /\ UNCHANGED <<table, committed, rowCount, clock, embFaults>>
    ELSE Give(c, AfterFailures)

Take(c, again(_)) ==
    LET batch == Batch(calls[c])
        n     == Len(batch)
    IN  \/ again(c)
        \/ \E items \in Replies(batch) :
               \/ Refused(items, n) /\ Give(c, "failed")
               \/ Misplaced(items, n) /\ again(c)
               \/ /\ ~Refused(items, n) /\ ~Misplaced(items, n)
                  /\ Accept(c, Mapped(items, n))

Answer(c) ==
    /\ calls[c].stage = "posted"
    /\ Take(c, Retry)
    /\ UNCHANGED <<begun, embRestarts>>

AnswerFallback(c) ==
    /\ calls[c].stage = "fallback"
    /\ Take(c, LAMBDA d : Give(d, "local"))
    /\ UNCHANGED <<begun, embRestarts>>

\* The local model: disabled, absent or failing, or a vector for each text,
\* of which a zero one is refused.
AnswerLocal(c) ==
    /\ calls[c].stage = "local"
    /\ \/ Give(c, "failed")
       \/ Local /\ Accept(c, Batch(calls[c]))
    /\ UNCHANGED <<begun, embRestarts>>

-----------------------------------------------------------------------------
(* Around the calls.                                                       *)

\* get removes an expired row.
Get(t) ==
    /\ \E row \in table : row.text = t /\ Expired(row)
    /\ table' = {row \in table : row.text # t}
    /\ committed' = table'
    /\ rowCount' = Max({0, rowCount - 1})
    /\ UNCHANGED <<clock, calls, begun, embFaults, embRestarts>>

Clear ==
    /\ table # {}
    /\ table' = {} /\ committed' = {} /\ rowCount' = 0
    /\ UNCHANGED <<clock, calls, begun, embFaults, embRestarts>>

Tick == /\ clock < MaxTime /\ clock' = clock + 1
        /\ UNCHANGED <<table, committed, rowCount, calls, begun, embFaults, embRestarts>>

\* A new process counts the rows it finds.
Restart ==
    /\ embRestarts < MaxRestarts /\ embRestarts' = embRestarts + 1
    /\ table' = committed
    /\ rowCount' = Cardinality(committed)
    /\ calls' = [c \in Calls |-> Idle]
    /\ UNCHANGED <<committed, clock, begun, embFaults>>

EmbInit ==
    /\ table = {} /\ committed = {} /\ rowCount = 0
    /\ clock = 0
    /\ calls = [c \in Calls |-> Idle]
    /\ begun = 0 /\ embFaults = 0 /\ embRestarts = 0

EmbStep(c) == Post(c) \/ Answer(c) \/ AnswerFallback(c) \/ AnswerLocal(c)

EmbNext ==
    \/ \E c \in Calls : Begin(c) \/ EmbStep(c)
    \/ \E t \in Texts : Get(t)
    \/ Clear
    \/ Tick
    \/ Restart

EmbFairness == \A c \in Calls : /\ SF_embVars(Post(c))
                                /\ WF_embVars(Answer(c) \/ AnswerFallback(c) \/ AnswerLocal(c))

EmbSpec == EmbInit /\ [][EmbNext]_embVars /\ EmbFairness

-----------------------------------------------------------------------------
(* Properties.                                                             *)

\* Every variable has its type.
EmbTypeOK ==
    /\ table \subseteq Row /\ committed \subseteq Row
    /\ rowCount \in Nat /\ clock \in Nat
    /\ calls \in [Calls -> [stage : Stages, texts : Requests \cup {<<>>},
                            found : Seq(Texts \cup {Zero, None}), got : Seq(Texts \cup {Zero}),
                            tries : 0..(Retries - 1)]]

\* A call that is answered has for every text the text's own vector, whichever
\* of them came from the cache, whatever the order of the provider's items and
\* however its texts were cut into batches (_map_embed_response, embed_batch).
VectorsAligned ==
    \A c \in Calls : calls[c].stage = "answered" => calls[c].found = calls[c].texts

\* A row of the cache has the vector of its own text and never a zero one, and
\* a text has one row.
CacheSound ==
    /\ \A row \in table \cup committed : row.vector = row.text
    /\ \A r, s \in table : r.text = s.text => r = s

\* However wrong the counter is, the table is bounded: by the limit, what a
\* batch of equal age adds to it, and what failed writes left uncounted.
Longest == Max({Len(texts) : texts \in Requests})
CacheBounded == Cardinality(table) <= MaxEntries + Longest * (1 + embFaults) - 1

\* An eviction removes no row that is newer than one it keeps.
EvictsOldest ==
    [][\A gone \in table \ table', kept \in table \cap table' :
           rowCount' = Keep /\ clock' > clock /\ gone.text \notin {r.text : r \in table'}
               => gone.at < kept.at]_embVars

\* Every call is answered or fails: no retry, batch or wait for the semaphore
\* keeps it for ever.
EmbAnswers ==
    \A c \in Calls : calls[c].stage = "waiting"
                         ~> calls[c].stage \in {"idle", "answered", "failed"}

\* The counter is the number of rows (the comments of _row_count).
CounterExact == rowCount = Cardinality(table)

\* Answers have their own vectors, and so has the cache, which is bounded and
\* evicts the oldest rows.
EmbeddingSafe ==
    /\ [](EmbTypeOK /\ VectorsAligned /\ CacheSound /\ CacheBounded)
    /\ EvictsOldest
=============================================================================
