-------------------------- MODULE Retrieval_proofs --------------------------
(***************************************************************************)
(* Proofs about Retrieval: its access gate, the status on its chunk rows,  *)
(* and the pages its searches answer with.                                 *)
(*                                                                         *)
(* The decision on a request is spread over three reads (the document's    *)
(* path, the base's rules, the caller's rules) between which rules change; *)
(* GateInv says what is known of the rules after each of them.  A patch    *)
(* brings the status to the chunk rows after its row; MirrorInv says how   *)
(* far a writer that is alone has come.  PageInv says what a search holds  *)
(* of the stores it read one after the other: its lists have no chunk      *)
(* twice, and only chunks of documents that have a row or changed since it *)
(* began.  LeadInv adds, for a search by vectors alone, that a list has    *)
(* the nearest chunks first and passes over none that was there all along. *)
(***************************************************************************)
EXTENDS Retrieval, SequenceTheorems, FiniteSetTheorems, TLAPS

Paths == {Root, Unresolved} \cup {PathOf[d] : d \in Docs}

GateTypes ==
    /\ at \in [Requests -> Steps]
    /\ who \in [Requests -> Callers]
    /\ path \in [Requests -> Paths]
    /\ patch \in [Patches -> [doc : Docs, status : Statuses]]
    /\ used \subseteq Docs

\* What the rules say now of a request that is checked is on record.
Recorded ==
    \A r \in Checking : (Permitted(r) => r \in allowed) /\ (~Permitted(r) => r \in denied)

\* The path a request is checked for is its target's.
Aimed ==
    /\ \A r \in Searches : path[r] = Root
    /\ \A r \in Patches : at[r] \in {"rules", "check"} /\ r \notin away => path[r] = Target(r)

\* The second read is made for a caller that needs a rule, and finds the base
\* open only if a rule was deleted after the first one.
SecondRead ==
    \A r \in Requests : at[r] = "check" =>
        who[r] # Trusted /\ (rules = {} => r \in lost)

GateInv == GateTypes /\ Recorded /\ Aimed /\ SecondRead

-----------------------------------------------------------------------------

LEMMA InitGate == Init => GateInv
<1> SUFFICES ASSUME Init PROVE GateInv
    OBVIOUS
<1> USE DataAssumption, ActorAssumption
<1>1. GateTypes
  <2>1. NoPatch \in [doc : Docs, status : Statuses]
      BY DocsAssumption DEF NoPatch, Statuses
  <2>2. used \subseteq Docs
      BY DEF Init
  <2> QED BY <2>1, <2>2 DEF Init, GateTypes, Steps, Paths
<1>2. Recorded /\ Aimed /\ SecondRead
    BY DEF Init, Recorded, Aimed, SecondRead, Checking, Requests
<1> QED BY <1>1, <1>2 DEF GateInv

\* A step that leaves the rules, the gate's record and every request that is
\* being checked as they are.
LEMMA Elsewhere ==
    ASSUME GateInv,
           GateTypes',
           UNCHANGED <<rules, who, path, gate>>,
           \A r \in Requests : at'[r] \in {"resolve", "rules", "check"} => at'[r] = at[r],
           \A p \in Patches : at'[p] \in {"resolve", "rules", "check"} => patch'[p] = patch[p]
    PROVE  GateInv'
<1>1. \A r \in Checking' : r \in Checking /\ Permitted(r)' = Permitted(r)
    BY DEF Checking, Permitted, Target, ActionOf, Requests
<1>2. Recorded'
    BY <1>1 DEF GateInv, Recorded, gate
<1>3. Aimed'
    BY DEF GateInv, Aimed, gate, Target, Requests
<1>4. SecondRead'
    BY DEF GateInv, SecondRead, gate
<1> QED BY <1>2, <1>3, <1>4 DEF GateInv

\* The end of a check, with whatever verdict.
LEMMA Leaving ==
    ASSUME GateInv, NEW r \in Requests, NEW step \in Steps \ {"resolve", "rules", "check"},
           Leave(r, step),
           UNCHANGED <<rules, patch, used>>
    PROVE  GateInv'
<1> USE ActorAssumption
<1>1. GateTypes'
    BY DEF GateInv, GateTypes, Leave, Go, Paths
<1>2. \A q \in Checking' : /\ q # r /\ q \in Checking
                           /\ who'[q] = who[q] /\ Permitted(q)' = Permitted(q)
    BY DEF GateInv, GateTypes, Leave, Go, Checking, Permitted, Target, ActionOf
<1>3. Recorded'
    BY <1>2 DEF GateInv, Recorded, Leave
<1>4. Aimed'
    BY DEF GateInv, GateTypes, Aimed, Leave, Go, Target, Requests, Steps
<1>5. SecondRead'
    BY DEF GateInv, GateTypes, SecondRead, Leave, Go
<1> QED BY <1>1, <1>3, <1>4, <1>5 DEF GateInv

-----------------------------------------------------------------------------
(* The steps.                                                              *)

LEMMA BeginSearchGate ==
    ASSUME GateInv, NEW r \in Searches, BeginSearch(r) PROVE GateInv'
<1> USE ActorAssumption DEF Requests
<1>1. GateTypes'
    BY DEF GateInv, GateTypes, BeginSearch, Go, stores, Steps
<1>2. \A q \in Requests \ {r} : /\ at'[q] = at[q] /\ path'[q] = path[q]
                                 /\ Permitted(q)' = Permitted(q) /\ Target(q)' = Target(q)
    BY DEF GateInv, GateTypes, BeginSearch, Go, Permitted, Target, ActionOf
<1>3. allowed \subseteq allowed' /\ denied \subseteq denied' /\ UNCHANGED <<rules, lost, away>>
    BY DEF BeginSearch, Judged
<1>4. (Permitted(r)' => r \in allowed') /\ (~Permitted(r)' => r \in denied')
    BY DEF BeginSearch, Judged
<1>5. Recorded'
    BY <1>2, <1>3, <1>4 DEF GateInv, Recorded, Checking
<1>6. Aimed'
    BY <1>2, <1>3 DEF GateInv, Aimed, BeginSearch
<1>7. SecondRead'
    BY DEF GateInv, GateTypes, SecondRead, BeginSearch, Go
<1> QED BY <1>1, <1>5, <1>6, <1>7 DEF GateInv

LEMMA BeginPatchGate ==
    ASSUME GateInv, NEW p \in Patches, BeginPatch(p) PROVE GateInv'
<1> USE ActorAssumption DEF Requests
<1>1. GateTypes'
    BY DEF GateInv, GateTypes, BeginPatch, Go, stores, Steps
<1>2. \A q \in Requests \ {p} : /\ at'[q] = at[q] /\ path'[q] = path[q]
                                 /\ Permitted(q)' = Permitted(q) /\ Target(q)' = Target(q)
    BY DEF GateInv, GateTypes, BeginPatch, Go, Permitted, Target, ActionOf
<1>3. allowed \subseteq allowed' /\ denied \subseteq denied' /\ UNCHANGED <<rules, lost, away>>
    BY DEF BeginPatch, Judged
<1>4. (Permitted(p)' => p \in allowed') /\ (~Permitted(p)' => p \in denied')
    BY DEF BeginPatch, Judged
<1>5. Recorded'
    BY <1>2, <1>3, <1>4 DEF GateInv, Recorded, Checking
<1>6. Aimed'
    BY <1>2, <1>3 DEF GateInv, GateTypes, Aimed, BeginPatch, Go
<1>7. SecondRead'
    BY DEF GateInv, GateTypes, SecondRead, BeginPatch, Go
<1> QED BY <1>1, <1>5, <1>6, <1>7 DEF GateInv

LEMMA ResolveGate ==
    ASSUME GateInv, NEW p \in Patches, Resolve(p) PROVE GateInv'
<1> USE ActorAssumption DEF Requests
<1>1. GateTypes'
    BY DEF GateInv, GateTypes, Resolve, Go, stores, Steps, Paths, Path, Target
<1>2. \A q \in Requests : /\ Permitted(q)' = Permitted(q) /\ Target(q)' = Target(q)
                          /\ q # p => at'[q] = at[q] /\ path'[q] = path[q]
    BY DEF GateInv, GateTypes, Resolve, Go, Path, Permitted, Target, ActionOf
<1>3. Recorded'
    BY <1>2 DEF GateInv, Recorded, Checking, Resolve
<1>4. Aimed'
    BY <1>2 DEF GateInv, GateTypes, Aimed, Resolve, Go, Path
<1>5. SecondRead'
    BY DEF GateInv, GateTypes, SecondRead, Resolve, Go
<1> QED BY <1>1, <1>3, <1>4, <1>5 DEF GateInv

LEMMA ReadRulesGate ==
    ASSUME GateInv, NEW r \in Requests, ReadRules(r) PROVE GateInv'
<1> USE ActorAssumption
<1>1. CASE Admit(r)
    BY <1>1, Leaving DEF Admit, ReadRules, stores, Steps
<1>2. CASE Leave(r, "unavailable")
    BY <1>2, Leaving DEF ReadRules, stores, Steps, Ended
<1>3. CASE /\ who[r] # Trusted /\ rules # {} /\ Go(r, "check")
           /\ UNCHANGED <<who, path, gate>>
  <2>1. GateTypes'
      BY <1>3 DEF GateInv, GateTypes, ReadRules, Go, stores, Steps
  <2>2. \A q \in Requests : /\ Permitted(q)' = Permitted(q) /\ Target(q)' = Target(q)
                            /\ q # r => at'[q] = at[q]
      BY <1>3 DEF GateInv, GateTypes, ReadRules, Go, Permitted, Target, ActionOf
  <2>3. at[r] = "rules"
      BY DEF ReadRules
  <2>4. Recorded'
      BY <1>3, <2>2, <2>3 DEF GateInv, Recorded, Checking, gate
  <2>5. Aimed'
      BY <1>3, <2>2, <2>3 DEF GateInv, Aimed, gate, Requests
  <2>6. SecondRead'
      BY <1>3, <2>2 DEF GateInv, SecondRead, ReadRules, gate
  <2> QED BY <2>1, <2>4, <2>5, <2>6 DEF GateInv
<1> QED BY <1>1, <1>2, <1>3 DEF ReadRules

LEMMA CheckRulesGate ==
    ASSUME GateInv, NEW r \in Requests, CheckRules(r) PROVE GateInv'
<1>1. CASE Admit(r)
    BY <1>1, Leaving DEF Admit, CheckRules, stores, Steps
<1>2. CASE Leave(r, "refused") \/ Leave(r, "unavailable")
    BY <1>2, Leaving DEF CheckRules, stores, Steps, Ended
<1> QED BY <1>1, <1>2 DEF CheckRules

\* Rules change: every request that is being checked is judged anew.
LEMMA RuleChange ==
    ASSUME GateInv, AddRule \/ DeleteRule PROVE GateInv'
<1>1. GateTypes'
    BY DEF GateInv, GateTypes, AddRule, DeleteRule, stores
<1>2. Checking' = Checking
    BY DEF Checking, AddRule, DeleteRule
<1>3. Recorded'
    BY <1>2 DEF Recorded, AddRule, DeleteRule, Judged
<1>4. Aimed'
    BY DEF GateInv, Aimed, AddRule, DeleteRule, Target, Requests
<1>5. SecondRead'
    BY DEF GateInv, SecondRead, AddRule, DeleteRule
<1> QED BY <1>1, <1>3, <1>4, <1>5 DEF GateInv

\* What a search does after its check.
LEMMA SearchGate ==
    ASSUME GateInv, NEW r \in Searches,
           Prepare(r) \/ Read(r) \/ Filter(r) \/ Rerank(r) \/ Compose(r) \/ Log(r)
    PROVE  GateInv'
<1> USE DEF Requests
<1>1. UNCHANGED <<rules, who, path, patch, used, gate>>
    BY DEF Prepare, Read, Filter, Rerank, Compose, Log, stores, history, gate
<1>2. PICK step \in {"fetch", "failed", "log", "rerank", "compose", "crashed", "answered"} :
          at' = [at EXCEPT ![r] = step] \/ at' = at
  <2>1. CASE Prepare(r)
      BY <2>1 DEF Prepare, Drop, Go
  <2>2. CASE Read(r)
      BY <2>2 DEF Read
  <2>3. CASE Filter(r)
      BY <2>3 DEF Filter, Go
  <2>4. CASE Rerank(r)
      BY <2>4 DEF Rerank, Go
  <2>5. CASE Compose(r)
      BY <2>5 DEF Compose, Drop, Go
  <2>6. CASE Log(r)
      BY <2>6 DEF Log, Drop, Go
  <2> QED BY <2>1, <2>2, <2>3, <2>4, <2>5, <2>6
<1>3. GateTypes'
    BY <1>1, <1>2 DEF GateInv, GateTypes, Steps, Ended
<1>4. \A q \in Requests : at'[q] \in {"resolve", "rules", "check"} => at'[q] = at[q]
    BY <1>2 DEF GateInv, GateTypes
<1> QED BY <1>1, <1>3, <1>4, Elsewhere

\* What a patch does after its check.
LEMMA PatchGate ==
    ASSUME GateInv, NEW p \in Patches, GetDocument(p) \/ PatchRow(p) \/ PatchChunks(p)
    PROVE  GateInv'
<1> USE DEF Requests
<1>1. UNCHANGED <<rules, who, path, used, gate>>
    BY DEF GetDocument, PatchRow, PatchChunks, stores, gate
<1>2. PICK step \in {"missing", "row", "chunks", "answered"} : at' = [at EXCEPT ![p] = step]
    BY DEF GetDocument, PatchRow, PatchChunks, Go
<1>3. NoPatch \in [doc : Docs, status : Statuses]
    BY DocsAssumption DEF NoPatch, Statuses
<1>4. patch' = [patch EXCEPT ![p] = NoPatch] \/ patch' = patch
    BY DEF GetDocument, PatchRow, PatchChunks
<1>5. GateTypes'
    BY <1>1, <1>2, <1>3, <1>4 DEF GateInv, GateTypes, Steps, Ended
<1>6. \A q \in Requests : at'[q] \in {"resolve", "rules", "check"} => q # p /\ at'[q] = at[q]
    BY <1>2 DEF GateInv, GateTypes
<1>7. \A q \in Patches \ {p} : patch'[q] = patch[q]
    BY <1>4 DEF GateInv, GateTypes
<1> QED BY <1>1, <1>5, <1>6, <1>7, Elsewhere

\* Documents that are written.
LEMMA JobGate ==
    ASSUME GateInv, StartJob \/ DoJob PROVE GateInv'
<1>1. UNCHANGED <<rules, who, path, patch, at, gate>>
    BY DEF StartJob, DoJob, gate
<1>2. used' \subseteq Docs
    BY DEF GateInv, GateTypes, StartJob, DoJob
<1>3. GateTypes'
    BY <1>1, <1>2 DEF GateInv, GateTypes
<1> QED BY <1>1, <1>3, Elsewhere

LEMMA NextGate == GateInv /\ [Next]_vars => GateInv'
<1> SUFFICES ASSUME GateInv, [Next]_vars PROVE GateInv'
    OBVIOUS
<1>1. ASSUME NEW r \in Searches, BeginSearch(r) PROVE GateInv'
    BY <1>1, BeginSearchGate
<1>2. ASSUME NEW r \in Searches,
             Prepare(r) \/ Read(r) \/ Filter(r) \/ Rerank(r) \/ Compose(r) \/ Log(r)
      PROVE  GateInv'
    BY <1>2, SearchGate
<1>3. ASSUME NEW p \in Patches, BeginPatch(p) PROVE GateInv'
    BY <1>3, BeginPatchGate
<1>4. ASSUME NEW p \in Patches, Resolve(p) PROVE GateInv'
    BY <1>4, ResolveGate
<1>5. ASSUME NEW p \in Patches, GetDocument(p) \/ PatchRow(p) \/ PatchChunks(p)
      PROVE  GateInv'
    BY <1>5, PatchGate
<1>6. ASSUME NEW r \in Requests, ReadRules(r) PROVE GateInv'
    BY <1>6, ReadRulesGate
<1>7. ASSUME NEW r \in Requests, CheckRules(r) PROVE GateInv'
    BY <1>7, CheckRulesGate
<1>8. CASE AddRule \/ DeleteRule
    BY <1>8, RuleChange
<1>9. CASE StartJob \/ DoJob
    BY <1>9, JobGate
<1>10. CASE UNCHANGED vars
  <2>1. GateTypes'
      BY <1>10 DEF GateInv, GateTypes, vars
  <2> QED BY <1>10, <2>1, Elsewhere DEF vars, gate
<1> QED BY <1>1, <1>2, <1>3, <1>4, <1>5, <1>6, <1>7, <1>8, <1>9, <1>10 DEF Next

\* What is known of the rules while requests are checked holds in every
\* behaviour.
THEOREM GateCorrect == Spec => []GateInv
<1> QED BY InitGate, NextGate, PTL DEF Spec

-----------------------------------------------------------------------------
(* Verdicts.                                                               *)

\* A check ends in one of its two reads.
LEMMA OnlyTheGate ==
    ASSUME GateInv, [Next]_vars, NEW r \in Requests, at[r] \in {"rules", "check"}, at'[r] # at[r]
    PROVE  ReadRules(r) \/ CheckRules(r)
<1> USE DEF GateInv, GateTypes, Requests
<1>1. ASSUME NEW q \in Searches, BeginSearch(q) PROVE FALSE
    BY <1>1 DEF BeginSearch, Go
<1>2. ASSUME NEW q \in Searches,
             Prepare(q) \/ Read(q) \/ Filter(q) \/ Rerank(q) \/ Compose(q) \/ Log(q)
      PROVE  FALSE
    BY <1>2 DEF Prepare, Read, Filter, Rerank, Compose, Log, Drop, Go
<1>3. ASSUME NEW p \in Patches, BeginPatch(p) \/ Resolve(p) PROVE FALSE
    BY <1>3 DEF BeginPatch, Resolve, Go
<1>4. ASSUME NEW p \in Patches, GetDocument(p) \/ PatchRow(p) \/ PatchChunks(p) PROVE FALSE
    BY <1>4 DEF GetDocument, PatchRow, PatchChunks, Go
<1>5. ASSUME NEW q \in Requests, ReadRules(q) \/ CheckRules(q), q # r PROVE FALSE
    BY <1>5 DEF ReadRules, CheckRules, Admit, Leave, Go
<1>6. ~(AddRule \/ DeleteRule \/ StartJob \/ DoJob \/ UNCHANGED vars)
    BY DEF AddRule, DeleteRule, StartJob, DoJob, vars
<1> QED BY <1>1, <1>2, <1>3, <1>4, <1>5, <1>6 DEF Next

\* Whatever the rules, the callers and the paths, and however rules change
\* during the check (_check_kb_access): who is let through was allowed at some
\* moment of the check, and who is refused was not allowed at some moment of
\* it, unless a rule was deleted between the two reads.
THEOREM GateVerdicts == Spec => Verdicts
<1>1. GateInv /\ [Next]_vars => [JustVerdict]_vars
  <2> SUFFICES ASSUME GateInv, [Next]_vars, NEW r \in Requests,
                      at[r] \in {"rules", "check"}, at'[r] # at[r], r \notin away
               PROVE  /\ at'[r] \in {"prepare", "get"} => r \in allowed
                      /\ at'[r] = "refused" /\ r \notin lost => r \in denied
      BY DEF JustVerdict
  <2>1. (Permitted(r) => r \in allowed) /\ (~Permitted(r) => r \in denied)
      BY DEF GateInv, Recorded, Checking
  <2>2. CASE ReadRules(r)
    <3>1. at'[r] \in {"prepare", "get"} => who[r] = Trusted \/ rules = {}
        BY <2>2 DEF ReadRules, Leave, Go, GateInv, GateTypes
    <3>2. at'[r] # "refused"
        BY <2>2 DEF ReadRules, Admit, Leave, Go, GateInv, GateTypes
    <3> QED BY <2>1, <3>1, <3>2 DEF Permitted
  <2>3. CASE CheckRules(r)
    <3>1. path[r] = Target(r)
        BY <2>3 DEF CheckRules, GateInv, Aimed, Target, Requests
    <3>2. at'[r] \in {"prepare", "get"} => Grants(rules, who[r], ActionOf(r), Target(r))
        BY <2>3, <3>1 DEF CheckRules, Leave, Go, GateInv, GateTypes
    <3>3. at'[r] = "refused" => ~Grants(rules, who[r], ActionOf(r), Target(r))
        BY <2>3, <3>1 DEF CheckRules, Admit, Leave, Go, GateInv, GateTypes
    <3>4. who[r] # Trusted /\ (rules = {} => r \in lost)
        BY <2>3 DEF CheckRules, GateInv, SecondRead
    <3> QED BY <2>1, <3>2, <3>3, <3>4 DEF Permitted
  <2> QED BY <2>2, <2>3, OnlyTheGate
<1> QED BY <1>1, GateCorrect, PTL DEF Spec, Verdicts

-----------------------------------------------------------------------------
(* The status on the chunk rows.  Two writers of one document, a patch and  *)
(* a job or two patches, are on record only once the first of them acts;    *)
(* until then Lone says that there is at most one.                          *)

Calls == {"-vectors", "-words", "-chunks", "-row", "+vectors", "+words", "+row", "+chunks"}

\* The chunk rows and the document row go, and come, one right after the other.
Planned(todo) ==
    /\ todo \in Seq(Calls) /\ todo # <<>>
    /\ todo[Len(todo)] \notin {"-chunks", "+row"}
    /\ \A i \in 1..(Len(todo) - 1) : /\ todo[i] = "-chunks" <=> todo[i + 1] = "-row"
                                     /\ todo[i] = "+row" <=> todo[i + 1] = "+chunks"

StoreTypes ==
    /\ row \in [Docs -> Statuses \cup {"none"}]
    /\ mirror \in [Docs -> [status : Statuses \cup {"none"}, quoted : BOOLEAN]]
    /\ job = Idle \/ (job \in [doc : Docs, todo : Seq(Calls)] /\ Planned(job.todo))

\* At most finitely many patches have begun, however many there are.
FewBegun == IsFiniteSet({p \in Patches : at[p] # "idle"})

\* Document d has one writer at most.
Lone(d) == /\ \A p, q \in Writers(d) : p = q
           /\ job.doc = d => Writers(d) = {}

\* One of the two rows of d has been written, the other has not.
Between(d) == \/ job.doc = d /\ job.todo[1] \in {"-row", "+chunks"}
              \/ \E p \in Writers(d) : at[p] = "chunks"

\* What a single writer has done to the two rows so far.
Mirrored(d) ==
    /\ ~Between(d) => mirror[d].status = row[d]
    /\ job.doc = d /\ job.todo[1] = "-row" => mirror[d].status = "none"
    /\ job.doc = d /\ job.todo[1] = "+chunks" => row[d] = "active"
    /\ \A p \in Writers(d) : at[p] = "chunks" =>
          row[d] = IF mirror[d].status = "none" THEN "none" ELSE patch[p].status

AllMirrored == \A d \in Docs \ mixed : Lone(d) => Mirrored(d)

MirrorInv == GateInv /\ StoreTypes /\ FewBegun /\ AllMirrored

\* Two writers at once are counted.
LEMMA CrossedOrLone ==
    ASSUME FewBegun, NEW d \in Docs, d \notin Crossed
    PROVE  Lone(d)
<1> DEFINE W == Writers(d)
<1>1. W \in SUBSET {p \in Patches : at[p] # "idle"}
    BY DEF Writers, Patching
<1>2. IsFiniteSet(W) /\ Cardinality(W) \in Nat
    BY <1>1, FS_Subset, FS_CardinalityType DEF FewBegun
<1>3. Cardinality(W) + (IF job.doc = d THEN 1 ELSE 0) <= 1
    BY <1>2 DEF Crossed
<1> HIDE DEF W
<1>4. \A p \in W : Cardinality(W) >= 1
  <2> TAKE p \in W
  <2>1. {p} \in SUBSET W /\ Cardinality({p}) = 1
      BY FS_Singleton
  <2> QED BY <1>2, <2>1, FS_Subset
<1>5. \A p, q \in W : p # q => Cardinality(W) >= 2
  <2> SUFFICES ASSUME NEW p \in W, NEW q \in W, p # q PROVE Cardinality(W) >= 2
      OBVIOUS
  <2>1. IsFiniteSet({p}) /\ Cardinality({p}) = 1
      BY FS_Singleton
  <2>2. Cardinality({p} \cup {q}) = 2
      BY <2>1, FS_AddElement
  <2>3. ({p} \cup {q}) \in SUBSET W
      OBVIOUS
  <2> QED BY <1>2, <2>2, <2>3, FS_Subset
<1>6. (\A p, q \in W : p = q) /\ (job.doc = d => W = {})
    BY <1>2, <1>3, <1>4, <1>5
<1> QED BY <1>6 DEF Lone, W

LEMMA InitMirror == Init => MirrorInv
<1> SUFFICES ASSUME Init PROVE MirrorInv
    OBVIOUS
<1>1. StoreTypes
    BY DataAssumption DEF Init, StoreTypes, Idle, Statuses
<1>2. {p \in Patches : at[p] # "idle"} = {}
    BY DEF Init, Requests
<1>3. FewBegun
    BY <1>2, FS_EmptySet DEF FewBegun
<1>4. AllMirrored
    BY DocsAssumption DEF Init, AllMirrored, Mirrored, Between, Writers, Patching, Requests, Idle
<1> QED BY <1>1, <1>3, <1>4, InitGate DEF MirrorInv

\* A step in which at most one request moves begins at most one patch.
LEMMA BegunStep ==
    ASSUME FewBegun, NEW x, \A p \in Patches : p # x => at'[p] = at[p]
    PROVE  FewBegun'
<1> DEFINE S == {p \in Patches : at[p] # "idle"}
           T == {p \in Patches : at'[p] # "idle"}
<1>1. T \in SUBSET (S \cup {x})
    OBVIOUS
<1>2. IsFiniteSet(S)
    BY DEF FewBegun
<1> HIDE DEF S, T
<1>3. IsFiniteSet(S \cup {x})
    BY <1>2, FS_AddElement
<1>4. IsFiniteSet(T)
    BY <1>1, <1>3, FS_Subset
<1> QED BY <1>4 DEF FewBegun, T

\* A step that writes nothing: patches that are at work stay where they are,
\* and others may come to it.
LEMMA NoWrite ==
    ASSUME MirrorInv, GateInv', NEW x, \A p \in Patches : p # x => at'[p] = at[p],
           UNCHANGED <<row, mirror, job, mixed>>,
           \A p \in Patches : /\ Patching(p) => at'[p] = at[p] /\ patch'[p] = patch[p]
                              /\ at'[p] = "chunks" => at[p] = "chunks"
    PROVE  MirrorInv'
<1>1. \A d : Writers(d) \subseteq Writers(d)'
    BY DEF Writers, Patching
<1>2. \A d : \A p \in Writers(d)' : at'[p] = "chunks" => p \in Writers(d) /\ at[p] = "chunks"
                                                          /\ patch'[p] = patch[p]
    BY DEF Writers, Patching
<1>3. \A p \in Patches : at[p] = "chunks" => at'[p] = "chunks"
    BY DEF Patching
<1>4. \A d \in Docs : Lone(d)' => Lone(d)
    BY <1>1 DEF Lone
<1>5. \A d \in Docs : Between(d) <=> Between(d)'
    BY <1>1, <1>2, <1>3 DEF Between, Writers
<1>6. \A d \in Docs : Mirrored(d) => Mirrored(d)'
    BY <1>2, <1>5 DEF Mirrored
<1>7. AllMirrored'
    BY <1>4, <1>6 DEF MirrorInv, AllMirrored
<1>8. FewBegun'
    BY BegunStep DEF MirrorInv
<1> QED BY <1>7, <1>8 DEF MirrorInv, StoreTypes

-----------------------------------------------------------------------------
(* The steps of writers: two at once are on record from here on.            *)

LEMMA GetMirror ==
    ASSUME MirrorInv, GateInv', NEW p \in Patches, GetDocument(p)
    PROVE  MirrorInv'
<1>1. UNCHANGED <<row, mirror, job, patch>> /\ mixed' = mixed \cup Crossed /\ at[p] = "get"
    BY DEF GetDocument, stores
<1>2. at'[p] \in {"missing", "row"} /\ \A q \in Patches : q # p => at'[q] = at[q]
    BY DEF MirrorInv, GateInv, GateTypes, GetDocument, Go, Requests
<1>3. \A d : Writers(d)' \subseteq Writers(d)
    BY <1>1, <1>2 DEF Writers, Patching
<1>4. \A d : \A q \in Patches : q \in Writers(d)' /\ at'[q] = "chunks" <=> q \in Writers(d) /\ at[q] = "chunks"
    BY <1>1, <1>2 DEF Writers, Patching
<1>5. \A d \in Docs : Between(d) <=> Between(d)'
    BY <1>1, <1>4 DEF Between, Writers
<1>6. \A d \in Docs : Mirrored(d) => Mirrored(d)'
    BY <1>1, <1>4, <1>5 DEF Mirrored, Writers
<1>7. AllMirrored'
    BY <1>1, <1>6, CrossedOrLone DEF MirrorInv, AllMirrored
<1>8. FewBegun'
    BY <1>2, BegunStep DEF MirrorInv
<1> QED BY <1>1, <1>7, <1>8 DEF MirrorInv, StoreTypes

LEMMA RowMirror ==
    ASSUME MirrorInv, GateInv', NEW p \in Patches, PatchRow(p)
    PROVE  MirrorInv'
<1> DEFINE d == patch[p].doc
<1>1. /\ UNCHANGED <<mirror, job, patch>> /\ mixed' = mixed \cup Crossed /\ at[p] = "row"
      /\ row' = [row EXCEPT ![d] = IF @ = "none" THEN @ ELSE patch[p].status]
    BY DEF PatchRow
<1>2. at'[p] = "chunks" /\ \A q \in Patches : q # p => at'[q] = at[q]
    BY DEF MirrorInv, GateInv, GateTypes, PatchRow, Go, Requests
<1>3. d \in Docs /\ patch[p].status \in Statuses
    BY DEF MirrorInv, GateInv, GateTypes
<1>4. StoreTypes'
    BY <1>1, <1>3 DEF MirrorInv, StoreTypes
<1>5. \A e : Writers(e)' = Writers(e)
    BY <1>1, <1>2 DEF Writers, Patching
<1>6. p \in Writers(d)
    BY <1>1 DEF Writers, Patching
<1>7. ASSUME NEW e \in Docs \ mixed', Lone(e) PROVE Mirrored(e)'
  <2>1. Mirrored(e)
      BY <1>1, <1>7 DEF MirrorInv, AllMirrored
  <2>2. CASE e # d
    <3>1. p \notin Writers(e)
        BY <2>2 DEF Writers
    <3>2. row'[e] = row[e] /\ mirror' = mirror
        BY <1>1, <2>2 DEF MirrorInv, StoreTypes
    <3>3. \A q \in Writers(e) : at'[q] = at[q]
        BY <1>2, <3>1 DEF Writers
    <3> QED BY <1>1, <1>5, <2>1, <3>2, <3>3 DEF Mirrored, Between
  <2>3. CASE e = d
    <3>1. \A q \in Writers(e) : q = p
        BY <1>6, <1>7, <2>3 DEF Lone
    <3>2. job.doc # e
        BY <1>6, <1>7, <2>3 DEF Lone
    <3>3. mirror[e].status = row[e]
        BY <1>1, <2>1, <3>1, <3>2 DEF Mirrored, Between
    <3>4. row'[e] = IF row[e] = "none" THEN "none" ELSE patch[p].status
        BY <1>1, <1>3, <2>3 DEF MirrorInv, StoreTypes
    <3> QED BY <1>1, <1>2, <1>5, <1>6, <2>3, <3>1, <3>2, <3>3, <3>4 DEF Mirrored, Between
  <2> QED BY <2>2, <2>3
<1>8. AllMirrored'
    BY <1>1, <1>7, CrossedOrLone DEF MirrorInv, AllMirrored
<1>9. FewBegun'
    BY <1>2, BegunStep DEF MirrorInv
<1> QED BY <1>4, <1>8, <1>9 DEF MirrorInv

LEMMA ChunksMirror ==
    ASSUME MirrorInv, GateInv', NEW p \in Patches, PatchChunks(p)
    PROVE  MirrorInv'
<1> DEFINE d == patch[p].doc
<1>1. /\ UNCHANGED <<row, job>> /\ mixed' = mixed \cup Crossed /\ at[p] = "chunks"
      /\ mirror' = [mirror EXCEPT ![d] = IF @.status = "none" THEN @
                                         ELSE [status |-> patch[p].status, quoted |-> TRUE]]
      /\ patch' = [patch EXCEPT ![p] = NoPatch]
    BY DEF PatchChunks
<1>2. at'[p] = "answered" /\ \A q \in Patches : q # p => at'[q] = at[q]
    BY DEF MirrorInv, GateInv, GateTypes, PatchChunks, Go, Requests
<1>3. d \in Docs /\ patch[p].status \in Statuses
    BY DEF MirrorInv, GateInv, GateTypes
<1>4. StoreTypes'
    BY <1>1, <1>3 DEF MirrorInv, StoreTypes
<1>5. \A e : Writers(e)' = Writers(e) \ {p}
    BY <1>1, <1>2 DEF Writers, Patching, MirrorInv, GateInv, GateTypes
<1>6. p \in Writers(d)
    BY <1>1 DEF Writers, Patching
<1>7. ASSUME NEW e \in Docs \ mixed', Lone(e) PROVE Mirrored(e)'
  <2>1. Mirrored(e)
      BY <1>1, <1>7 DEF MirrorInv, AllMirrored
  <2>2. CASE e # d
    <3>1. p \notin Writers(e)
        BY <2>2 DEF Writers
    <3>2. mirror'[e] = mirror[e] /\ row' = row
        BY <1>1, <2>2 DEF MirrorInv, StoreTypes
    <3>3. \A q \in Writers(e) : at'[q] = at[q] /\ patch'[q] = patch[q]
        BY <1>1, <1>2, <3>1 DEF Writers, MirrorInv, GateInv, GateTypes
    <3> QED BY <1>1, <1>5, <2>1, <3>1, <3>2, <3>3 DEF Mirrored, Between
  <2>3. CASE e = d
    <3>1. Writers(e)' = {}
        BY <1>5, <1>6, <1>7, <2>3 DEF Lone
    <3>2. job.doc # e
        BY <1>6, <1>7, <2>3 DEF Lone
    <3>3. row[e] = IF mirror[e].status = "none" THEN "none" ELSE patch[p].status
        BY <1>1, <1>6, <2>1, <2>3 DEF Mirrored
    <3>4. mirror'[e].status = row'[e]
        BY <1>1, <1>3, <2>3, <3>3 DEF MirrorInv, StoreTypes
    <3> QED BY <1>1, <3>1, <3>2, <3>4 DEF Mirrored
  <2> QED BY <2>2, <2>3
<1>8. AllMirrored'
    BY <1>1, <1>7, CrossedOrLone DEF MirrorInv, AllMirrored
<1>9. FewBegun'
    BY <1>2, BegunStep DEF MirrorInv
<1> QED BY <1>4, <1>8, <1>9 DEF MirrorInv

\* The lists of calls are planned, and start away from the two rows.
LEMMA Plans ==
    /\ \A todo \in {Removal, Insertion, Removal \o Insertion} :
          Planned(todo) /\ todo[1] \in {"-vectors", "+vectors"}
    /\ \A todo : Planned(todo) /\ Len(todo) # 1 =>
          /\ Planned(Tail(todo))
          /\ Tail(todo)[1] = "-row" <=> todo[1] = "-chunks"
          /\ Tail(todo)[1] = "+chunks" <=> todo[1] = "+row"
<1>1. Planned(Removal) /\ Removal[1] = "-vectors"
    BY DEF Planned, Removal, Calls
<1>2. Planned(Insertion) /\ Insertion[1] = "+vectors"
    BY DEF Planned, Insertion, Calls
<1>3. /\ Removal \o Insertion \in Seq(Calls) /\ Len(Removal \o Insertion) = 8
      /\ \A i \in 1..4 : (Removal \o Insertion)[i] = Removal[i]
      /\ \A i \in 5..8 : (Removal \o Insertion)[i] = Insertion[i - 4]
  <2>1. Removal \in Seq(Calls) /\ Insertion \in Seq(Calls)
      BY <1>1, <1>2 DEF Planned
  <2>2. Len(Removal) = 4 /\ Len(Insertion) = 4
      BY DEF Removal, Insertion
  <2>3. /\ Removal \o Insertion \in Seq(Calls) /\ Len(Removal \o Insertion) = Len(Removal) + Len(Insertion)
        /\ \A i \in 1..(Len(Removal) + Len(Insertion)) :
              (Removal \o Insertion)[i] = IF i <= Len(Removal) THEN Removal[i]
                                                             ELSE Insertion[i - Len(Removal)]
      BY <2>1, ConcatProperties
  <2> QED BY <2>2, <2>3
<1> DEFINE both == Removal \o Insertion
<1>4. /\ both[1] = "-vectors" /\ both[2] = "-words" /\ both[3] = "-chunks" /\ both[4] = "-row"
      /\ both[5] = "+vectors" /\ both[6] = "+words" /\ both[7] = "+row" /\ both[8] = "+chunks"
    BY <1>3 DEF Removal, Insertion
<1> HIDE DEF both
<1>6. both \in Seq(Calls) /\ Len(both) = 8
    BY <1>3 DEF both
<1>7. Planned(both)
  <2>1. both # <<>>
      BY <1>6
  <2>2. \A i \in 1..7 : /\ both[i] = "-chunks" <=> both[i + 1] = "-row"
                        /\ both[i] = "+row" <=> both[i + 1] = "+chunks"
      BY <1>4
  <2> QED BY <1>4, <1>6, <2>1, <2>2 DEF Planned
<1>5. ASSUME NEW todo, Planned(todo), Len(todo) # 1
      PROVE  /\ Planned(Tail(todo))
             /\ Tail(todo)[1] = "-row" <=> todo[1] = "-chunks"
             /\ Tail(todo)[1] = "+chunks" <=> todo[1] = "+row"
  <2>0. todo \in Seq(Calls) /\ todo # <<>>
      BY <1>5 DEF Planned
  <2>a. Len(todo) \in Nat /\ Len(todo) # 0
      BY <2>0, EmptySeq, LenProperties
  <2>1. todo \in Seq(Calls) /\ Len(todo) \in Nat /\ Len(todo) >= 2
    <3> DEFINE n == Len(todo)
    <3>1. n \in Nat /\ n # 0 /\ n # 1
        BY <1>5, <2>a
    <3> HIDE DEF n
    <3>2. n >= 2
        BY <3>1
    <3> QED BY <2>0, <3>1, <3>2 DEF n
  <2>2. /\ Tail(todo) \in Seq(Calls) /\ Len(Tail(todo)) = Len(todo) - 1
        /\ \A i \in 1..(Len(todo) - 1) : Tail(todo)[i] = todo[i + 1]
      BY <2>1, HeadTailProperties
  <2>3. Len(Tail(todo)) # 0
      BY <2>1, <2>2
  <2>4. Tail(todo) # <<>>
      BY <2>3, EmptySeq
  <2> QED BY <1>5, <2>1, <2>2, <2>4 DEF Planned
<1> QED BY <1>1, <1>2, <1>4, <1>5, <1>7 DEF both

LEMMA StartMirror ==
    ASSUME MirrorInv, GateInv', StartJob
    PROVE  MirrorInv'
<1>1. UNCHANGED <<row, mirror, at, patch, mixed>> /\ job = Idle
    BY DEF StartJob
<1>2. PICK d \in Docs : \E todo \in {Removal, Insertion, Removal \o Insertion} :
                           job' = [doc |-> d, todo |-> todo]
    BY DEF StartJob
<1>3. PICK todo \in {Removal, Insertion, Removal \o Insertion} : job' = [doc |-> d, todo |-> todo]
    BY <1>2
<1>4. Planned(todo) /\ todo[1] \in {"-vectors", "+vectors"}
    BY Plans
<1>5. StoreTypes'
    BY <1>1, <1>3, <1>4 DEF MirrorInv, StoreTypes, Planned
<1>6. \A e : Writers(e)' = Writers(e)
    BY <1>1 DEF Writers, Patching
<1>7. ASSUME NEW e \in Docs \ mixed, Lone(e)' PROVE Mirrored(e)'
  <2>1. job.doc # e
      BY <1>1, DocsAssumption DEF Idle
  <2>2. Mirrored(e)
      BY <1>6, <1>7, <2>1 DEF MirrorInv, AllMirrored, Lone
  <2> QED BY <1>1, <1>3, <1>4, <1>6, <2>1, <2>2 DEF Mirrored, Between
<1>8. AllMirrored'
    BY <1>1, <1>7 DEF AllMirrored
<1>9. FewBegun'
    BY <1>1 DEF MirrorInv, FewBegun
<1> QED BY <1>5, <1>8, <1>9 DEF MirrorInv

LEMMA JobMirror ==
    ASSUME MirrorInv, GateInv', DoJob
    PROVE  MirrorInv'
<1> DEFINE d == job.doc
           op == Head(job.todo)
           none == [status |-> "none", quoted |-> FALSE]
           active == [status |-> "active", quoted |-> FALSE]
<1>1. job \in [doc : Docs, todo : Seq(Calls)] /\ Planned(job.todo) /\ d \in Docs
    BY DEF MirrorInv, StoreTypes, DoJob
<1>2. op = job.todo[1] /\ op \in Calls
    BY <1>1, HeadTailProperties DEF Planned
<1>3. UNCHANGED <<at, patch>> /\ mixed' = mixed \cup Crossed
    BY DEF DoJob
<1>4. job' = IF Len(job.todo) = 1 THEN Idle ELSE [job EXCEPT !.todo = Tail(@)]
    BY DEF DoJob
<1>5. row' = IF op = "-row" THEN [row EXCEPT ![d] = "none"]
             ELSE IF op = "+row" THEN [row EXCEPT ![d] = "active"] ELSE row
    BY DEF DoJob
<1>6. mirror' = IF op = "-chunks" THEN [mirror EXCEPT ![d] = none]
                ELSE IF op = "+chunks" THEN [mirror EXCEPT ![d] = active] ELSE mirror
    BY DEF DoJob
<1>7. /\ Len(job.todo) # 1 => /\ job' = [doc |-> d, todo |-> Tail(job.todo)]
                              /\ Planned(Tail(job.todo))
                              /\ Tail(job.todo)[1] = "-row" <=> op = "-chunks"
                              /\ Tail(job.todo)[1] = "+chunks" <=> op = "+row"
      /\ Len(job.todo) = 1 => job' = Idle /\ op \notin {"-chunks", "+row"}
  <2>1. CASE Len(job.todo) = 1
      BY <1>1, <1>2, <1>4, <2>1 DEF Planned
  <2>2. CASE Len(job.todo) # 1
    <3>1. job' = [doc |-> d, todo |-> Tail(job.todo)]
        BY <1>1, <1>4, <2>2
    <3> QED BY <1>1, <1>2, <2>2, <3>1, Plans
  <2> QED BY <2>1, <2>2
<1> HIDE DEF op
<1>8. StoreTypes'
  <2>1. row' \in [Docs -> Statuses \cup {"none"}]
      BY <1>1, <1>5 DEF MirrorInv, StoreTypes, Statuses
  <2>2. mirror' \in [Docs -> [status : Statuses \cup {"none"}, quoted : BOOLEAN]]
      BY <1>1, <1>6 DEF MirrorInv, StoreTypes, Statuses
  <2>3. job' = Idle \/ (job' \in [doc : Docs, todo : Seq(Calls)] /\ Planned(job'.todo))
    <3>1. CASE Len(job.todo) # 1
      <4>1. Planned(Tail(job.todo)) /\ job' = [doc |-> d, todo |-> Tail(job.todo)]
          BY <1>7, <3>1
      <4>2. Tail(job.todo) \in Seq(Calls)
          BY <4>1 DEF Planned
      <4> QED BY <1>1, <4>1, <4>2
    <3> QED BY <1>7, <3>1
  <2> QED BY <2>1, <2>2, <2>3 DEF StoreTypes
<1>9. \A e : Writers(e)' = Writers(e)
    BY <1>3 DEF Writers, Patching
<1>10. ASSUME NEW e \in Docs \ mixed', Lone(e) PROVE Mirrored(e)'
  <2>1. Mirrored(e)
      BY <1>3, <1>10 DEF MirrorInv, AllMirrored
  <2>2. CASE e # d
    <3>1. row'[e] = row[e] /\ mirror'[e] = mirror[e]
        BY <1>5, <1>6, <2>2 DEF MirrorInv, StoreTypes
    <3>2. job'.doc # e
        BY <1>7, <2>2, DocsAssumption DEF Idle
    <3> QED BY <1>3, <1>9, <2>1, <2>2, <3>1, <3>2 DEF Mirrored, Between
  <2>3. CASE e = d
    <3>1. Writers(e) = {}
        BY <1>10, <2>3 DEF Lone
    <3>2. /\ op \notin {"-row", "+chunks"} => mirror[e].status = row[e]
          /\ op = "-row" => mirror[e].status = "none"
          /\ op = "+chunks" => row[e] = "active"
        BY <1>2, <2>1, <2>3, <3>1 DEF Mirrored, Between
    <3>3. /\ op = "-chunks" => mirror'[e].status = "none" /\ row'[e] = row[e]
          /\ op = "-row" => row'[e] = "none" /\ mirror'[e] = mirror[e]
          /\ op = "+row" => row'[e] = "active" /\ mirror'[e] = mirror[e]
          /\ op = "+chunks" => mirror'[e].status = "active" /\ row'[e] = row[e]
          /\ op \notin {"-chunks", "-row", "+row", "+chunks"} =>
                row'[e] = row[e] /\ mirror'[e] = mirror[e]
        BY <1>5, <1>6, <2>3 DEF MirrorInv, StoreTypes
    <3>4. CASE Len(job.todo) = 1
      <4>1. job'.doc # e /\ mirror'[e].status = row'[e]
          BY <1>7, <3>2, <3>3, <3>4, DocsAssumption DEF Idle
      <4> QED BY <1>9, <3>1, <4>1 DEF Mirrored
    <3>5. CASE Len(job.todo) # 1
      <4>a. job' = [doc |-> d, todo |-> Tail(job.todo)]
          BY <1>7, <3>5
      <4>0. job'.todo = Tail(job.todo)
          BY <4>a
      <4>1. /\ job'.todo[1] = "-row" <=> op = "-chunks"
            /\ job'.todo[1] = "+chunks" <=> op = "+row"
          BY <1>7, <3>5, <4>0
      <4>2. /\ op \notin {"-chunks", "+row"} => mirror'[e].status = row'[e]
            /\ op = "-chunks" => mirror'[e].status = "none"
            /\ op = "+row" => row'[e] = "active"
          BY <3>2, <3>3
      <4>3. job'.doc = e
          BY <1>7, <2>3, <3>5
      <4> QED BY <1>9, <3>1, <4>1, <4>2, <4>3 DEF Mirrored, Between
    <3> QED BY <3>4, <3>5
  <2> QED BY <2>2, <2>3
<1>11. AllMirrored'
    BY <1>3, <1>10, CrossedOrLone DEF MirrorInv, AllMirrored
<1>12. FewBegun'
    BY <1>3 DEF MirrorInv, FewBegun
<1> QED BY <1>8, <1>11, <1>12 DEF MirrorInv

LEMMA NextMirror == MirrorInv /\ [Next]_vars => MirrorInv'
<1> SUFFICES ASSUME MirrorInv, [Next]_vars PROVE MirrorInv'
    OBVIOUS
<1>0. GateInv' /\ GateTypes
    BY NextGate DEF MirrorInv, GateInv
<1> USE ActorAssumption DEF Requests
<1>1. ASSUME NEW r \in Searches,
             \/ BeginSearch(r) \/ Prepare(r) \/ Read(r) \/ Filter(r)
             \/ Rerank(r) \/ Compose(r) \/ Log(r)
      PROVE  MirrorInv'
  <2>1. UNCHANGED <<row, mirror, job, mixed, patch>>
      BY <1>1 DEF BeginSearch, Prepare, Read, Filter, Rerank, Compose, Log, stores, history
  <2>2. \A p \in Patches : at'[p] = at[p]
      BY <1>0, <1>1 DEF GateTypes, BeginSearch, Prepare, Read, Filter, Rerank, Compose, Log, Drop, Go
  <2> QED BY <1>0, <2>1, <2>2, NoWrite
<1>2. ASSUME NEW p \in Patches, BeginPatch(p) \/ Resolve(p) PROVE MirrorInv'
  <2>1. UNCHANGED <<row, mirror, job, mixed>>
      BY <1>2 DEF BeginPatch, Resolve, stores
  <2>2. \A q \in Patches : /\ q # p => at'[q] = at[q] /\ patch'[q] = patch[q]
                           /\ ~Patching(p) /\ at'[p] # "chunks"
      BY <1>0, <1>2 DEF GateTypes, BeginPatch, Resolve, Go, Patching
  <2> QED BY <1>0, <2>1, <2>2, NoWrite
<1>3. ASSUME NEW p \in Patches, GetDocument(p) \/ PatchRow(p) \/ PatchChunks(p) PROVE MirrorInv'
    BY <1>0, <1>3, GetMirror, RowMirror, ChunksMirror
<1>4. ASSUME NEW r \in Requests, ReadRules(r) \/ CheckRules(r) PROVE MirrorInv'
  <2>1. UNCHANGED <<row, mirror, job, mixed, patch>>
      BY <1>4 DEF ReadRules, CheckRules, stores
  <2>2. /\ \A q \in Patches : q # r => at'[q] = at[q]
        /\ at[r] \in {"rules", "check"} /\ at'[r] # "chunks"
      BY <1>0, <1>4 DEF GateTypes, ReadRules, CheckRules, Admit, Leave, Go
  <2> QED BY <1>0, <2>1, <2>2, NoWrite DEF Patching
<1>5. CASE AddRule \/ DeleteRule \/ UNCHANGED vars
  <2>1. UNCHANGED <<row, mirror, job, mixed, patch, at>>
      BY <1>5 DEF AddRule, DeleteRule, vars, stores
  <2> QED BY <1>0, <2>1, NoWrite
<1>6. CASE StartJob
    BY <1>0, <1>6, StartMirror
<1>7. CASE DoJob
    BY <1>0, <1>7, JobMirror
<1> QED BY <1>1, <1>2, <1>3, <1>4, <1>5, <1>6, <1>7 DEF Next

\* For any number of documents, patches and writes: once no request is at work
\* on a document, its chunk rows have the status of its own row, unless two
\* were at work on it at once (patch_document).
THEOREM MirrorCorrect == Spec => []MirrorFollows
<1>1. MirrorInv => MirrorFollows
  <2> SUFFICES ASSUME MirrorInv, NEW d \in Docs \ mixed, Writers(d) = {}, job.doc # d
               PROVE  mirror[d].status = row[d]
      BY DEF MirrorFollows
  <2>1. Lone(d) /\ ~Between(d)
      BY DEF Lone, Between
  <2> QED BY <2>1 DEF MirrorInv, AllMirrored, Mirrored
<1> QED BY <1>1, InitMirror, NextMirror, PTL DEF Spec

-----------------------------------------------------------------------------
(* Orders and lists.  A list in some order is a set whose members have each *)
(* as many before them as their place says.                                 *)

\* A strict order of any two different members of S.
Orders(before, S) ==
    /\ \A x \in S : <<x, x>> \notin before
    /\ \A x, y, z \in S : <<x, y>> \in before /\ <<y, z>> \in before => <<x, z>> \in before
    /\ \A x, y \in S : x # y => <<x, y>> \in before \/ <<y, x>> \in before

LEMMA SequenceIs ==
    ASSUME NEW S, NEW n \in Nat, NEW s \in [1..n -> S]
    PROVE  s \in Seq(S) /\ Len(s) = n /\ DOMAIN s = 1..n /\ AsTuple(s) = s
<1>1. s \in Seq(S) /\ Len(s) = n
    OBVIOUS
<1> QED BY <1>1, SubSeqFull DEF AsTuple

\* A relation that orders the members of a finite set puts each of them in one
\* place of InOrder, the lesser before the greater.
LEMMA InOrderIs ==
    ASSUME NEW S, IsFiniteSet(S), NEW before, Orders(before, S)
    PROVE  /\ Cardinality(S) \in Nat
           /\ InOrder(S, before) \in Seq(S) /\ Len(InOrder(S, before)) = Cardinality(S)
           /\ \A i, j \in 1..Cardinality(S) :
                 i < j => <<InOrder(S, before)[i], InOrder(S, before)[j]>> \in before
           /\ \A x \in S : \E i \in 1..Cardinality(S) : InOrder(S, before)[i] = x
<1> DEFINE n == Cardinality(S)
           Below(x) == {y \in S : <<y, x>> \in before}
           rank == [x \in S |-> Cardinality(Below(x)) + 1]
           order == [i \in 1..n |-> CHOOSE x \in S : Cardinality(Below(x)) = i - 1]
<1>1. n \in Nat
    BY FS_CardinalityType
<1>2. ASSUME NEW x \in S
      PROVE  IsFiniteSet(Below(x)) /\ Cardinality(Below(x)) \in Nat /\ Cardinality(Below(x)) < n
  <2>1. Below(x) \in SUBSET S /\ x \notin Below(x)
      BY DEF Orders
  <2>2. IsFiniteSet(Below(x)) /\ Cardinality(Below(x)) <= n /\ (n = Cardinality(Below(x)) => S = Below(x))
      BY <2>1, FS_Subset
  <2>3. Cardinality(Below(x)) \in Nat
      BY <2>2, FS_CardinalityType
  <2>4. Cardinality(Below(x)) # n
      BY <2>1, <2>2
  <2> QED BY <1>1, <2>2, <2>3, <2>4
<1>3. ASSUME NEW x \in S, NEW y \in S, <<x, y>> \in before
      PROVE  Cardinality(Below(x)) < Cardinality(Below(y))
  <2>1. Below(x) \in SUBSET Below(y) /\ x \in Below(y) /\ x \notin Below(x)
      BY <1>3 DEF Orders
  <2>2. /\ Cardinality(Below(x)) <= Cardinality(Below(y))
        /\ Cardinality(Below(y)) = Cardinality(Below(x)) => Below(y) = Below(x)
      BY <1>2, <2>1, FS_Subset
  <2>3. Cardinality(Below(x)) # Cardinality(Below(y))
      BY <2>1, <2>2
  <2> QED BY <1>2, <2>2, <2>3
<1> HIDE DEF Below
<1>4. \A x, y \in S : Cardinality(Below(x)) = Cardinality(Below(y)) => x = y
  <2> SUFFICES ASSUME NEW x \in S, NEW y \in S, x # y
               PROVE  Cardinality(Below(x)) # Cardinality(Below(y))
      OBVIOUS
  <2>1. <<x, y>> \in before \/ <<y, x>> \in before
      BY DEF Orders
  <2> QED BY <1>2, <1>3, <2>1
<1>5. \A i \in 1..n : \E x \in S : Cardinality(Below(x)) = i - 1
  <2>1. rank \in [S -> 1..n]
      BY <1>1, <1>2
  <2>2. rank \in Injection(S, 1..n)
      BY <1>2, <1>4, <2>1 DEF Injection, IsInjective
  <2>3. IsFiniteSet(1..n) /\ Cardinality(1..n) = n
      BY <1>1, FS_Interval
  <2>4. rank \in Surjection(S, 1..n)
      BY <2>2, <2>3, FS_Injection
  <2>5. \A i \in 1..n : \E x \in S : rank[x] = i
      BY <2>4 DEF Surjection
  <2> QED BY <1>1, <1>2, <2>5
<1>6. \A i \in 1..n : order[i] \in S /\ Cardinality(Below(order[i])) = i - 1
    BY <1>5
<1>7. order \in [1..n -> S]
    BY <1>6
<1> HIDE DEF order
<1>8. InOrder(S, before) = order /\ order \in Seq(S) /\ Len(order) = n
  <2>1. order \in Seq(S) /\ Len(order) = n /\ AsTuple(order) = order
      BY <1>1, <1>7, SequenceIs
  <2>2. InOrder(S, before) = AsTuple(order)
      BY DEF InOrder, Below, order
  <2> QED BY <2>1, <2>2
<1>9. ASSUME NEW i \in 1..n, NEW j \in 1..n, i < j PROVE <<order[i], order[j]>> \in before
  <2>1. Cardinality(Below(order[i])) < Cardinality(Below(order[j]))
      BY <1>1, <1>6, <1>9
  <2>2. order[i] # order[j] /\ <<order[j], order[i]>> \notin before
      BY <1>2, <1>3, <1>6, <2>1
  <2> QED BY <1>6, <2>2 DEF Orders
<1>10. ASSUME NEW x \in S PROVE \E i \in 1..n : order[i] = x
  <2>1. Cardinality(Below(x)) + 1 \in 1..n
      BY <1>1, <1>2
  <2>2. order[Cardinality(Below(x)) + 1] = x
      BY <1>2, <1>4, <1>6, <2>1
  <2> QED BY <2>1, <2>2
<1> QED BY <1>1, <1>8, <1>9, <1>10

\* Two places of InOrder hold different members.
LEMMA InOrderOnce ==
    ASSUME NEW S, IsFiniteSet(S), NEW before, Orders(before, S)
    PROVE  \A i, j \in 1..Cardinality(S) : InOrder(S, before)[i] = InOrder(S, before)[j] => i = j
<1> DEFINE o == InOrder(S, before)
<1>1. /\ Cardinality(S) \in Nat /\ \A i \in 1..Cardinality(S) : o[i] \in S
      /\ \A i, j \in 1..Cardinality(S) : i < j => <<o[i], o[j]>> \in before
    BY InOrderIs
<1> HIDE DEF o
<1>2. \A i, j \in 1..Cardinality(S) : i < j => o[i] # o[j]
    BY <1>1 DEF Orders
<1>3. \A i, j \in 1..Cardinality(S) : o[i] = o[j] => i = j
    BY <1>1, <1>2
<1> QED BY <1>3 DEF o

\* The members of t are those of s at the places P, in their order.
Thinned(t, s, P) ==
    \E o \in Seq(P) : /\ Len(o) = Len(t)
                      /\ \A i \in 1..Len(t) : t[i] = s[o[i]]
                      /\ \A i, j \in 1..Len(t) : i < j => o[i] < o[j]
                      /\ \A p \in P : \E i \in 1..Len(t) : o[i] = p

LEMMA AtIs ==
    ASSUME NEW S, NEW s \in Seq(S), NEW P \in SUBSET (DOMAIN s)
    PROVE  /\ At(s, P) \in Seq(S) /\ Len(At(s, P)) = Cardinality(P)
           /\ Cardinality(P) \in Nat /\ Cardinality(P) <= Len(s)
           /\ Thinned(At(s, P), s, P)
<1> DEFINE before == {p \in P \X P : p[1] < p[2]}
           o == InOrder(P, before)
           a == [i \in 1..Cardinality(P) |-> s[o[i]]]
<1>1. DOMAIN s = 1..Len(s) /\ Len(s) \in Nat
    BY LenProperties
<1>2. IsFiniteSet(P) /\ Cardinality(P) <= Len(s)
  <2> DEFINE m == Len(s)
  <2>1. m \in Nat /\ P \in SUBSET (1..m)
      BY <1>1
  <2> HIDE DEF m
  <2>2. IsFiniteSet(1..m) /\ Cardinality(1..m) = m
      BY <2>1, FS_Interval
  <2>3. IsFiniteSet(P) /\ Cardinality(P) <= m
      BY <2>1, <2>2, FS_Subset
  <2> QED BY <2>3 DEF m
<1>3. Orders(before, P)
    BY <1>1 DEF Orders
<1>4. \A x, y : <<x, y>> \in before => x < y
    OBVIOUS
<1> HIDE DEF before
<1>5. /\ Cardinality(P) \in Nat /\ o \in Seq(P) /\ Len(o) = Cardinality(P)
      /\ \A i, j \in 1..Cardinality(P) : i < j => <<o[i], o[j]>> \in before
      /\ \A p \in P : \E i \in 1..Cardinality(P) : o[i] = p
    BY <1>2, <1>3, InOrderIs
<1>6. At(s, P) = AsTuple(a)
    BY DEF At, before
<1> HIDE DEF o
<1>7. \A i \in 1..Cardinality(P) : o[i] \in P /\ s[o[i]] \in S
  <2>1. \A i \in 1..Cardinality(P) : o[i] \in P
      BY <1>5, ElementOfSeq
  <2> QED BY <1>1, <2>1, ElementOfSeq
<1>8. a \in [1..Cardinality(P) -> S]
    BY <1>7
<1> HIDE DEF a
<1>9. a \in Seq(S) /\ Len(a) = Cardinality(P) /\ AsTuple(a) = a
    BY <1>5, <1>8, SequenceIs
<1>10. At(s, P) = a
    BY <1>6, <1>9
<1>11. \A i \in 1..Cardinality(P) : a[i] = s[o[i]]
    BY DEF a
<1>12. \A i, j \in 1..Cardinality(P) : i < j => o[i] < o[j]
    BY <1>4, <1>5
<1>13. Thinned(a, s, P)
  <2>1. Len(a) = Cardinality(P) /\ o \in Seq(P) /\ Len(o) = Len(a)
      BY <1>5, <1>9
  <2>2. \A p \in P : \E i \in 1..Len(a) : o[i] = p
      BY <1>5, <2>1
  <2>3. \A i \in 1..Len(a) : a[i] = s[o[i]]
      BY <1>11, <2>1
  <2>4. \A i, j \in 1..Len(a) : i < j => o[i] < o[j]
      BY <1>12, <2>1
  <2> QED BY <2>1, <2>2, <2>3, <2>4, Zenon DEF Thinned
<1> QED BY <1>2, <1>5, <1>9, <1>10, <1>13

\* A set of numbers that is not empty has a least one.
LEMMA LeastOne ==
    ASSUME NEW S \in SUBSET Nat, S # {}
    PROVE  Min(S) \in S /\ \A y \in S : Min(S) <= y
<1> DEFINE R == OpToRel(<, Nat)
<1>1. IsWellFoundedOn(R, Nat)
    BY NatLessThanWellFounded
<1>2. \A x, y \in Nat : x < y => <<x, y>> \in R
    BY DEF OpToRel
<1> HIDE DEF R
<1>3. PICK x \in S : \A y \in S : ~(<<y, x>> \in R)
    BY <1>1, WFMin
<1>4. \A y \in S : x \in Nat /\ y \in Nat /\ ~(y < x)
    BY <1>2, <1>3
<1>5. \A y \in S : x <= y
    BY <1>4
<1> QED BY <1>5 DEF Min

LEMMA Smaller == \A a, b \in Int : Min({a, b}) = IF a <= b THEN a ELSE b
BY DEF Min

LEMMA Larger == \A a, b \in Int : Max({a, b}) = IF a >= b THEN a ELSE b
BY DEF Max

\* The first members of a sequence.
LEMMA UptoIs ==
    ASSUME NEW S, NEW s \in Seq(S), NEW n \in Nat
    PROVE  /\ Upto(s, n) \in Seq(S) /\ Len(Upto(s, n)) = (IF n <= Len(s) THEN n ELSE Len(s))
           /\ \A i \in 1..Len(Upto(s, n)) : i \in 1..Len(s) /\ Upto(s, n)[i] = s[i]
<1>1. Len(s) \in Nat /\ \A i \in 1..Len(s) : s[i] \in S
    BY LenProperties, ElementOfSeq
<1> DEFINE m == IF n <= Len(s) THEN n ELSE Len(s)
<1>2. m \in Nat /\ m <= Len(s) /\ Upto(s, n) = SubSeq(s, 1, m)
    BY <1>1, Smaller DEF Upto
<1>3. \A i \in 1..m : i \in 1..Len(s)
    BY <1>1, <1>2
<1>4. \A i \in 1..m : s[i] \in S
    BY <1>1, <1>3
<1> HIDE DEF m
<1>5. /\ SubSeq(s, 1, m) \in Seq(S) /\ Len(SubSeq(s, 1, m)) = IF 1 <= m THEN m - 1 + 1 ELSE 0
      /\ \A i \in 1..(m - 1 + 1) : SubSeq(s, 1, m)[i] = s[1 + i - 1]
    BY <1>2, <1>4, SubSeqProperties
<1>6. Len(SubSeq(s, 1, m)) = m /\ \A i \in 1..m : SubSeq(s, 1, m)[i] = s[i]
    BY <1>2, <1>5
<1> QED BY <1>2, <1>3, <1>5, <1>6 DEF m

\* What is taken at some places comes from those places.
LEMMA AtMembers ==
    ASSUME NEW S, NEW s \in Seq(S), NEW P \in SUBSET (DOMAIN s)
    PROVE  /\ \A i \in 1..Len(At(s, P)) : \E p \in P : At(s, P)[i] = s[p]
           /\ \A p \in P : \E i \in 1..Len(At(s, P)) : At(s, P)[i] = s[p]
<1> DEFINE a == At(s, P)
<1>1. Thinned(a, s, P) /\ a \in Seq(S)
    BY AtIs
<1> HIDE DEF a
<1>2. PICK o \in Seq(P) : /\ Len(o) = Len(a)
                          /\ \A i \in 1..Len(a) : a[i] = s[o[i]]
                          /\ \A i, j \in 1..Len(a) : i < j => o[i] < o[j]
                          /\ \A p \in P : \E i \in 1..Len(a) : o[i] = p
    BY <1>1 DEF Thinned
<1>3. \A i \in 1..Len(a) : o[i] \in P
    BY <1>2, ElementOfSeq
<1>4. \A i \in 1..Len(a) : \E p \in P : a[i] = s[p]
    BY <1>2, <1>3
<1>5. \A p \in P : \E i \in 1..Len(a) : a[i] = s[p]
    BY <1>2
<1> QED BY <1>4, <1>5 DEF a

\* No chunk is in a list of hits twice.
Once(hits) == \A i, j \in 1..Len(hits) : hits[i].chunk = hits[j].chunk => i = j

LEMMA AtOnce ==
    ASSUME NEW S, NEW s \in Seq(S), NEW P \in SUBSET (DOMAIN s), Once(s)
    PROVE  Once(At(s, P))
<1> DEFINE a == At(s, P)
<1>1. Thinned(a, s, P) /\ a \in Seq(S)
    BY AtIs
<1>2. DOMAIN s = 1..Len(s) /\ Len(s) \in Nat
    BY LenProperties
<1> HIDE DEF a
<1>3. PICK o \in Seq(P) : /\ Len(o) = Len(a)
                          /\ \A i \in 1..Len(a) : a[i] = s[o[i]]
                          /\ \A i, j \in 1..Len(a) : i < j => o[i] < o[j]
                          /\ \A p \in P : \E i \in 1..Len(a) : o[i] = p
    BY <1>1 DEF Thinned
<1>4. \A i \in 1..Len(a) : o[i] \in 1..Len(s)
    BY <1>2, <1>3, ElementOfSeq
<1>5. Len(a) \in Nat
    BY <1>1, LenProperties
<1>7. \A i, j \in 1..Len(a) : i < j => o[i] # o[j]
  <2>1. \A i \in 1..Len(a) : o[i] \in Int
      BY <1>2, <1>4
  <2>2. ASSUME NEW i \in 1..Len(a), NEW j \in 1..Len(a), i < j PROVE o[i] # o[j]
    <3>1. o[i] < o[j] /\ o[i] \in Int /\ o[j] \in Int
        BY <1>3, <2>1, <2>2
    <3> QED BY <3>1
  <2> QED BY <2>2
<1>6. ASSUME NEW i \in 1..Len(a), NEW j \in 1..Len(a), a[i].chunk = a[j].chunk PROVE i = j
  <2>1. s[o[i]].chunk = s[o[j]].chunk
      BY <1>3, <1>6
  <2>2. o[i] = o[j]
      BY <1>4, <2>1 DEF Once
  <2>3. ~(i < j) /\ ~(j < i)
      BY <1>7, <2>2
  <2> QED BY <1>5, <2>3
<1> QED BY <1>6 DEF Once, a

LEMMA UptoOnce ==
    ASSUME NEW S, NEW s \in Seq(S), NEW n \in Nat, Once(s)
    PROVE  Once(Upto(s, n))
BY UptoIs DEF Once

\* The nearer chunk comes first.
Sorted(hits, q) == \A i, j \in 1..Len(hits) :
                      i < j => Nearness[q][hits[i].chunk] > Nearness[q][hits[j].chunk]

LEMMA AtSorted ==
    ASSUME NEW S, NEW s \in Seq(S), NEW P \in SUBSET (DOMAIN s), NEW q, Sorted(s, q)
    PROVE  Sorted(At(s, P), q)
<1> DEFINE a == At(s, P)
<1>1. Thinned(a, s, P) /\ a \in Seq(S)
    BY AtIs
<1>2. DOMAIN s = 1..Len(s) /\ Len(s) \in Nat
    BY LenProperties
<1> HIDE DEF a
<1>3. PICK o \in Seq(P) : /\ Len(o) = Len(a)
                          /\ \A i \in 1..Len(a) : a[i] = s[o[i]]
                          /\ \A i, j \in 1..Len(a) : i < j => o[i] < o[j]
                          /\ \A p \in P : \E i \in 1..Len(a) : o[i] = p
    BY <1>1 DEF Thinned
<1>4. \A i \in 1..Len(a) : o[i] \in 1..Len(s)
    BY <1>2, <1>3, ElementOfSeq
<1>5. ASSUME NEW i \in 1..Len(a), NEW j \in 1..Len(a), i < j
      PROVE  Nearness[q][a[i].chunk] > Nearness[q][a[j].chunk]
  <2>1. o[i] < o[j] /\ a[i] = s[o[i]] /\ a[j] = s[o[j]]
      BY <1>3, <1>5
  <2> QED BY <1>4, <2>1 DEF Sorted
<1> QED BY <1>5 DEF Sorted, a

\* The hits of the n chunks of S with the highest scores: a chunk that is left
\* out has no higher score than one that is in, and none is left out of a list
\* that is long enough.
Foremost(best, S, score, full, n) ==
    /\ best \in Seq(Hit) /\ Once(best)
    /\ Len(best) = (IF n <= Cardinality(S) THEN n ELSE Cardinality(S))
    /\ \A i \in 1..Len(best) : /\ best[i].chunk \in S
                               /\ best[i].full = full
                               /\ best[i].score = score[best[i].chunk]
    /\ \A i, j \in 1..Len(best) : i < j => score[best[i].chunk] > score[best[j].chunk]
    /\ \A i \in 1..Len(best), c \in S : score[c] > score[best[i].chunk] =>
          \E j \in 1..Len(best) : best[j].chunk = c
    /\ n >= Cardinality(S) => \A c \in S : \E j \in 1..Len(best) : best[j].chunk = c

LEMMA BestIs ==
    ASSUME NEW S \in SUBSET Chunks, NEW score, NEW full \in BOOLEAN, NEW n \in Nat,
           \A c \in S : score[c] \in Nat,
           \A b, c \in S : b # c => score[b] # score[c]
    PROVE  /\ IsFiniteSet(S) /\ Cardinality(S) \in Nat
           /\ Foremost(Best(S, score, full, n), S, score, full, n)
<1> DEFINE before == {p \in S \X S : score[p[1]] > score[p[2]]}
           o == InOrder(S, before)
           m == Cardinality(S)
           all == [i \in 1..m |-> [chunk |-> o[i], full |-> full, score |-> score[o[i]]]]
           best == Best(S, score, full, n)
<1>1. IsFiniteSet(S)
    BY FS_Subset, DataAssumption
<1>2. Orders(before, S)
  <2>1. \A x, y \in S : <<x, y>> \in before <=> score[x] > score[y]
      OBVIOUS
  <2> HIDE DEF before
  <2> QED BY <2>1 DEF Orders
<1>3. \A x, y : <<x, y>> \in before => score[x] > score[y]
    OBVIOUS
<1> HIDE DEF before
<1>4. /\ m \in Nat /\ o \in Seq(S) /\ Len(o) = m
      /\ \A i, j \in 1..m : i < j => <<o[i], o[j]>> \in before
      /\ \A x \in S : \E i \in 1..m : o[i] = x
    BY <1>1, <1>2, InOrderIs
<1>5. best = Upto(all, n)
    BY DEF Best, before
<1> HIDE DEF o, best, m
<1>6. \A i \in 1..m : o[i] \in S /\ score[o[i]] \in Nat
  <2>1. \A i \in 1..m : o[i] \in S
      BY <1>4, ElementOfSeq
  <2> QED BY <2>1
<1>7. all \in [1..m -> Hit]
    BY <1>6 DEF Hit
<1>8. \A i \in 1..m : all[i].chunk = o[i] /\ all[i].full = full /\ all[i].score = score[o[i]]
    OBVIOUS
<1>9. \A i, j \in 1..m : i < j => score[o[i]] > score[o[j]]
    BY <1>3, <1>4
<1> HIDE DEF all
<1>10. all \in Seq(Hit) /\ Len(all) = m
    BY <1>4, <1>7, SequenceIs
<1>11. /\ best \in Seq(Hit) /\ Len(best) = IF n <= m THEN n ELSE m
       /\ \A i \in 1..Len(best) : i \in 1..m /\ best[i] = all[i]
    BY <1>5, <1>10, UptoIs
<1>12. \A i \in 1..Len(best) : /\ best[i].chunk = o[i] /\ best[i].chunk \in S
                               /\ best[i].full = full
                               /\ best[i].score = score[best[i].chunk]
    BY <1>6, <1>8, <1>11
<1>13. \A i, j \in 1..Len(best) : i < j => score[best[i].chunk] > score[best[j].chunk]
    BY <1>9, <1>11, <1>12
<1>14. Once(best)
  <2>1. ASSUME NEW i \in 1..Len(best), NEW j \in 1..Len(best), i < j
        PROVE  best[i].chunk # best[j].chunk
    <3>1. /\ score[best[i].chunk] > score[best[j].chunk]
          /\ score[best[i].chunk] \in Nat /\ score[best[j].chunk] \in Nat
        BY <1>12, <1>13, <2>1
    <3> QED BY <3>1
  <2>2. \A i \in 1..Len(best) : i \in Int
      BY <1>4, <1>11
  <2>3. \A i, j \in 1..Len(best) : best[i].chunk = best[j].chunk => ~(i < j) /\ ~(j < i)
      BY <2>1
  <2> QED BY <2>2, <2>3 DEF Once
<1>15. ASSUME NEW i \in 1..Len(best), NEW c \in S, score[c] > score[best[i].chunk]
       PROVE  \E j \in 1..Len(best) : best[j].chunk = c
  <2>1. PICK j \in 1..m : o[j] = c
      BY <1>4
  <2>2. score[o[j]] > score[o[i]] /\ i \in 1..m
      BY <1>11, <1>12, <1>15, <2>1
  <2>3. ~(i < j) /\ i # j
    <3>1. score[o[j]] \in Nat /\ score[o[i]] \in Nat
        BY <1>6, <2>2
    <3> QED BY <1>9, <2>2, <3>1
  <2>4. j \in 1..Len(best)
      BY <1>4, <1>11, <2>2, <2>3
  <2> QED BY <1>12, <2>1, <2>4
<1>16. ASSUME n >= m, NEW c \in S PROVE \E j \in 1..Len(best) : best[j].chunk = c
  <2>1. Len(best) = m
      BY <1>4, <1>11, <1>16
  <2>2. PICK j \in 1..m : o[j] = c
      BY <1>4
  <2> QED BY <1>12, <2>1, <2>2
<1>17. Foremost(best, S, score, full, n)
    BY <1>11, <1>12, <1>13, <1>14, <1>15, <1>16 DEF Foremost, m
<1> QED BY <1>1, <1>4, <1>17 DEF best, m

\* A chunk that is in a list of hits has a first place in it.
LEMMA PlaceIs ==
    ASSUME NEW hits \in Seq(Hit)
    PROVE  /\ \A c : Place(hits, c) \in Nat
           /\ \A c \in ChunksOf(hits) : /\ Place(hits, c) \in DOMAIN hits
                                        /\ hits[Place(hits, c)].chunk = c
<1>1. DOMAIN hits = 1..Len(hits) /\ Len(hits) \in Nat
    BY LenProperties
<1>2. \A c : Places(hits, c) \in SUBSET Nat
    BY <1>1 DEF Places
<1>3. \A c : Places(hits, c) # {} => Min(Places(hits, c)) \in Places(hits, c)
    BY <1>2, LeastOne
<1>4. \A c : Place(hits, c) \in Nat
    BY <1>2, <1>3 DEF Place
<1>5. \A c \in ChunksOf(hits) : Places(hits, c) # {}
    BY DEF ChunksOf, Places
<1>6. \A c \in ChunksOf(hits) : Place(hits, c) \in Places(hits, c)
    BY <1>3, <1>5 DEF Place
<1> QED BY <1>4, <1>6 DEF Places

\* The chunks of a list of hits.
LEMMA ChunksIn ==
    ASSUME NEW hits \in Seq(Hit)
    PROVE  IsFiniteSet(ChunksOf(hits)) /\ ChunksOf(hits) \in SUBSET Chunks
<1>1. DOMAIN hits = 1..Len(hits)
    BY LenProperties
<1>2. \A i \in DOMAIN hits : hits[i] \in Hit
    BY <1>1, ElementOfSeq
<1>3. ChunksOf(hits) \in SUBSET Chunks
    BY <1>2 DEF ChunksOf, Hit
<1> QED BY <1>3, FS_Subset, DataAssumption

\* Entries of different chunks of the hits are ordered by their scores and the
\* first places of their chunks.
LEMMA RankedIs ==
    ASSUME NEW hits \in Seq(Hit), NEW E \in SUBSET Hit,
           \A e \in E : e.chunk \in ChunksOf(hits),
           \A e, f \in E : e.chunk = f.chunk => e = f
    PROVE  /\ Ranked(E, hits) \in Seq(E)
           /\ Once(Ranked(E, hits))
<1> DEFINE before == {p \in E \X E :
                         \/ p[1].score > p[2].score
                         \/ /\ p[1].score = p[2].score
                            /\ Place(hits, p[1].chunk) < Place(hits, p[2].chunk)}
           o == InOrder(E, before)
           place == [e \in E |-> Place(hits, e.chunk)]
           score == [e \in E |-> e.score]
<1>1. IsFiniteSet(E)
  <2> DEFINE chunk == [e \in E |-> e.chunk]
  <2>1. chunk \in Injection(E, ChunksOf(hits))
      BY DEF Injection, IsInjective
  <2>2. IsFiniteSet(ChunksOf(hits))
      BY ChunksIn
  <2> HIDE DEF chunk
  <2> QED BY <2>1, <2>2, FS_Injection
<1>2. place \in [E -> Nat] /\ score \in [E -> Nat]
    BY PlaceIs DEF Hit
<1>3. \A e, f \in E : place[e] = place[f] => e = f
  <2>1. \A e \in E : hits[place[e]].chunk = e.chunk
      BY PlaceIs
  <2> QED BY <2>1
<1>4. \A e, f \in E : <<e, f>> \in before <=>
          score[e] > score[f] \/ (score[e] = score[f] /\ place[e] < place[f])
    OBVIOUS
<1>5. Ranked(E, hits) = o
    BY DEF Ranked
<1> HIDE DEF before, place, score
<1>6. Orders(before, E)
  <2>1. \A e \in E : place[e] \in Nat /\ score[e] \in Nat
      BY <1>2
  <2>2. \A e \in E : <<e, e>> \notin before
      BY <1>4, <2>1
  <2>3. \A e, f, g \in E : <<e, f>> \in before /\ <<f, g>> \in before => <<e, g>> \in before
      BY <1>4, <2>1
  <2>4. \A e, f \in E : e # f => <<e, f>> \in before \/ <<f, e>> \in before
      BY <1>3, <1>4, <2>1
  <2> QED BY <2>2, <2>3, <2>4 DEF Orders
<1>7. /\ Cardinality(E) \in Nat /\ o \in Seq(E) /\ Len(o) = Cardinality(E)
      /\ \A i, j \in 1..Cardinality(E) : o[i] = o[j] => i = j
    BY <1>1, <1>6, InOrderIs, InOrderOnce
<1> HIDE DEF o
<1>8. \A i \in 1..Len(o) : o[i] \in E
    BY <1>7, ElementOfSeq
<1>9. Once(o)
    BY <1>7, <1>8 DEF Once
<1> QED BY <1>5, <1>7, <1>9

\* Hits that no chunk is in twice, of the chunks of C.
Page(hits, C) == hits \in Seq(Hit) /\ Once(hits) /\ ChunksOf(hits) \in SUBSET C

LEMMA MemberChunks ==
    ASSUME NEW hits \in Seq(Hit), NEW C, \A i \in 1..Len(hits) : hits[i].chunk \in C
    PROVE  ChunksOf(hits) \in SUBSET C
<1>1. DOMAIN hits = 1..Len(hits)
    BY LenProperties
<1> QED BY <1>1 DEF ChunksOf

LEMMA ShareIs == \A p \in Nat : Share(p) \in Nat
<1> SUFFICES ASSUME NEW p \in Nat, p # 0 PROVE Unit \div (60 + p) \in Nat
    BY DEF Share
<1> DEFINE d == 60 + p
<1>1. d \in Nat /\ d > 0
    OBVIOUS
<1> HIDE DEF d
<1>2. 10000000 \div d \in Nat
    BY <1>1
<1> QED BY <1>2 DEF Unit, d

\* The page of entries that a list of hits is ranked to.
LEMMA RankedPage ==
    ASSUME NEW hits \in Seq(Hit), NEW n \in Nat, NEW E \in SUBSET Hit,
           \A e \in E : e.chunk \in ChunksOf(hits),
           \A e, f \in E : e.chunk = f.chunk => e = f
    PROVE  Page(Upto(Ranked(E, hits), n), ChunksOf(hits)) /\ Len(Upto(Ranked(E, hits), n)) <= n
<1> DEFINE k == Ranked(E, hits)
<1>1. k \in Seq(E) /\ Once(k)
    BY RankedIs
<1> HIDE DEF k
<1>2. /\ Upto(k, n) \in Seq(E) /\ Once(Upto(k, n))
      /\ Len(Upto(k, n)) = (IF n <= Len(k) THEN n ELSE Len(k)) /\ Len(k) \in Nat
    BY <1>1, UptoIs, UptoOnce, LenProperties
<1>3. Upto(k, n) \in Seq(Hit)
    BY <1>2, SeqMonotonic
<1>4. \A i \in 1..Len(Upto(k, n)) : Upto(k, n)[i].chunk \in ChunksOf(hits)
  <2>1. \A i \in 1..Len(Upto(k, n)) : Upto(k, n)[i] \in E
      BY <1>2, ElementOfSeq
  <2> QED BY <2>1
<1>5. ChunksOf(Upto(k, n)) \in SUBSET ChunksOf(hits)
    BY <1>3, <1>4, MemberChunks
<1> QED BY <1>2, <1>3, <1>5 DEF Page, k

LEMMA FusedIs ==
    ASSUME NEW near \in Seq(Hit), NEW matching \in Seq(Hit), NEW n \in Nat
    PROVE  /\ Page(Fused(near, matching, n), ChunksOf(near) \cup ChunksOf(matching))
           /\ Len(Fused(near, matching, n)) <= n
<1> DEFINE all == near \o matching
           entry(c) == [all[Place(all, c)] EXCEPT
                           !.score = Share(Place(near, c)) + Share(Place(matching, c))]
           E == {entry(c) : c \in ChunksOf(all)}
<1>1. /\ all \in Seq(Hit) /\ Len(all) = Len(near) + Len(matching)
      /\ \A i \in 1..(Len(near) + Len(matching)) :
            all[i] = IF i <= Len(near) THEN near[i] ELSE matching[i - Len(near)]
    BY ConcatProperties
<1>2. Fused(near, matching, n) = Upto(Ranked(E, all), n)
    BY DEF Fused
<1>3. ChunksOf(all) \in SUBSET (ChunksOf(near) \cup ChunksOf(matching))
  <2>1. DOMAIN near = 1..Len(near) /\ DOMAIN matching = 1..Len(matching)
        /\ Len(near) \in Nat /\ Len(matching) \in Nat
      BY LenProperties
  <2> HIDE DEF all
  <2>2. ASSUME NEW i \in 1..Len(all) PROVE all[i].chunk \in ChunksOf(near) \cup ChunksOf(matching)
    <3>1. CASE i <= Len(near)
      <4>1. i \in DOMAIN near /\ all[i] = near[i]
          BY <1>1, <2>1, <3>1
      <4> QED BY <4>1 DEF ChunksOf
    <3>2. CASE ~(i <= Len(near))
      <4>1. i - Len(near) \in DOMAIN matching /\ all[i] = matching[i - Len(near)]
          BY <1>1, <2>1, <3>2
      <4> QED BY <4>1 DEF ChunksOf
    <3> QED BY <3>1, <3>2
  <2> QED BY <1>1, <2>2, MemberChunks
<1> HIDE DEF all
<1>4. \A c \in ChunksOf(all) : entry(c) \in Hit /\ entry(c).chunk = c
  <2> TAKE c \in ChunksOf(all)
  <2>1. Place(all, c) \in 1..Len(all) /\ all[Place(all, c)].chunk = c
      BY <1>1, PlaceIs, LenProperties
  <2>2. all[Place(all, c)] \in Hit
      BY <1>1, <2>1, ElementOfSeq
  <2>3. Share(Place(near, c)) \in Nat /\ Share(Place(matching, c)) \in Nat
      BY PlaceIs, ShareIs
  <2>4. Share(Place(near, c)) + Share(Place(matching, c)) \in Nat
      BY <2>3
  <2> QED BY <2>1, <2>2, <2>4 DEF Hit
<1>5. /\ E \in SUBSET Hit /\ \A e \in E : e.chunk \in ChunksOf(all)
      /\ \A e, f \in E : e.chunk = f.chunk => e = f
    BY <1>4
<1> HIDE DEF E
<1>6. /\ Page(Upto(Ranked(E, all), n), ChunksOf(all))
      /\ Len(Upto(Ranked(E, all), n)) <= n
    BY <1>1, <1>5, RankedPage
<1> QED BY <1>2, <1>3, <1>6 DEF Page

\* Among the places of a chunk there is one with its best score.
LEMMA BestPlaceIs ==
    ASSUME NEW all \in Seq(Hit), NEW c \in ChunksOf(all)
    PROVE  Min(BestPlaces(all, c)) \in Places(all, c)
<1> DEFINE P == Places(all, c)
           Above(i) == {j \in P : all[j].score > all[i].score}
           counts == {Cardinality(Above(i)) : i \in P}
<1>1. DOMAIN all = 1..Len(all) /\ Len(all) \in Nat
    BY LenProperties
<1>2. P \in SUBSET (1..Len(all)) /\ P # {} /\ P \in SUBSET Nat
    BY <1>1 DEF Places, ChunksOf
<1>3. \A i \in P : all[i].score \in Nat
  <2>1. \A i \in P : all[i] \in Hit
      BY <1>2, ElementOfSeq
  <2> QED BY <2>1 DEF Hit
<1>4. IsFiniteSet(P)
  <2> DEFINE n == Len(all)
  <2>1. n \in Nat /\ P \in SUBSET (1..n)
      BY <1>1, <1>2
  <2> HIDE DEF n, P
  <2>2. IsFiniteSet(1..n)
      BY <2>1, FS_Interval
  <2> QED BY <2>1, <2>2, FS_Subset
<1> HIDE DEF P
<1>5. \A i \in P : Above(i) \in SUBSET P
    OBVIOUS
<1>6. \A i \in P : IsFiniteSet(Above(i)) /\ Cardinality(Above(i)) \in Nat
  <2> TAKE i \in P
  <2>1. IsFiniteSet(Above(i))
      BY <1>4, <1>5, FS_Subset
  <2> QED BY <2>1, FS_CardinalityType
<1>7. ASSUME NEW i \in P, NEW j \in P, all[j].score > all[i].score
      PROVE  Cardinality(Above(j)) < Cardinality(Above(i))
  <2>1. Above(j) \in SUBSET Above(i) /\ j \in Above(i) /\ j \notin Above(j)
      BY <1>3, <1>7
  <2> HIDE DEF Above
  <2>2. /\ Cardinality(Above(j)) <= Cardinality(Above(i))
        /\ Cardinality(Above(i)) = Cardinality(Above(j)) => Above(i) = Above(j)
      BY <1>6, <2>1, FS_Subset
  <2>3. Cardinality(Above(j)) # Cardinality(Above(i))
      BY <2>1, <2>2
  <2> QED BY <1>6, <2>2, <2>3
<1> HIDE DEF Above
<1>8. counts \in SUBSET Nat /\ counts # {}
    BY <1>2, <1>6
<1>9. Min(counts) \in counts /\ \A k \in counts : Min(counts) <= k
    BY <1>8, LeastOne
<1>10. PICK i \in P : Cardinality(Above(i)) = Min(counts)
    BY <1>9
<1>11. \A j \in P : Cardinality(Above(i)) <= Cardinality(Above(j))
    BY <1>9, <1>10
<1>12. \A j \in P : all[j].score <= all[i].score
  <2> TAKE j \in P
  <2>1. ~(Cardinality(Above(j)) < Cardinality(Above(i)))
      BY <1>6, <1>11
  <2>2. ~(all[j].score > all[i].score)
      BY <1>7, <2>1
  <2> QED BY <1>3, <2>2
<1>13. i \in BestPlaces(all, c) /\ BestPlaces(all, c) \in SUBSET P
    BY <1>12 DEF BestPlaces, P
<1>14. Min(BestPlaces(all, c)) \in BestPlaces(all, c)
  <2>1. BestPlaces(all, c) \in SUBSET Nat /\ BestPlaces(all, c) # {}
      BY <1>2, <1>13
  <2> QED BY <2>1, LeastOne
<1> QED BY <1>13, <1>14 DEF P

LEMMA MergedIs ==
    ASSUME NEW all \in Seq(Hit), NEW n \in Nat
    PROVE  Page(Merged(all, n), ChunksOf(all)) /\ Len(Merged(all, n)) <= n
<1> DEFINE entry(c) == all[Min(BestPlaces(all, c))]
           E == {entry(c) : c \in ChunksOf(all)}
<1>1. \A c \in ChunksOf(all) : entry(c) \in Hit /\ entry(c).chunk = c
  <2> TAKE c \in ChunksOf(all)
  <2>1. Min(BestPlaces(all, c)) \in Places(all, c)
      BY BestPlaceIs
  <2>2. Min(BestPlaces(all, c)) \in 1..Len(all) /\ entry(c).chunk = c
      BY <2>1, LenProperties DEF Places
  <2> QED BY <2>2, ElementOfSeq
<1>2. /\ E \in SUBSET Hit /\ \A e \in E : e.chunk \in ChunksOf(all)
      /\ \A e, f \in E : e.chunk = f.chunk => e = f
    BY <1>1
<1>3. Merged(all, n) = Upto(Ranked(E, all), n)
    BY DEF Merged
<1> HIDE DEF E
<1> QED BY <1>2, <1>3, RankedPage

\* What the lists of ls hold is what they hold together.
LEMMA JoinedIs ==
    ASSUME NEW ls \in Seq(Seq(Hit)), NEW C, \A l \in 1..Len(ls) : ChunksOf(ls[l]) \in SUBSET C
    PROVE  Joined(ls) \in Seq(Hit) /\ ChunksOf(Joined(ls)) \in SUBSET C
<1> DEFINE part == [l \in DOMAIN ls |-> {l} \X DOMAIN ls[l]]
           P == UNION {{l} \X DOMAIN ls[l] : l \in DOMAIN ls}
           before == {p \in P \X P : \/ p[1][1] < p[2][1]
                                     \/ p[1][1] = p[2][1] /\ p[1][2] < p[2][2]}
           o == InOrder(P, before)
           n == Cardinality(P)
           j == [i \in 1..n |-> ls[o[i][1]][o[i][2]]]
<1>1. DOMAIN ls = 1..Len(ls) /\ Len(ls) \in Nat
    BY LenProperties
<1>2. \A l \in DOMAIN ls : /\ ls[l] \in Seq(Hit)
                           /\ DOMAIN ls[l] = 1..Len(ls[l]) /\ Len(ls[l]) \in Nat
  <2>1. \A l \in DOMAIN ls : ls[l] \in Seq(Hit)
      BY <1>1, ElementOfSeq
  <2> QED BY <2>1, LenProperties
<1>3. \A p \in P : /\ p[1] \in DOMAIN ls /\ p[2] \in DOMAIN ls[p[1]] /\ p = <<p[1], p[2]>>
                   /\ p[1] \in Nat /\ p[2] \in Nat
    BY <1>1, <1>2
<1>4. IsFiniteSet(P)
  <2> DEFINE parts == {{l} \X DOMAIN ls[l] : l \in DOMAIN ls}
  <2>1. part \in Surjection(DOMAIN ls, parts)
      BY DEF Surjection
  <2>2. IsFiniteSet(DOMAIN ls)
    <3> DEFINE m == Len(ls)
    <3>1. m \in Nat /\ DOMAIN ls = 1..m
        BY <1>1
    <3> HIDE DEF m
    <3> QED BY <3>1, FS_Interval
  <2>3. IsFiniteSet(parts)
    <3> HIDE DEF part, parts
    <3> QED BY <2>1, <2>2, FS_Surjection
  <2>4. \A l \in DOMAIN ls : IsFiniteSet({l} \X DOMAIN ls[l])
    <3> TAKE l \in DOMAIN ls
    <3> DEFINE m == Len(ls[l])
               D == DOMAIN ls[l]
    <3>1. m \in Nat /\ D = 1..m
        BY <1>2
    <3> HIDE DEF m
    <3> HIDE DEF D
    <3>4. IsFiniteSet(1..m)
        BY <3>1, FS_Interval
    <3>2. IsFiniteSet(D) /\ IsFiniteSet({l})
        BY <3>1, <3>4, FS_Singleton
    <3>3. IsFiniteSet({l} \X D)
        BY <3>2, FS_Product
    <3> QED BY <3>3 DEF D
  <2>5. \A T \in parts : IsFiniteSet(T)
      BY <2>4
  <2>6. P = UNION parts
      OBVIOUS
  <2> HIDE DEF parts, P
  <2> QED BY <2>3, <2>5, <2>6, FS_UNION
<1>5. Joined(ls) = AsTuple(j)
    BY DEF Joined
<1> HIDE DEF P
<1> DEFINE list == [p \in P |-> p[1]]
           place == [p \in P |-> p[2]]
<1>6. \A p \in P : list[p] = p[1] /\ place[p] = p[2]
    OBVIOUS
<1>14. \A p \in P : list[p] \in Nat /\ place[p] \in Nat
    BY <1>3, <1>6
<1>15. \A p, q \in P : list[p] = list[q] /\ place[p] = place[q] => p = q
  <2> SUFFICES ASSUME NEW p \in P, NEW q \in P, p[1] = q[1], p[2] = q[2] PROVE p = q
      BY <1>6
  <2>1. p = <<p[1], p[2]>> /\ q = <<q[1], q[2]>>
      BY <1>3
  <2> QED BY <2>1
<1>16. \A p, q \in P : <<p, q>> \in before <=>
            list[p] < list[q] \/ (list[p] = list[q] /\ place[p] < place[q])
  <2>1. \A p, q \in P : <<p, q>> \in before <=>
            p[1] < q[1] \/ (p[1] = q[1] /\ p[2] < q[2])
      OBVIOUS
  <2> HIDE DEF before, list, place
  <2> QED BY <1>6, <2>1
<1> HIDE DEF before, list, place
<1>7. Orders(before, P)
  <2>2. \A p \in P : <<p, p>> \notin before
      BY <1>14, <1>16
  <2>3. ASSUME NEW p \in P, NEW q \in P, NEW r \in P, <<p, q>> \in before, <<q, r>> \in before
        PROVE  <<p, r>> \in before
    <3>1. /\ list[p] \in Nat /\ list[q] \in Nat /\ list[r] \in Nat
          /\ place[p] \in Nat /\ place[q] \in Nat /\ place[r] \in Nat
        BY <1>14
    <3>2. /\ list[p] < list[q] \/ (list[p] = list[q] /\ place[p] < place[q])
          /\ list[q] < list[r] \/ (list[q] = list[r] /\ place[q] < place[r])
        BY <1>16, <2>3
    <3>3. list[p] < list[r] \/ (list[p] = list[r] /\ place[p] < place[r])
        BY <3>1, <3>2
    <3> QED BY <1>16, <3>3
  <2>4. \A p, q \in P : p # q => <<p, q>> \in before \/ <<q, p>> \in before
      BY <1>14, <1>15, <1>16
  <2> QED BY <2>2, <2>3, <2>4 DEF Orders
<1>8. n \in Nat /\ o \in Seq(P) /\ Len(o) = n
    BY <1>4, <1>7, InOrderIs
<1> HIDE DEF o, n
<1>9. \A i \in 1..n : /\ o[i][1] \in DOMAIN ls /\ o[i][2] \in DOMAIN ls[o[i][1]]
                      /\ j[i] = ls[o[i][1]][o[i][2]]
  <2>1. \A i \in 1..n : o[i] \in P
      BY <1>8, ElementOfSeq
  <2> QED BY <1>3, <2>1
<1>10. \A i \in 1..n : j[i] \in Hit /\ j[i].chunk \in C
  <2> TAKE i \in 1..n
  <2> DEFINE l == o[i][1]
             k == o[i][2]
  <2>1. l \in 1..Len(ls) /\ ls[l] \in Seq(Hit) /\ k \in 1..Len(ls[l]) /\ k \in DOMAIN ls[l]
      BY <1>1, <1>2, <1>9
  <2>2. j[i] = ls[l][k]
      BY <1>9
  <2> HIDE DEF l, k
  <2>3. ls[l][k] \in Hit
      BY <2>1, ElementOfSeq
  <2>4. ls[l][k].chunk \in ChunksOf(ls[l])
      BY <2>1 DEF ChunksOf
  <2> QED BY <2>1, <2>2, <2>3, <2>4
<1>11. j \in [1..n -> Hit]
    BY <1>10
<1> HIDE DEF j
<1>12. j \in Seq(Hit) /\ Len(j) = n /\ AsTuple(j) = j
    BY <1>8, <1>11, SequenceIs
<1>13. ChunksOf(j) \in SUBSET C
    BY <1>10, <1>12, MemberChunks
<1> QED BY <1>5, <1>12, <1>13

-----------------------------------------------------------------------------
(* The pages of a search.                                                   *)

SearchRecord == [shape : Shapes, several : BOOLEAN, queries : Seq(Queries),
                 lists : UNION {[L -> Seq(Hit)] : L \in SUBSET Lists}, hits : Seq(Hit)]

\* What a search has read answers its reads, and has no chunk twice.
ListsSound(r) ==
    /\ search[r] \in SearchRecord
    /\ DOMAIN search[r].lists \subseteq Reads(r) \X ToSet(search[r].queries)
    /\ \A l \in DOMAIN search[r].lists : Once(search[r].lists[l])
    /\ at[r] = "fetch" /\ ~search[r].several => Len(search[r].queries) = 1

LEMMA SizesAre ==
    /\ K \in Nat /\ K >= 1 /\ TopN \in Nat /\ Mult \in Nat /\ Mult >= 1 /\ Threshold \in Nat
    /\ K * Mult \in Nat /\ K * 4 \in Nat
    /\ Max({TopN, K}) \in Nat /\ \A n \in Nat : Max({n, K * Mult}) \in Nat
<1>1. /\ K \in Nat /\ K >= 1 /\ TopN \in Nat /\ Mult \in Nat /\ Mult >= 1 /\ Threshold \in Nat
    BY SizeAssumption
<1>2. K * Mult \in Nat /\ K * 4 \in Nat
    BY <1>1
<1> DEFINE m == K * Mult
<1> HIDE DEF m
<1>3. \A a, b \in Nat : Max({a, b}) \in Nat
    BY Larger
<1>4. m \in Nat
    BY <1>2 DEF m
<1>5. \A n \in Nat : Max({n, m}) \in Nat
    BY <1>3, <1>4
<1> QED BY <1>1, <1>2, <1>3, <1>5 DEF m

LEMMA CountIs ==
    ASSUME NEW r \in Searches
    PROVE  FetchCount(r) \in Nat
<1>1. Pool(search[r].shape) \in Nat
    BY SizesAre DEF Pool
<1>2. \A a, b \in Nat : Max({a, b}) \in Nat
    BY Larger
<1>3. Max({K * 4, K * Mult}) \in Nat
    BY SizesAre
<1> QED BY <1>1, <1>3, SizesAre DEF FetchCount

LEMMA InsidePage ==
    ASSUME NEW hits \in Seq(Hit), Once(hits), NEW P \in SUBSET (DOMAIN hits)
    PROVE  Page(At(hits, P), ChunksOf(hits)) /\ Len(At(hits, P)) <= Len(hits)
<1> DEFINE a == At(hits, P)
<1>1. /\ a \in Seq(Hit) /\ Once(a) /\ Len(a) <= Len(hits)
      /\ \A i \in 1..Len(a) : \E p \in P : a[i] = hits[p]
    BY AtIs, AtMembers, AtOnce
<1> HIDE DEF a
<1>2. ChunksOf(a) \in SUBSET ChunksOf(hits)
  <2>1. \A i \in 1..Len(a) : a[i].chunk \in ChunksOf(hits)
      BY <1>1 DEF ChunksOf
  <2> QED BY <1>1, <2>1, MemberChunks
<1> QED BY <1>1, <1>2 DEF Page, a

LEMMA UptoPage ==
    ASSUME NEW hits \in Seq(Hit), NEW C, Page(hits, C), NEW n \in Nat
    PROVE  /\ Page(Upto(hits, n), C)
           /\ Len(Upto(hits, n)) <= n /\ Len(Upto(hits, n)) <= Len(hits)
<1> DEFINE a == Upto(hits, n)
<1>1. /\ a \in Seq(Hit) /\ Once(a) /\ Len(a) = (IF n <= Len(hits) THEN n ELSE Len(hits))
      /\ \A i \in 1..Len(a) : i \in 1..Len(hits) /\ a[i] = hits[i]
      /\ DOMAIN hits = 1..Len(hits) /\ Len(hits) \in Nat
    BY UptoIs, UptoOnce, LenProperties DEF Page
<1> HIDE DEF a
<1>2. \A i \in 1..Len(a) : a[i].chunk \in C
  <2>1. \A i \in 1..Len(a) : a[i].chunk \in ChunksOf(hits)
      BY <1>1 DEF ChunksOf
  <2> QED BY <2>1 DEF Page
<1>3. ChunksOf(a) \in SUBSET C
    BY <1>1, <1>2, MemberChunks
<1> QED BY <1>1, <1>3 DEF Page, a

\* The hits for one query are of the chunks that were read.
LEMMA FoundPage ==
    ASSUME NEW r \in Searches, ListsSound(r), Pending(r) = {},
           NEW C, \A l \in DOMAIN search[r].lists : ChunksOf(search[r].lists[l]) \in SUBSET C,
           NEW q \in ToSet(search[r].queries)
    PROVE  Page(Found(r, q), C)
<1> DEFINE s == search[r].shape
           l == search[r].lists
           Inside(hits) == At(hits, {i \in DOMAIN hits : InFolder(hits[i], s.folder)})
           near == Inside(l[<<"near", q>>])
           matching == Inside(l[<<"matching", q>>])
<1>1. \A read \in Reads(r) : <<read, q>> \in DOMAIN l
    BY DEF Pending
<1>2. \A x \in DOMAIN l : l[x] \in Seq(Hit) /\ Once(l[x]) /\ ChunksOf(l[x]) \in SUBSET C
    BY DEF ListsSound, SearchRecord
<1>3. ASSUME NEW read \in Reads(r) PROVE Page(Inside(l[<<read, q>>]), C)
  <2> DEFINE hits == l[<<read, q>>]
  <2>1. hits \in Seq(Hit) /\ Once(hits) /\ ChunksOf(hits) \in SUBSET C
      BY <1>1, <1>2
  <2> HIDE DEF hits
  <2>2. Page(Inside(hits), ChunksOf(hits))
      BY <2>1, InsidePage
  <2> QED BY <2>1, <2>2 DEF Page, hits
<1>4. Page(near, C)
    BY <1>3 DEF Reads
<1>5. s.hybrid => Page(matching, C)
    BY <1>3 DEF Reads
<1>6. Found(r, q) = IF s.hybrid THEN Fused(near, matching, FetchCount(r)) ELSE near
    BY DEF Found
<1> HIDE DEF near, matching
<1>7. ASSUME s.hybrid PROVE Page(Fused(near, matching, FetchCount(r)), C)
  <2>1. Page(Fused(near, matching, FetchCount(r)), ChunksOf(near) \cup ChunksOf(matching))
      BY <1>4, <1>5, <1>7, CountIs, FusedIs DEF Page
  <2> QED BY <1>4, <1>5, <1>7, <2>1 DEF Page
<1> QED BY <1>4, <1>6, <1>7

\* So are the candidates, which fit a page unless more are read for a rerank or
\* to make up for an excluded document.
LEMMA CandidatesPage ==
    ASSUME NEW r \in Searches, ListsSound(r), Pending(r) = {}, at[r] = "fetch",
           NEW C, \A l \in DOMAIN search[r].lists : ChunksOf(search[r].lists[l]) \in SUBSET C
    PROVE  /\ Page(Candidates(r), C)
           /\ ~search[r].shape.rerank /\ search[r].shape.kind # "similar" =>
                 Len(Candidates(r)) <= K
<1> DEFINE s == search[r].shape
           qs == search[r].queries
           all == [i \in 1..Len(qs) |-> Found(r, qs[i])]
           got == IF search[r].several THEN Merged(Joined(all), K)
                  ELSE IF s.kind = "similar" THEN Found(r, qs[1])
                  ELSE Upto(Found(r, qs[1]), Pool(s))
<1>1. qs \in Seq(Queries) /\ Len(qs) \in Nat /\ DOMAIN qs = 1..Len(qs)
    BY LenProperties DEF ListsSound, SearchRecord
<1>2. \A i \in 1..Len(qs) : Page(Found(r, qs[i]), C)
  <2>1. \A i \in 1..Len(qs) : qs[i] \in ToSet(qs)
      BY <1>1 DEF ToSet
  <2> QED BY <2>1, FoundPage
<1>3. Pool(s) \in Nat /\ (~s.rerank => Pool(s) = K) /\ K \in Nat
    BY SizesAre DEF Pool
<1>4. Page(got, C) /\ (~s.rerank /\ s.kind # "similar" => Len(got) <= K)
  <2>1. CASE search[r].several
    <3> DEFINE n == Len(qs)
    <3>0. n \in Nat /\ all \in [1..n -> Seq(Hit)] /\ \A i \in 1..n : ChunksOf(all[i]) \in SUBSET C
        BY <1>1, <1>2 DEF Page
    <3> HIDE DEF n, all
    <3>1. all \in Seq(Seq(Hit)) /\ Len(all) = n
        BY <3>0, SequenceIs
    <3>2. Joined(all) \in Seq(Hit) /\ ChunksOf(Joined(all)) \in SUBSET C
        BY <3>0, <3>1, JoinedIs
    <3>3. Page(Merged(Joined(all), K), ChunksOf(Joined(all))) /\ Len(Merged(Joined(all), K)) <= K
        BY <1>3, <3>2, MergedIs
    <3> QED BY <2>1, <3>2, <3>3 DEF Page
  <2>2. CASE ~search[r].several
    <3> DEFINE f == Found(r, qs[1])
    <3>1. Page(f, C) /\ f \in Seq(Hit)
        BY <1>2, <2>2 DEF ListsSound, Page
    <3>2. Page(Upto(f, Pool(s)), C) /\ Len(Upto(f, Pool(s))) <= Pool(s)
        BY <1>3, <3>1, UptoPage
    <3> QED BY <1>3, <2>2, <3>1, <3>2
  <2> QED BY <2>1, <2>2
<1>5. Candidates(r) = At(got, {i \in DOMAIN got : OfType(got[i], s.types)})
    BY DEF Candidates
<1> HIDE DEF got, all
<1> DEFINE P == {i \in DOMAIN got : OfType(got[i], s.types)}
<1>6. P \in SUBSET (DOMAIN got)
    OBVIOUS
<1> HIDE DEF P
<1>7. Page(At(got, P), ChunksOf(got)) /\ Len(At(got, P)) <= Len(got)
    BY <1>4, <1>6, InsidePage DEF Page
<1>8. Len(got) \in Nat /\ Len(At(got, P)) \in Nat
    BY <1>4, <1>7, LenProperties DEF Page
<1> QED BY <1>3, <1>4, <1>5, <1>7, <1>8 DEF Page, P

Searching(r) == at[r] \notin {"idle"} \cup Ended

\* The chunks of documents that changed during a search, or have a row.
Standing(r) == {c \in Chunks : DocOf[c] \in touched[r] \/ row[DocOf[c]] # "none"}

Reading(r) ==
    /\ at[r] # "fetch" => DOMAIN search[r].lists = {}
    /\ \A l \in DOMAIN search[r].lists : ChunksOf(search[r].lists[l]) \in SUBSET Standing(r)

\* What was selected has the status asked for, unless its document changed.
Selected(r) ==
    LET hits == search[r].hits
        s    == search[r].shape
    IN  at[r] \in {"rerank", "compose", "log"} =>
            /\ Once(hits)
            /\ \A c \in ChunksOf(hits) :
                  DocOf[c] \notin touched[r] /\ s.status # "all" => row[DocOf[c]] = s.status
            /\ at[r] \in {"compose", "log"} => Len(hits) <= K

\* A document that is being written during a search is on its record.
JobNoted(r) == Searching(r) /\ job.doc # NoDoc => job.doc \in touched[r]

SearchInv(r) == ListsSound(r) /\ Reading(r) /\ Selected(r) /\ JobNoted(r)

SetTypes ==
    /\ vectors \subseteq used /\ words \subseteq used
    /\ job # Idle => job.doc \in used
    /\ rules \subseteq RuleSet
    /\ search \in [Searches -> SearchRecord]
    /\ touched \in [Searches -> SUBSET Docs] /\ allowed \cup denied \subseteq Requests
    /\ lost \subseteq Requests /\ away \subseteq Patches /\ mixed \subseteq Docs

\* A write or a removal goes through all of its calls, in their order.
Staged(todo) ==
    /\ todo \in Seq(Calls) /\ todo # <<>>
    /\ todo[Len(todo)] \in {"-row", "+chunks"}
    /\ \A i \in 1..(Len(todo) - 1) : /\ todo[i + 1] = "-words" => todo[i] = "-vectors"
                                     /\ todo[i + 1] = "-chunks" => todo[i] = "-words"
                                     /\ todo[i + 1] = "-row" => todo[i] = "-chunks"
                                     /\ todo[i + 1] = "+chunks" => todo[i] = "+row"

\* How far the job has come with the rows and entries of its document.
Halfway ==
    job # Idle =>
        /\ Staged(job.todo)
        /\ job.todo[1] \in {"-words", "-chunks", "-row"} => job.doc \notin vectors
        /\ job.todo[1] \in {"-chunks", "-row"} => job.doc \notin words
        /\ job.todo[1] = "+chunks" => row[job.doc] # "none"

\* What the two indexes have belongs to a document with a row, but for the one
\* that is being written.
Followed == \A d \in vectors \cup words : d # job.doc => row[d] # "none"

PageInv == MirrorInv /\ SetTypes /\ Halfway /\ Followed /\ \A r \in Searches : SearchInv(r)

LEMMA NoSearchIs ==
    /\ NoSearch \in SearchRecord
    /\ NoSearch.lists = <<>> /\ DOMAIN NoSearch.lists = {} /\ NoSearch.hits = <<>>
<1>1. NoSearch.shape \in Shapes /\ <<>> \in Seq(Queries) /\ <<>> \in Seq(Hit)
    BY DataAssumption DEF NoSearch
<1>2. <<>> \in [{} -> Seq(Hit)] /\ DOMAIN <<>> = {}
    OBVIOUS
<1>3. {} \in SUBSET Lists
    OBVIOUS
<1>4. <<>> \in UNION {[L -> Seq(Hit)] : L \in SUBSET Lists}
    BY <1>2, <1>3
<1> QED BY <1>1, <1>2, <1>4 DEF NoSearch, SearchRecord

LEMMA InitPages == Init => PageInv
<1> SUFFICES ASSUME Init PROVE PageInv
    OBVIOUS
<1> USE ActorAssumption
<1>1. SetTypes
  <2>1. vectors = used /\ words = used /\ job = Idle
      BY DEF Init
  <2>2. rules \subseteq RuleSet
      BY DataAssumption DEF Init
  <2>3. search \in [Searches -> SearchRecord]
      BY NoSearchIs DEF Init
  <2> QED BY <2>1, <2>2, <2>3 DEF Init, SetTypes
<1>2. Halfway /\ Followed
    BY DEF Init, Halfway, Followed
<1>3. ASSUME NEW r \in Searches PROVE SearchInv(r)
  <2>1. search[r] = NoSearch /\ at[r] = "idle"
      BY <1>3 DEF Init, Requests
  <2>2. ListsSound(r)
      BY <2>1, NoSearchIs DEF ListsSound
  <2>3. Reading(r) /\ Selected(r) /\ JobNoted(r)
      BY <2>1, NoSearchIs DEF Reading, Selected, JobNoted, Searching
  <2> QED BY <2>2, <2>3 DEF SearchInv
<1> QED BY <1>1, <1>2, <1>3, InitMirror DEF PageInv

\* A step that leaves a search where it is, or in a part of its course where it
\* holds nothing, and notes what it does to the documents.
LEMMA SearchKept ==
    ASSUME NEW r \in Searches, SearchInv(r), search'[r] = search[r],
           \/ at'[r] = at[r]
           \/ {at[r], at'[r]} \cap {"fetch", "rerank", "compose", "log"} = {},
           Searching(r)' => Searching(r),
           Searching(r) => /\ touched[r] \in SUBSET touched'[r]
                           /\ \A d \in Docs \ touched'[r] : row'[d] = row[d],
           JobNoted(r)'
    PROVE  SearchInv(r)'
<1>1. ListsSound(r)'
    BY DEF SearchInv, ListsSound, Reads
<1>2. ASSUME Searching(r), NEW c \in Chunks, DocOf[c] \notin touched'[r]
      PROVE  row'[DocOf[c]] = row[DocOf[c]] /\ DocOf[c] \notin touched[r]
    BY <1>2, DataAssumption
<1>3. ASSUME Searching(r) PROVE Standing(r) \in SUBSET Standing(r)'
    BY <1>2, <1>3 DEF Standing
<1>4. Reading(r)'
  <2>1. CASE at[r] = "fetch"
    <3>1. Searching(r) /\ at'[r] = at[r]
        BY <2>1 DEF Searching, Ended
    <3>2. \A l \in DOMAIN search[r].lists : ChunksOf(search[r].lists[l]) \in SUBSET Standing(r)'
        BY <1>3, <3>1 DEF SearchInv, Reading
    <3> QED BY <2>1, <3>1, <3>2 DEF Reading
  <2>2. CASE at[r] # "fetch"
    <3>1. at'[r] # "fetch" /\ DOMAIN search[r].lists = {}
        BY <2>2 DEF SearchInv, Reading
    <3> QED BY <3>1 DEF Reading
  <2> QED BY <2>1, <2>2
<1>5. Selected(r)'
  <2> SUFFICES ASSUME at'[r] \in {"rerank", "compose", "log"} PROVE Selected(r)'
      BY DEF Selected
  <2>1. Searching(r) /\ at'[r] = at[r]
      BY DEF Searching, Ended
  <2>2. ChunksOf(search[r].hits) \in SUBSET Chunks
      BY ChunksIn DEF SearchInv, ListsSound, SearchRecord
  <2> QED BY <1>2, <2>1, <2>2 DEF SearchInv, Selected
<1> QED BY <1>1, <1>4, <1>5 DEF SearchInv

\* A step that changes nothing that searches look at.
LEMMA Unseen ==
    ASSUME PageInv, NEW r \in Searches,
           search'[r] = search[r], touched'[r] = touched[r], UNCHANGED <<row, job>>,
           \/ at'[r] = at[r]
           \/ {at[r], at'[r]} \cap {"fetch", "rerank", "compose", "log"} = {},
           Searching(r)' => Searching(r)
    PROVE  SearchInv(r)'
<1>1. JobNoted(r)'
    BY DEF PageInv, SearchInv, JobNoted
<1> QED BY <1>1, SearchKept DEF PageInv

LEMMA StoresSame ==
    ASSUME PageInv, UNCHANGED <<row, vectors, words, used, job>>
    PROVE  Halfway' /\ Followed'
BY DEF PageInv, Halfway, Followed

Vectored == {c \in Chunks : DocOf[c] \in vectors}
Worded   == {c \in Chunks : DocOf[c] \in words}

LEMMA NearPage ==
    ASSUME NEW q \in Queries, NEW n \in Nat, NEW least \in Nat
    PROVE  Page(Near(q, n, least), Vectored)
<1> DEFINE rows == Best(Vectored, Nearness[q], TRUE, n)
           P == {i \in DOMAIN rows : rows[i].score >= least}
           score == Nearness[q]
<1>1. /\ Vectored \in SUBSET Chunks /\ \A c \in Vectored : score[c] \in Nat
      /\ \A b, c \in Vectored : b # c => score[b] # score[c]
    BY DataAssumption DEF Vectored
<1>2. Near(q, n, least) = At(rows, P)
    BY DEF Near, Vectored
<1>3. P \in SUBSET (DOMAIN rows)
    OBVIOUS
<1> HIDE DEF P
<1>4. /\ rows \in Seq(Hit) /\ Once(rows) /\ \A i \in 1..Len(rows) : rows[i].chunk \in Vectored
  <2> HIDE DEF score
  <2>1. LET b == Best(Vectored, score, TRUE, n)
        IN  b \in Seq(Hit) /\ Once(b) /\ \A i \in 1..Len(b) : b[i].chunk \in Vectored
      BY <1>1, BestIs DEF Foremost
  <2> QED BY <2>1 DEF score
<1> HIDE DEF rows
<1>5. ChunksOf(rows) \in SUBSET Vectored
    BY <1>4, MemberChunks
<1>6. Page(At(rows, P), ChunksOf(rows))
    BY <1>3, <1>4, InsidePage
<1> QED BY <1>2, <1>5, <1>6 DEF Page

LEMMA MatchingPage ==
    ASSUME NEW q \in Queries, NEW n \in Nat
    PROVE  Page(Matching(q, n), Worded)
<1> DEFINE S == {c \in Chunks : DocOf[c] \in words /\ Keyness[q][c] > 0}
           score == Keyness[q]
           rows == Best(S, score, FALSE, n)
<1>1. /\ S \in SUBSET Chunks /\ \A c \in S : score[c] \in Nat
      /\ \A b, c \in S : b # c => score[b] # score[c]
  <2>1. \A c \in S : score[c] \in Nat /\ score[c] # 0
      BY DataAssumption
  <2>2. \A b, c \in S : b # c /\ score[b] = score[c] => score[b] = 0
      BY DataAssumption
  <2> QED BY <2>1, <2>2
<1>2. Matching(q, n) = rows
    BY DEF Matching
<1>3. S \in SUBSET Worded
    BY DEF Worded
<1> HIDE DEF S, score
<1>4. rows \in Seq(Hit) /\ Once(rows) /\ \A i \in 1..Len(rows) : rows[i].chunk \in S
    BY <1>1, BestIs DEF Foremost
<1> HIDE DEF rows
<1>5. ChunksOf(rows) \in SUBSET Worded
  <2>1. \A i \in 1..Len(rows) : rows[i].chunk \in Worded
      BY <1>3, <1>4
  <2> QED BY <1>4, <2>1, MemberChunks
<1> QED BY <1>2, <1>4, <1>5 DEF Page

\* A list that is read is a page of chunks of the store it is read from.
LEMMA ReadPage ==
    ASSUME PageInv, NEW r \in Searches, Read(r)
    PROVE  \E read \in Pending(r) : \E hits :
              /\ Page(hits, Vectored \cup Worded)
              /\ search' = [search EXCEPT ![r].lists =
                               [l \in DOMAIN @ \cup {read} |-> IF l = read THEN hits ELSE @[l]]]
<1> DEFINE s == search[r].shape
           n == IF s.hybrid THEN 2 * FetchCount(r) ELSE FetchCount(r)
           least == IF s.hybrid THEN 0 ELSE Threshold
           hits(read) == IF read[1] = "matching" THEN Matching(read[2], n)
                         ELSE Near(read[2], n, least)
<1>1. PICK read \in Pending(r) :
          search' = [search EXCEPT ![r].lists =
                        [l \in DOMAIN @ \cup {read} |-> IF l = read THEN hits(read) ELSE @[l]]]
    BY DEF Read
<1>2. read[2] \in Queries
  <2>1. read \in Reads(r) \X ToSet(search[r].queries)
      BY DEF Pending
  <2>2. search[r].queries \in Seq(Queries)
      BY DEF PageInv, SetTypes, SearchRecord
  <2>3. ToSet(search[r].queries) \in SUBSET Queries
      BY <2>2, LenProperties, ElementOfSeq DEF ToSet
  <2> QED BY <2>1, <2>3
<1>3. n \in Nat /\ least \in Nat
  <2>1. FetchCount(r) \in Nat /\ Threshold \in Nat
      BY CountIs, SizesAre
  <2> QED BY <2>1
<1> HIDE DEF n, least
<1>4. Page(Matching(read[2], n), Worded) /\ Page(Near(read[2], n, least), Vectored)
    BY <1>2, <1>3, NearPage, MatchingPage
<1>5. Page(hits(read), Vectored \cup Worded)
    BY <1>4 DEF Page
<1> HIDE DEF hits
<1> QED BY <1>1, <1>5

\* What a store has now is of documents that have a row, or are written just now.
LEMMA StoredStand ==
    ASSUME PageInv, NEW r \in Searches, Searching(r)
    PROVE  Vectored \cup Worded \in SUBSET Standing(r)
<1> SUFFICES ASSUME NEW c \in Chunks, DocOf[c] \in vectors \cup words, DocOf[c] \notin touched[r]
             PROVE  row[DocOf[c]] # "none"
    BY DEF Vectored, Worded, Standing
<1>1. DocOf[c] \in Docs /\ DocOf[c] # NoDoc
    BY DataAssumption, DocsAssumption
<1>2. DocOf[c] # job.doc
    BY <1>1 DEF PageInv, SearchInv, JobNoted
<1> QED BY <1>2 DEF PageInv, Followed

LEMMA ReadKeeps ==
    ASSUME PageInv, NEW r \in Searches, Read(r)
    PROVE  search' \in [Searches -> SearchRecord] /\ SearchInv(r)'
<1> DEFINE old == search[r].lists
<1>0. PICK read \in Pending(r) : \E hits :
              /\ Page(hits, Vectored \cup Worded)
              /\ search' = [search EXCEPT ![r].lists =
                               [l \in DOMAIN @ \cup {read} |-> IF l = read THEN hits ELSE @[l]]]
    BY ReadPage
<1>1. PICK hits :
              /\ Page(hits, Vectored \cup Worded)
              /\ search' = [search EXCEPT ![r].lists =
                               [l \in DOMAIN @ \cup {read} |-> IF l = read THEN hits ELSE @[l]]]
    BY <1>0
<1> DEFINE new == [l \in DOMAIN old \cup {read} |-> IF l = read THEN hits ELSE old[l]]
<1>2. /\ search \in [Searches -> SearchRecord] /\ search[r] \in SearchRecord
      /\ search' = [search EXCEPT ![r].lists = new]
    BY <1>1 DEF PageInv, SetTypes
<1>3. UNCHANGED <<row, job, at, touched>> /\ at[r] = "fetch"
    BY DEF Read, stores, history
<1>4. SearchInv(r)
    BY DEF PageInv
<1>5. /\ read \in Reads(r) \X ToSet(search[r].queries)
      /\ read \in Lists
  <2>1. read \in Reads(r) \X ToSet(search[r].queries)
      BY DEF Pending
  <2>2. ToSet(search[r].queries) \in SUBSET Queries
      BY <1>2, LenProperties, ElementOfSeq DEF ToSet, SearchRecord
  <2> QED BY <2>1, <2>2 DEF Reads, Lists
<1>6. /\ DOMAIN new = DOMAIN old \cup {read} /\ new[read] = hits
      /\ \A l \in DOMAIN old : l # read => new[l] = old[l]
    OBVIOUS
<1>7. new \in UNION {[L -> Seq(Hit)] : L \in SUBSET Lists}
  <2>1. PICK L \in SUBSET Lists : old \in [L -> Seq(Hit)]
      BY <1>2 DEF SearchRecord
  <2>2. new \in [L \cup {read} -> Seq(Hit)]
      BY <1>1, <2>1 DEF Page
  <2>3. L \cup {read} \in SUBSET Lists
      BY <1>5
  <2> QED BY <2>2, <2>3
<1> HIDE DEF new, old
<1>8. /\ search' \in [Searches -> SearchRecord]
      /\ search'[r].lists = new /\ search'[r].shape = search[r].shape
      /\ search'[r].several = search[r].several /\ search'[r].queries = search[r].queries
    BY <1>2, <1>7 DEF SearchRecord
<1>9. ListsSound(r)'
  <2>1. DOMAIN new \subseteq Reads(r) \X ToSet(search[r].queries)
      BY <1>4, <1>5, <1>6 DEF SearchInv, ListsSound, old
  <2>2. Reads(r)' = Reads(r)
      BY <1>8 DEF Reads
  <2>3. \A l \in DOMAIN new : Once(new[l])
      BY <1>1, <1>4, <1>6 DEF SearchInv, ListsSound, old, Page
  <2>4. search'[r] \in SearchRecord
      BY <1>8
  <2> QED BY <1>3, <1>4, <1>8, <2>1, <2>2, <2>3, <2>4 DEF SearchInv, ListsSound
<1>10. Reading(r)'
  <2>1. Searching(r)
      BY <1>3 DEF Searching, Ended
  <2>2. Standing(r)' = Standing(r)
      BY <1>3 DEF Standing
  <2>3. ChunksOf(hits) \in SUBSET Standing(r)
      BY <1>1, <2>1, StoredStand DEF Page
  <2>4. \A l \in DOMAIN new : ChunksOf(new[l]) \in SUBSET Standing(r)
      BY <1>4, <1>6, <2>3 DEF SearchInv, Reading, old
  <2> QED BY <1>3, <1>8, <2>2, <2>4 DEF Reading
<1>11. Selected(r)' /\ JobNoted(r)'
    BY <1>3, <1>4 DEF SearchInv, Selected, JobNoted, Searching
<1> QED BY <1>8, <1>9, <1>10, <1>11 DEF SearchInv

LEMMA BeginKeeps ==
    ASSUME PageInv, NEW r \in Searches, BeginSearch(r)
    PROVE  SearchInv(r)'
<1>1. /\ at[r] = "idle" /\ at'[r] = "rules" /\ UNCHANGED <<search, row, job>>
      /\ touched'[r] = {job.doc} \ {NoDoc}
    BY DEF BeginSearch, stores, Go, PageInv, MirrorInv, GateInv, GateTypes, SetTypes, Requests
<1>2. SearchInv(r)
    BY DEF PageInv
<1>3. ListsSound(r)'
    BY <1>1, <1>2 DEF SearchInv, ListsSound, Reads
<1>4. Reading(r)'
    BY <1>1, <1>2 DEF SearchInv, Reading
<1>5. Selected(r)' /\ JobNoted(r)'
    BY <1>1 DEF Selected, JobNoted
<1> QED BY <1>3, <1>4, <1>5 DEF SearchInv

\* A search that ends forgets what it held.
LEMMA DropKeeps ==
    ASSUME PageInv, NEW r \in Searches, NEW step \in Ended, Drop(r, step)
    PROVE  search' \in [Searches -> SearchRecord] /\ SearchInv(r)'
<1>1. /\ at'[r] = step /\ search' \in [Searches -> SearchRecord] /\ search'[r] = NoSearch
      /\ touched'[r] = {}
    BY NoSearchIs DEF Drop, Go, PageInv, MirrorInv, GateInv, GateTypes, SetTypes, Requests
<1>2. step \notin {"fetch", "rerank", "compose", "log"}
    BY DEF Ended
<1>3. ListsSound(r)'
    BY <1>1, <1>2, NoSearchIs DEF ListsSound
<1>4. Reading(r)' /\ Selected(r)'
    BY <1>1, <1>2, NoSearchIs DEF Reading, Selected
<1>5. JobNoted(r)'
    BY <1>1 DEF JobNoted, Searching
<1> QED BY <1>1, <1>3, <1>4, <1>5 DEF SearchInv

\* The rewritings that an expansion asks for are queries.
LEMMA VariantsAre ==
    ASSUME NEW D \in SUBSET (DOMAIN Variants)
    PROVE  At(Variants, D) \in Seq(Queries)
BY AtIs, DataAssumption

LEMMA PrepareKeeps ==
    ASSUME PageInv, NEW r \in Searches, Prepare(r)
    PROVE  search' \in [Searches -> SearchRecord] /\ SearchInv(r)'
<1>1. UNCHANGED <<row, job>> /\ at[r] = "prepare"
    BY DEF Prepare, stores
<1>2. CASE Drop(r, "failed")
    BY <1>2, DropKeeps DEF Ended
<1>3. ASSUME NEW s \in Shapes, NEW several \in BOOLEAN, NEW qs \in Seq(Queries),
             several \/ Len(qs) = 1,
             search' = [search EXCEPT ![r] = [shape |-> s, several |-> several,
                           queries |-> qs, lists |-> <<>>, hits |-> <<>>]],
             Go(r, "fetch"), UNCHANGED touched
      PROVE  search' \in [Searches -> SearchRecord] /\ SearchInv(r)'
  <2> DEFINE new == [shape |-> s, several |-> several, queries |-> qs,
                     lists |-> <<>>, hits |-> <<>>]
  <2>1. new \in SearchRecord /\ DOMAIN new.lists = {} /\ new.lists = <<>>
    <3>1. <<>> \in UNION {[L -> Seq(Hit)] : L \in SUBSET Lists} /\ <<>> \in Seq(Hit)
        BY NoSearchIs DEF SearchRecord
    <3> QED BY <3>1 DEF SearchRecord
  <2>2. new.several = several /\ new.queries = qs
      OBVIOUS
  <2>3. search' = [search EXCEPT ![r] = new]
      BY <1>3
  <2> HIDE DEF new
  <2>4. /\ search' \in [Searches -> SearchRecord] /\ search'[r] = new /\ at'[r] = "fetch"
        /\ touched' = touched
      BY <1>3, <2>1, <2>3 DEF Go, PageInv, MirrorInv, GateInv, GateTypes, SetTypes, Requests
  <2>5. ListsSound(r)'
      BY <1>3, <2>1, <2>2, <2>4 DEF ListsSound
  <2>6. Reading(r)' /\ Selected(r)'
      BY <2>1, <2>4 DEF Reading, Selected
  <2>7. JobNoted(r)'
    <3>1. Searching(r)
        BY <1>1 DEF Searching, Ended
    <3> QED BY <1>1, <2>4, <3>1 DEF PageInv, SearchInv, JobNoted
  <2> QED BY <2>4, <2>5, <2>6, <2>7 DEF SearchInv
<1>4. CASE ~Drop(r, "failed")
  <2>1. PICK s \in Shapes :
            \/ \E D \in SUBSET DOMAIN Variants :
                  /\ search' = [search EXCEPT ![r] = [shape |-> s, several |-> TRUE,
                           queries |-> At(Variants, D), lists |-> <<>>, hits |-> <<>>]]
                  /\ Go(r, "fetch") /\ UNCHANGED touched
            \/ \E q \in Queries :
                  /\ search' = [search EXCEPT ![r] = [shape |-> s, several |-> FALSE,
                           queries |-> <<q>>, lists |-> <<>>, hits |-> <<>>]]
                  /\ Go(r, "fetch") /\ UNCHANGED touched
      BY <1>4, DataAssumption DEF Prepare
  <2>2. ASSUME NEW q \in Queries PROVE <<q>> \in Seq(Queries) /\ Len(<<q>>) = 1
      OBVIOUS
  <2>3. CASE \E D \in SUBSET DOMAIN Variants :
                  /\ search' = [search EXCEPT ![r] = [shape |-> s, several |-> TRUE,
                           queries |-> At(Variants, D), lists |-> <<>>, hits |-> <<>>]]
                  /\ Go(r, "fetch") /\ UNCHANGED touched
    <3>1. PICK D \in SUBSET DOMAIN Variants :
                  /\ search' = [search EXCEPT ![r] = [shape |-> s, several |-> TRUE,
                           queries |-> At(Variants, D), lists |-> <<>>, hits |-> <<>>]]
                  /\ Go(r, "fetch") /\ UNCHANGED touched
        BY <2>3
    <3>2. At(Variants, D) \in Seq(Queries)
        BY VariantsAre
    <3> DEFINE qs == At(Variants, D)
    <3> HIDE DEF qs
    <3> QED BY <1>3, <3>1, <3>2 DEF qs
  <2>4. CASE \E q \in Queries :
                  /\ search' = [search EXCEPT ![r] = [shape |-> s, several |-> FALSE,
                           queries |-> <<q>>, lists |-> <<>>, hits |-> <<>>]]
                  /\ Go(r, "fetch") /\ UNCHANGED touched
      BY <1>3, <2>2, <2>4
  <2> QED BY <2>1, <2>3, <2>4
<1> QED BY <1>2, <1>4

\* What the filters leave of the candidates.
LEMMA FilterPage ==
    ASSUME PageInv, NEW r \in Searches, Filter(r)
    PROVE  \E hits :
              /\ search' = [search EXCEPT ![r].hits = hits, ![r].lists = <<>>]
              /\ Page(hits, Standing(r))
              /\ \A c \in ChunksOf(hits) : Shown(DocOf[c], search[r].shape.status)
              /\ ~search[r].shape.rerank => Len(hits) <= K
              /\ at'[r] \in {"log", "rerank", "compose"}
              /\ at'[r] # "rerank" => ~search[r].shape.rerank \/ hits = <<>>
<1> DEFINE s == search[r].shape
           some == Candidates(r)
           Q == {i \in DOMAIN some : Shown(DocHit(some[i]), s.status)}
           kept == At(some, Q)
           P == {i \in DOMAIN kept : DocHit(kept[i]) # s.exclude}
           hits == IF s.kind = "similar" THEN Upto(At(kept, P), K) ELSE kept
<1>1. /\ search' = [search EXCEPT ![r].hits = hits, ![r].lists = <<>>]
      /\ Go(r, IF s.kind = "ask" /\ hits = <<>> THEN "log"
               ELSE IF s.rerank THEN "rerank"
               ELSE IF s.kind = "ask" THEN "compose" ELSE "log")
      /\ at[r] = "fetch" /\ Pending(r) = {}
    BY DEF Filter
<1>2. /\ Page(some, Standing(r))
      /\ ~s.rerank /\ s.kind # "similar" => Len(some) <= K
    BY <1>1, CandidatesPage DEF PageInv, SearchInv, Reading
<1>3. /\ Q \in SUBSET (DOMAIN some) /\ P \in SUBSET (DOMAIN kept)
      /\ \A i \in Q : Shown(DocOf[some[i].chunk], s.status)
    BY DEF DocHit
<1>4. K \in Nat
    BY SizesAre
<1> HIDE DEF some, Q, P
<1>5. /\ Page(kept, ChunksOf(some)) /\ Len(kept) <= Len(some)
      /\ \A i \in 1..Len(kept) : \E p \in Q : kept[i] = some[p]
    BY <1>2, <1>3, InsidePage, AtMembers DEF Page
<1> HIDE DEF kept
<1>6. \A c \in ChunksOf(kept) : Shown(DocOf[c], s.status)
  <2>1. DOMAIN kept = 1..Len(kept)
      BY <1>5, LenProperties DEF Page
  <2> QED BY <1>3, <1>5, <2>1 DEF ChunksOf
<1>7. /\ Page(At(kept, P), ChunksOf(kept))
      /\ Page(Upto(At(kept, P), K), ChunksOf(kept)) /\ Len(Upto(At(kept, P), K)) <= K
    BY <1>3, <1>4, <1>5, InsidePage, UptoPage DEF Page
<1>8. Len(some) \in Nat /\ Len(kept) \in Nat
    BY <1>2, <1>5, LenProperties DEF Page
<1>9. /\ Page(hits, Standing(r)) /\ ChunksOf(hits) \in SUBSET ChunksOf(kept)
      /\ ~s.rerank => Len(hits) <= K
    BY <1>2, <1>4, <1>5, <1>7, <1>8 DEF Page
<1> HIDE DEF hits
<1>10. /\ at'[r] \in {"log", "rerank", "compose"}
       /\ at'[r] # "rerank" => ~s.rerank \/ hits = <<>>
    BY <1>1 DEF Go, PageInv, MirrorInv, GateInv, GateTypes, Requests
<1> QED BY <1>1, <1>6, <1>9, <1>10

LEMMA FilterKeeps ==
    ASSUME PageInv, NEW r \in Searches, Filter(r)
    PROVE  search' \in [Searches -> SearchRecord] /\ SearchInv(r)'
<1>1. PICK hits :
         /\ search' = [search EXCEPT ![r].hits = hits, ![r].lists = <<>>]
         /\ Page(hits, Standing(r))
         /\ \A c \in ChunksOf(hits) : Shown(DocOf[c], search[r].shape.status)
         /\ ~search[r].shape.rerank => Len(hits) <= K
         /\ at'[r] \in {"log", "rerank", "compose"}
         /\ at'[r] # "rerank" => ~search[r].shape.rerank \/ hits = <<>>
    BY FilterPage
<1>2. /\ search \in [Searches -> SearchRecord] /\ search[r] \in SearchRecord /\ SearchInv(r)
      /\ UNCHANGED <<row, job, touched>> /\ at[r] = "fetch"
    BY DEF PageInv, SetTypes, Filter, stores, history
<1>3. <<>> \in UNION {[L -> Seq(Hit)] : L \in SUBSET Lists}
    BY NoSearchIs DEF SearchRecord
<1>4. /\ search' \in [Searches -> SearchRecord] /\ search'[r].hits = hits
      /\ search'[r].lists = <<>> /\ search'[r].shape = search[r].shape
      /\ search'[r].queries = search[r].queries /\ search'[r].several = search[r].several
    BY <1>1, <1>2, <1>3 DEF SearchRecord, Page
<1>5. DOMAIN search'[r].lists = {}
    BY <1>4
<1>6. ListsSound(r)' /\ Reading(r)'
    BY <1>1, <1>4, <1>5 DEF ListsSound, Reading
<1>7. Selected(r)'
  <2>1. Once(hits) /\ (at'[r] \in {"compose", "log"} => Len(hits) <= K)
      BY <1>1, SizesAre, EmptySeq DEF Page
  <2>2. ASSUME NEW c \in ChunksOf(hits), DocOf[c] \notin touched[r],
               search[r].shape.status # "all"
        PROVE  row[DocOf[c]] = search[r].shape.status
    <3>1. row[DocOf[c]] # "none" /\ Shown(DocOf[c], search[r].shape.status)
        BY <1>1, <2>2 DEF Page, Standing
    <3>2. search[r].shape.status \in {"active", "deprecated"}
        BY <1>2, <2>2, DataAssumption DEF SearchRecord, Shape, Statuses
    <3> QED BY <2>2, <3>1, <3>2 DEF Shown, StatusOf
  <2> QED BY <1>2, <1>4, <2>1, <2>2 DEF Selected
<1>8. JobNoted(r)'
  <2>1. Searching(r)
      BY <1>2 DEF Searching, Ended
  <2> QED BY <1>2, <2>1 DEF SearchInv, JobNoted
<1> QED BY <1>4, <1>6, <1>7, <1>8 DEF SearchInv

\* A reranker drops and reorders hits, and brings no others.
LEMMA RerankedIs ==
    ASSUME NEW old \in Seq(Hit), Once(old), NEW hits \in Reranked(old)
    PROVE  Page(hits, ChunksOf(old)) /\ Len(hits) <= K
<1>1. K \in Nat
    BY SizesAre
<1>2. CASE hits = Upto(old, K)
  <2>1. Page(old, ChunksOf(old))
      BY DEF Page
  <2> QED BY <1>1, <1>2, <2>1, UptoPage
<1>3. CASE hits \in UNION {Injection(1..n, ToSet(old)) : n \in 0..K}
  <2>1. PICK n \in 0..K : hits \in Injection(1..n, ToSet(old))
      BY <1>3
  <2>2. n \in Nat /\ n <= K /\ hits \in [1..n -> ToSet(old)]
        /\ \A i, j \in 1..n : hits[i] = hits[j] => i = j
      BY <1>1, <2>1 DEF Injection, IsInjective
  <2>3. DOMAIN old = 1..Len(old) /\ \A i \in 1..Len(old) : old[i] \in Hit
      BY LenProperties, ElementOfSeq
  <2>4. /\ ToSet(old) \in SUBSET Hit
        /\ \A h \in ToSet(old) : h.chunk \in ChunksOf(old)
        /\ \A g, h \in ToSet(old) : g.chunk = h.chunk => g = h
      BY <2>3 DEF ToSet, ChunksOf, Once
  <2>5. hits \in [1..n -> Hit] /\ \A i \in 1..n : hits[i] \in ToSet(old)
      BY <2>2, <2>4
  <2>6. hits \in Seq(Hit) /\ Len(hits) = n
      BY <2>2, <2>5, SequenceIs
  <2>7. Once(hits) /\ ChunksOf(hits) \in SUBSET ChunksOf(old)
    <3>1. \A i \in 1..n : hits[i].chunk \in ChunksOf(old)
        BY <2>4, <2>5
    <3>2. ChunksOf(hits) \in SUBSET ChunksOf(old)
        BY <2>6, <3>1, MemberChunks
    <3> QED BY <2>2, <2>4, <2>5, <2>6, <3>2 DEF Once
  <2> QED BY <2>2, <2>6, <2>7 DEF Page
<1> QED BY <1>2, <1>3 DEF Reranked

LEMMA RerankKeeps ==
    ASSUME PageInv, NEW r \in Searches, Rerank(r)
    PROVE  search' \in [Searches -> SearchRecord] /\ SearchInv(r)'
<1>1. /\ search \in [Searches -> SearchRecord] /\ search[r] \in SearchRecord /\ SearchInv(r)
      /\ UNCHANGED <<row, job, touched>> /\ at[r] = "rerank"
    BY DEF PageInv, SetTypes, Rerank, stores, history
<1>2. PICK hits \in Reranked(search[r].hits) : search' = [search EXCEPT ![r].hits = hits]
    BY DEF Rerank
<1>3. Page(hits, ChunksOf(search[r].hits)) /\ Len(hits) <= K
    BY <1>1, RerankedIs DEF SearchInv, Selected, SearchRecord
<1>4. /\ search' \in [Searches -> SearchRecord] /\ search'[r].hits = hits
      /\ search'[r].lists = search[r].lists /\ search'[r].shape = search[r].shape
      /\ search'[r].queries = search[r].queries /\ search'[r].several = search[r].several
    BY <1>1, <1>2, <1>3 DEF SearchRecord, Page
<1>5. at'[r] \in {"compose", "log"}
    BY DEF Rerank, Go, PageInv, MirrorInv, GateInv, GateTypes, Requests
<1>6. ListsSound(r)' /\ Reading(r)'
    BY <1>1, <1>4, <1>5 DEF SearchInv, ListsSound, Reading, Reads
<1>7. Selected(r)'
    BY <1>1, <1>3, <1>4, <1>5 DEF SearchInv, Selected, Page
<1>8. JobNoted(r)'
  <2>1. Searching(r)
      BY <1>1 DEF Searching, Ended
  <2> QED BY <1>1, <2>1 DEF SearchInv, JobNoted
<1> QED BY <1>4, <1>6, <1>7, <1>8 DEF SearchInv

LEMMA ComposeKeeps ==
    ASSUME PageInv, NEW r \in Searches, Compose(r)
    PROVE  search' \in [Searches -> SearchRecord] /\ SearchInv(r)'
<1>1. CASE Drop(r, "crashed") \/ Drop(r, "failed")
    BY <1>1, DropKeeps DEF Ended
<1>2. CASE Go(r, "log") /\ UNCHANGED <<search, touched>>
  <2>1. /\ SearchInv(r) /\ UNCHANGED <<row, job>> /\ at[r] = "compose" /\ at'[r] = "log"
        /\ search' \in [Searches -> SearchRecord]
      BY <1>2 DEF Compose, stores, Go, PageInv, MirrorInv, GateInv, GateTypes, SetTypes, Requests
  <2>2. ListsSound(r)' /\ Reading(r)' /\ Selected(r)'
      BY <1>2, <2>1 DEF SearchInv, ListsSound, Reading, Selected, Reads
  <2>3. JobNoted(r)'
    <3>1. Searching(r)
        BY <2>1 DEF Searching, Ended
    <3> QED BY <1>2, <2>1, <3>1 DEF SearchInv, JobNoted
  <2> QED BY <2>1, <2>2, <2>3 DEF SearchInv
<1> QED BY <1>1, <1>2 DEF Compose

LEMMA LogKeeps ==
    ASSUME PageInv, NEW r \in Searches, Log(r)
    PROVE  search' \in [Searches -> SearchRecord] /\ SearchInv(r)'
BY DropKeeps DEF Log, Ended

-----------------------------------------------------------------------------
(* The writers, as searches see them.                                       *)

\* The lists of calls are staged, and so is what is left of one.
LEMMA Stages ==
    /\ \A todo \in {Removal, Insertion, Removal \o Insertion} :
          Staged(todo) /\ todo[1] \in {"-vectors", "+vectors"}
    /\ \A todo : Staged(todo) /\ Len(todo) # 1 =>
          /\ Staged(Tail(todo)) /\ Tail(todo)[1] \in Calls
          /\ Tail(todo)[1] = "-words" => todo[1] = "-vectors"
          /\ Tail(todo)[1] = "-chunks" => todo[1] = "-words"
          /\ Tail(todo)[1] = "-row" => todo[1] = "-chunks"
          /\ Tail(todo)[1] = "+chunks" => todo[1] = "+row"
<1>1. Staged(Removal) /\ Removal[1] = "-vectors"
    BY DEF Staged, Removal, Calls
<1>2. Staged(Insertion) /\ Insertion[1] = "+vectors"
    BY DEF Staged, Insertion, Calls
<1> DEFINE both == Removal \o Insertion
<1>3. /\ both \in Seq(Calls) /\ Len(both) = 8
      /\ \A i \in 1..4 : both[i] = Removal[i]
      /\ \A i \in 5..8 : both[i] = Insertion[i - 4]
  <2>1. Removal \in Seq(Calls) /\ Insertion \in Seq(Calls)
      BY <1>1, <1>2 DEF Staged
  <2>2. Len(Removal) = 4 /\ Len(Insertion) = 4
      BY DEF Removal, Insertion
  <2>3. /\ both \in Seq(Calls) /\ Len(both) = Len(Removal) + Len(Insertion)
        /\ \A i \in 1..(Len(Removal) + Len(Insertion)) :
              both[i] = IF i <= Len(Removal) THEN Removal[i] ELSE Insertion[i - Len(Removal)]
      BY <2>1, ConcatProperties
  <2> QED BY <2>2, <2>3
<1>4. /\ both[1] = "-vectors" /\ both[2] = "-words" /\ both[3] = "-chunks" /\ both[4] = "-row"
      /\ both[5] = "+vectors" /\ both[6] = "+words" /\ both[7] = "+row" /\ both[8] = "+chunks"
    BY <1>3 DEF Removal, Insertion
<1>5. both \in Seq(Calls) /\ Len(both) = 8
    BY <1>3
<1> HIDE DEF both
<1>6. Staged(both)
  <2>1. both # <<>>
      BY <1>5
  <2>2. \A i \in 1..7 : /\ both[i + 1] = "-words" => both[i] = "-vectors"
                        /\ both[i + 1] = "-chunks" => both[i] = "-words"
                        /\ both[i + 1] = "-row" => both[i] = "-chunks"
                        /\ both[i + 1] = "+chunks" => both[i] = "+row"
      BY <1>4
  <2> QED BY <1>4, <1>5, <2>1, <2>2 DEF Staged
<1>7. ASSUME NEW todo, Staged(todo), Len(todo) # 1
      PROVE  /\ Staged(Tail(todo)) /\ Tail(todo)[1] \in Calls
             /\ Tail(todo)[1] = "-words" => todo[1] = "-vectors"
             /\ Tail(todo)[1] = "-chunks" => todo[1] = "-words"
             /\ Tail(todo)[1] = "-row" => todo[1] = "-chunks"
             /\ Tail(todo)[1] = "+chunks" => todo[1] = "+row"
  <2> DEFINE n == Len(todo)
             t == Tail(todo)
  <2>1. todo \in Seq(Calls) /\ todo # <<>>
      BY <1>7 DEF Staged
  <2>2. n \in Nat /\ n # 0 /\ n # 1
      BY <1>7, <2>1, EmptySeq, LenProperties
  <2>3. t \in Seq(Calls) /\ Len(t) = n - 1 /\ \A i \in 1..(n - 1) : t[i] = todo[i + 1]
      BY <2>1, HeadTailProperties
  <2>4. /\ todo[n] \in {"-row", "+chunks"}
        /\ \A i \in 1..(n - 1) : /\ todo[i + 1] = "-words" => todo[i] = "-vectors"
                                 /\ todo[i + 1] = "-chunks" => todo[i] = "-words"
                                 /\ todo[i + 1] = "-row" => todo[i] = "-chunks"
                                 /\ todo[i + 1] = "+chunks" => todo[i] = "+row"
      BY <1>7 DEF Staged
  <2> HIDE DEF n, t
  <2>5. n >= 2
      BY <2>2
  <2>6. t # <<>>
    <3>1. Len(t) # 0
        BY <2>2, <2>3, <2>5
    <3> QED BY <3>1, EmptySeq
  <2>7. t[1] = todo[2] /\ t[1] \in Calls /\ 1 \in 1..(n - 1)
    <3>1. 1 \in 1..(n - 1) /\ 1 + 1 = 2
        BY <2>2, <2>5
    <3>2. t[1] = todo[2]
        BY <2>3, <3>1
    <3>3. t[1] \in Calls
        BY <2>3, <3>1, ElementOfSeq
    <3> QED BY <3>1, <3>2, <3>3
  <2>8. t[n - 1] = todo[n]
      BY <2>2, <2>3, <2>5
  <2>9. \A i \in 1..(n - 2) : /\ t[i + 1] = "-words" => t[i] = "-vectors"
                              /\ t[i + 1] = "-chunks" => t[i] = "-words"
                              /\ t[i + 1] = "-row" => t[i] = "-chunks"
                              /\ t[i + 1] = "+chunks" => t[i] = "+row"
    <3> TAKE i \in 1..(n - 2)
    <3>1. i \in 1..(n - 1) /\ i + 1 \in 1..(n - 1)
        BY <2>2
    <3>2. t[i] = todo[i + 1] /\ t[i + 1] = todo[(i + 1) + 1]
        BY <2>3, <3>1
    <3> QED BY <2>4, <3>1, <3>2
  <2>10. Staged(t)
    <3>1. Len(t) - 1 = n - 2
        BY <2>2, <2>3
    <3> QED BY <2>3, <2>4, <2>6, <2>8, <2>9, <3>1 DEF Staged
  <2>11. /\ todo[1 + 1] = "-words" => todo[1] = "-vectors"
         /\ todo[1 + 1] = "-chunks" => todo[1] = "-words"
         /\ todo[1 + 1] = "-row" => todo[1] = "-chunks"
         /\ todo[1 + 1] = "+chunks" => todo[1] = "+row"
      BY <2>4, <2>7
  <2>12. 1 + 1 = 2
      OBVIOUS
  <2> QED BY <2>7, <2>10, <2>11, <2>12 DEF t
<1> QED BY <1>1, <1>2, <1>4, <1>6, <1>7 DEF both

\* A step that writes one document, and nothing that a search holds.
LEMMA WriteSeen ==
    ASSUME PageInv, NEW d \in Docs, Touch(d), UNCHANGED search,
           \A r \in Searches : at'[r] = at[r],
           \A e \in Docs \ {d} : row'[e] = row[e],
           job'.doc \in {d, NoDoc, job.doc}
    PROVE  /\ touched' \in [Searches -> SUBSET Docs]
           /\ \A r \in Searches : SearchInv(r)'
<1>1. /\ touched \in [Searches -> SUBSET Docs]
      /\ touched' = [r \in Searches |-> IF at[r] \in {"idle"} \cup Ended THEN {}
                                        ELSE touched[r] \cup {d}]
    BY DEF PageInv, SetTypes, Touch
<1>2. touched' \in [Searches -> SUBSET Docs]
    BY <1>1
<1>3. ASSUME NEW r \in Searches PROVE SearchInv(r)'
  <2>1. at'[r] = at[r] /\ SearchInv(r)
      BY DEF PageInv
  <2>2. Searching(r)' => Searching(r)
      BY <2>1 DEF Searching
  <2>3. Searching(r) => touched'[r] = touched[r] \cup {d}
      BY <1>1 DEF Searching
  <2>4. JobNoted(r)'
      BY <2>1, <2>2, <2>3 DEF SearchInv, JobNoted
  <2>5. Searching(r) => \A e \in Docs \ touched'[r] : row'[e] = row[e]
      BY <2>3
  <2> QED BY <2>1, <2>2, <2>3, <2>4, <2>5, SearchKept
<1> QED BY <1>2, <1>3

LEMMA StartPages ==
    ASSUME PageInv, MirrorInv', StartJob
    PROVE  PageInv'
<1>1. /\ UNCHANGED <<row, vectors, words, rules, at, search, allowed, denied, lost, away, mixed>>
      /\ job = Idle
    BY DEF StartJob, gate
<1>2. PICK d \in Docs : /\ \E todo \in {Removal, Insertion, Removal \o Insertion} :
                              job' = [doc |-> d, todo |-> todo]
                        /\ used' = used \cup {d}
                        /\ Touch(d)
    BY DEF StartJob
<1>3. PICK todo \in {Removal, Insertion, Removal \o Insertion} : job' = [doc |-> d, todo |-> todo]
    BY <1>2
<1>4. Staged(todo) /\ todo[1] \in {"-vectors", "+vectors"}
    BY Stages
<1>5. job'.doc = d /\ job'.todo = todo
    BY <1>3
<1>6. touched' \in [Searches -> SUBSET Docs] /\ \A r \in Searches : SearchInv(r)'
    BY <1>1, <1>2, <1>5, WriteSeen
<1>7. SetTypes'
    BY <1>1, <1>2, <1>5, <1>6 DEF PageInv, SetTypes
<1>8. Halfway'
    BY <1>4, <1>5 DEF Halfway
<1>9. Followed'
    BY <1>1, DocsAssumption DEF PageInv, MirrorInv, GateInv, GateTypes, SetTypes, Followed, Idle
<1> QED BY <1>6, <1>7, <1>8, <1>9 DEF PageInv

LEMMA JobPages ==
    ASSUME PageInv, MirrorInv', DoJob
    PROVE  PageInv'
<1> DEFINE d == job.doc
           op == Head(job.todo)
<1>1. /\ job \in [doc : Docs, todo : Seq(Calls)] /\ d \in Docs /\ d \in used /\ Staged(job.todo)
      /\ job # Idle
    BY DEF PageInv, MirrorInv, StoreTypes, SetTypes, Halfway, DoJob
<1>2. op = job.todo[1] /\ op \in Calls
    BY <1>1, HeadTailProperties DEF Staged
<1>3. /\ UNCHANGED <<used, rules, at, search, allowed, denied, lost, away>>
      /\ mixed' = mixed \cup Crossed /\ Touch(d)
    BY DEF DoJob, gate
<1>4. job' = IF Len(job.todo) = 1 THEN Idle ELSE [job EXCEPT !.todo = Tail(@)]
    BY DEF DoJob
<1>5. /\ row' = IF op = "-row" THEN [row EXCEPT ![d] = "none"]
                ELSE IF op = "+row" THEN [row EXCEPT ![d] = "active"] ELSE row
    BY DEF DoJob
<1>6. /\ vectors' = IF op = "-vectors" THEN vectors \ {d}
                    ELSE IF op = "+vectors" THEN vectors \cup {d} ELSE vectors
      /\ words' = IF op = "-words" THEN words \ {d}
                  ELSE IF op = "+words" THEN words \cup {d} ELSE words
    BY DEF DoJob
<1>7. /\ Len(job.todo) # 1 => /\ job'.doc = d /\ job'.todo = Tail(job.todo)
                              /\ Staged(job'.todo) /\ job'.todo[1] \in Calls
                              /\ job'.todo[1] = "-words" => op = "-vectors"
                              /\ job'.todo[1] = "-chunks" => op = "-words"
                              /\ job'.todo[1] = "-row" => op = "-chunks"
                              /\ job'.todo[1] = "+chunks" => op = "+row"
      /\ Len(job.todo) = 1 => job' = Idle /\ op \in {"-row", "+chunks"}
  <2>1. CASE Len(job.todo) = 1
      BY <1>1, <1>2, <1>4, <2>1 DEF Staged
  <2>2. CASE Len(job.todo) # 1
    <3>1. job' = [doc |-> d, todo |-> Tail(job.todo)]
        BY <1>1, <1>4, <2>2
    <3>2. job'.doc = d /\ job'.todo = Tail(job.todo)
        BY <3>1
    <3> QED BY <1>1, <1>2, <2>2, <3>2, Stages
  <2> QED BY <2>1, <2>2
<1>8. /\ op \in {"-words", "-chunks", "-row"} => d \notin vectors
      /\ op \in {"-chunks", "-row"} => d \notin words
      /\ op = "+chunks" => row[d] # "none"
    BY <1>1, <1>2 DEF PageInv, Halfway
<1>9. /\ \A e \in Docs : e # d => row'[e] = row[e]
      /\ op = "+row" => row'[d] = "active"
      /\ op \notin {"-row", "+row"} => row' = row
    BY <1>1, <1>5 DEF PageInv, MirrorInv, StoreTypes
<1>10. vectors \subseteq used /\ words \subseteq used /\ used \subseteq Docs
    BY DEF PageInv, SetTypes, MirrorInv, GateInv, GateTypes
<1> HIDE DEF op, d
<1>11. touched' \in [Searches -> SUBSET Docs] /\ \A r \in Searches : SearchInv(r)'
  <2>1. job'.doc \in {d, NoDoc}
      BY <1>7 DEF Idle
  <2>2. \A e \in Docs \ {d} : row'[e] = row[e]
      BY <1>9
  <2> QED BY <1>1, <1>3, <2>1, <2>2, WriteSeen
<1>12. SetTypes'
  <2>1. vectors' \subseteq used /\ words' \subseteq used
      BY <1>1, <1>6, <1>10
  <2>2. job' # Idle => job'.doc \in used
      BY <1>1, <1>7
  <2>3. mixed' \subseteq Docs
      BY <1>3 DEF Crossed, PageInv, SetTypes
  <2> QED BY <1>3, <1>11, <2>1, <2>2, <2>3 DEF PageInv, SetTypes
<1>13. Halfway'
  <2> SUFFICES ASSUME Len(job.todo) # 1 PROVE Halfway'
      BY <1>7 DEF Halfway
  <2>1. job'.todo[1] \in {"-words", "-chunks", "-row"} => d \notin vectors'
      BY <1>6, <1>7, <1>8
  <2>2. job'.todo[1] \in {"-chunks", "-row"} => d \notin words'
      BY <1>6, <1>7, <1>8
  <2>3. job'.todo[1] = "+chunks" => row'[d] # "none"
      BY <1>7, <1>9
  <2> QED BY <1>7, <2>1, <2>2, <2>3 DEF Halfway
<1>14. Followed'
  <2> SUFFICES ASSUME NEW e \in vectors' \cup words', e # job'.doc PROVE row'[e] # "none"
      BY DEF Followed
  <2>1. CASE e # d
    <3>1. e \in vectors \cup words /\ e \in Docs
        BY <1>6, <1>10, <2>1
    <3> QED BY <1>9, <2>1, <3>1 DEF PageInv, Followed, d
  <2>2. CASE e = d
    <3>1. op \in {"-row", "+chunks"}
        BY <1>7, <2>2
    <3>2. op # "-row"
        BY <1>6, <1>8, <2>2
    <3> QED BY <1>8, <1>9, <2>2, <3>1, <3>2
  <2> QED BY <2>1, <2>2
<1> QED BY <1>11, <1>12, <1>13, <1>14 DEF PageInv

LEMMA RowPages ==
    ASSUME PageInv, MirrorInv', NEW p \in Patches, PatchRow(p)
    PROVE  PageInv'
<1> DEFINE d == patch[p].doc
<1>1. /\ UNCHANGED <<vectors, words, used, job, rules, search, allowed, denied, lost, away>>
      /\ row' = [row EXCEPT ![d] = IF @ = "none" THEN @ ELSE patch[p].status]
      /\ mixed' = mixed \cup Crossed /\ Touch(d)
    BY DEF PatchRow, gate
<1>2. d \in Docs /\ patch[p].status \in Statuses
    BY DEF PageInv, MirrorInv, GateInv, GateTypes
<1>3. /\ \A e \in Docs \ {d} : row'[e] = row[e]
      /\ \A e \in Docs : row[e] # "none" => row'[e] # "none"
    BY <1>1, <1>2 DEF PageInv, MirrorInv, StoreTypes, Statuses
<1>4. \A r \in Searches : at'[r] = at[r]
    BY ActorAssumption DEF PatchRow, Go, PageInv, MirrorInv, GateInv, GateTypes, Requests
<1> HIDE DEF d
<1>5. touched' \in [Searches -> SUBSET Docs] /\ \A r \in Searches : SearchInv(r)'
    BY <1>1, <1>2, <1>3, <1>4, WriteSeen
<1>6. SetTypes'
    BY <1>1, <1>5 DEF PageInv, SetTypes, Crossed
<1>7. Halfway'
  <2>1. job # Idle => job.doc \in Docs
      BY DEF PageInv, SetTypes, MirrorInv, GateInv, GateTypes
  <2> QED BY <1>1, <1>3, <2>1 DEF PageInv, Halfway
<1>8. Followed'
  <2>1. vectors \cup words \subseteq Docs
      BY DEF PageInv, SetTypes, MirrorInv, GateInv, GateTypes
  <2> QED BY <1>1, <1>3, <2>1 DEF PageInv, Followed
<1> QED BY <1>5, <1>6, <1>7, <1>8 DEF PageInv

-----------------------------------------------------------------------------
(* The other steps.                                                         *)

\* A step of one search after its check.
LEMMA OwnPages ==
    ASSUME PageInv, MirrorInv', NEW r \in Searches,
           Prepare(r) \/ Read(r) \/ Filter(r) \/ Rerank(r) \/ Compose(r) \/ Log(r)
    PROVE  PageInv'
<1>1. UNCHANGED <<row, vectors, words, used, job, rules, allowed, denied, lost, away, mixed>>
    BY DEF Prepare, Read, Filter, Rerank, Compose, Log, stores, history, gate
<1>2. search' \in [Searches -> SearchRecord] /\ SearchInv(r)'
    BY PrepareKeeps, ReadKeeps, FilterKeeps, RerankKeeps, ComposeKeeps, LogKeeps
<1>3. /\ \A q \in Searches : q # r => search'[q] = search[q] /\ touched'[q] = touched[q]
                                      /\ at'[q] = at[q]
      /\ touched' \in [Searches -> SUBSET Docs]
  <2> USE DEF PageInv, MirrorInv, GateInv, GateTypes, SetTypes, Requests
  <2>1. CASE Prepare(r)
      BY <2>1 DEF Prepare, Drop, Go
  <2>2. CASE Read(r)
      BY <2>2 DEF Read, history
  <2>3. CASE Filter(r)
      BY <2>3 DEF Filter, Go, history
  <2>4. CASE Rerank(r)
      BY <2>4 DEF Rerank, Go, history
  <2>5. CASE Compose(r) \/ Log(r)
      BY <2>5 DEF Compose, Log, Drop, Go
  <2> QED BY <2>1, <2>2, <2>3, <2>4, <2>5
<1>4. ASSUME NEW q \in Searches PROVE SearchInv(q)'
  <2>1. CASE q # r
    <3>1. Searching(q)' => Searching(q)
        BY <1>3, <2>1 DEF Searching
    <3> QED BY <1>1, <1>3, <2>1, <3>1, Unseen
  <2> QED BY <1>2, <2>1
<1>5. SetTypes'
    BY <1>1, <1>2, <1>3 DEF PageInv, SetTypes
<1> QED BY <1>1, <1>4, <1>5, StoresSame DEF PageInv

LEMMA BeginPages ==
    ASSUME PageInv, MirrorInv', NEW r \in Searches, BeginSearch(r)
    PROVE  PageInv'
<1>1. /\ UNCHANGED <<row, vectors, words, used, job, rules, search, lost, away, mixed>>
      /\ allowed' \subseteq allowed \cup {r} /\ denied' \subseteq denied \cup {r}
    BY DEF BeginSearch, stores, Judged
<1>2. /\ touched' \in [Searches -> SUBSET Docs]
      /\ \A q \in Searches : q # r => touched'[q] = touched[q] /\ at'[q] = at[q]
  <2>1. {job.doc} \ {NoDoc} \subseteq Docs
      BY DEF PageInv, MirrorInv, StoreTypes, Idle
  <2> QED BY <2>1 DEF BeginSearch, Go, PageInv, MirrorInv, GateInv, GateTypes, SetTypes, Requests
<1>3. ASSUME NEW q \in Searches PROVE SearchInv(q)'
  <2>1. CASE q # r
    <3>1. Searching(q)' => Searching(q)
        BY <1>2, <2>1 DEF Searching
    <3> QED BY <1>1, <1>2, <2>1, <3>1, Unseen
  <2> QED BY <2>1, BeginKeeps
<1>4. SetTypes'
    BY <1>1, <1>2 DEF PageInv, SetTypes, Requests
<1> QED BY <1>1, <1>3, <1>4, StoresSame DEF PageInv

\* A step of the gate, of an administrator, or of a patch that writes no row.
LEMMA OtherPages ==
    ASSUME PageInv, MirrorInv',
           UNCHANGED <<row, vectors, words, used, job, search, touched>>,
           rules' \subseteq RuleSet, allowed' \cup denied' \subseteq Requests,
           lost' \subseteq Requests, away' \subseteq Patches, mixed' \subseteq Docs,
           \A r \in Searches :
              \/ at'[r] = at[r]
              \/ /\ at[r] \in {"rules", "check"}
                 /\ at'[r] \in {"rules", "check", "prepare", "refused", "unavailable"}
    PROVE  PageInv'
<1>1. ASSUME NEW r \in Searches PROVE SearchInv(r)'
  <2>1. \/ at'[r] = at[r]
        \/ {at[r], at'[r]} \cap {"fetch", "rerank", "compose", "log"} = {}
      OBVIOUS
  <2>2. Searching(r)' => Searching(r)
      BY DEF Searching, Ended
  <2> QED BY <2>1, <2>2, Unseen
<1>2. SetTypes'
    BY DEF PageInv, SetTypes
<1> QED BY <1>1, <1>2, StoresSame DEF PageInv

LEMMA NextPages == PageInv /\ [Next]_vars => PageInv'
<1> SUFFICES ASSUME PageInv, [Next]_vars PROVE PageInv'
    OBVIOUS
<1>0. /\ MirrorInv' /\ GateTypes /\ SetTypes
    BY NextMirror DEF PageInv, MirrorInv, GateInv
<1> USE ActorAssumption DEF Requests
<1>1. ASSUME NEW r \in Searches, BeginSearch(r) PROVE PageInv'
    BY <1>0, <1>1, BeginPages
<1>2. ASSUME NEW r \in Searches,
             Prepare(r) \/ Read(r) \/ Filter(r) \/ Rerank(r) \/ Compose(r) \/ Log(r)
      PROVE  PageInv'
    BY <1>0, <1>2, OwnPages
<1>3. ASSUME NEW p \in Patches, BeginPatch(p) \/ Resolve(p) \/ GetDocument(p) \/ PatchChunks(p)
      PROVE  PageInv'
  <2>1. UNCHANGED <<row, vectors, words, used, job, search, touched, rules, lost>>
      BY <1>3 DEF BeginPatch, Resolve, GetDocument, PatchChunks, stores, gate
  <2>2. /\ allowed' \subseteq allowed \cup {p} /\ denied' \subseteq denied \cup {p}
        /\ away' \subseteq away \cup {p} /\ mixed' \subseteq mixed \cup Docs
      BY <1>3 DEF BeginPatch, Resolve, GetDocument, PatchChunks, gate, Judged, Crossed
  <2>3. \A r \in Searches : at'[r] = at[r]
      BY <1>0, <1>3 DEF BeginPatch, Resolve, GetDocument, PatchChunks, Go, GateTypes
  <2>4. /\ rules' \subseteq RuleSet /\ allowed' \cup denied' \subseteq Requests
        /\ lost' \subseteq Requests /\ away' \subseteq Patches /\ mixed' \subseteq Docs
      BY <1>0, <2>1, <2>2 DEF SetTypes
  <2> QED BY <1>0, <2>1, <2>3, <2>4, OtherPages
<1>4. ASSUME NEW p \in Patches, PatchRow(p) PROVE PageInv'
    BY <1>0, <1>4, RowPages
<1>5. ASSUME NEW r \in Requests, ReadRules(r) \/ CheckRules(r) PROVE PageInv'
  <2>1. UNCHANGED <<row, vectors, words, used, job, search, touched, rules, mixed>>
      BY <1>5 DEF ReadRules, CheckRules, stores
  <2>2. /\ allowed' \subseteq allowed /\ denied' \subseteq denied
        /\ away' \subseteq away /\ lost' \subseteq lost
      BY <1>5 DEF ReadRules, CheckRules, Admit, Leave, gate
  <2>3. \A q \in Searches :
           \/ at'[q] = at[q]
           \/ /\ at[q] \in {"rules", "check"}
              /\ at'[q] \in {"rules", "check", "prepare", "refused", "unavailable"}
      BY <1>0, <1>5 DEF ReadRules, CheckRules, Admit, Leave, Go, GateTypes
  <2>4. /\ rules' \subseteq RuleSet /\ allowed' \cup denied' \subseteq Requests
        /\ lost' \subseteq Requests /\ away' \subseteq Patches /\ mixed' \subseteq Docs
      BY <1>0, <2>1, <2>2 DEF SetTypes
  <2> QED BY <1>0, <2>1, <2>3, <2>4, OtherPages
<1>6. CASE AddRule \/ DeleteRule
  <2>1. UNCHANGED <<row, vectors, words, used, job, search, touched, at, away, mixed>>
      BY <1>6 DEF AddRule, DeleteRule, stores
  <2>2. rules' \subseteq RuleSet /\ lost' \subseteq Requests
      BY <1>0, <1>6 DEF AddRule, DeleteRule, SetTypes
  <2>3. Checking \subseteq Requests
      BY DEF Checking
  <2>4. allowed' \cup denied' \subseteq Requests
      BY <1>0, <1>6, <2>3 DEF AddRule, DeleteRule, Judged, SetTypes
  <2>5. away' \subseteq Patches /\ mixed' \subseteq Docs
      BY <1>0, <2>1 DEF SetTypes
  <2> QED BY <1>0, <2>1, <2>2, <2>4, <2>5, OtherPages
<1>7. CASE StartJob
    BY <1>0, <1>7, StartPages
<1>8. CASE DoJob
    BY <1>0, <1>8, JobPages
<1>9. CASE UNCHANGED vars
  <2>1. UNCHANGED <<row, vectors, words, used, job, search, touched, at, rules,
                    allowed, denied, lost, away, mixed>>
      BY <1>9 DEF vars, gate
  <2>2. /\ rules' \subseteq RuleSet /\ allowed' \cup denied' \subseteq Requests
        /\ lost' \subseteq Requests /\ away' \subseteq Patches /\ mixed' \subseteq Docs
      BY <1>0, <2>1 DEF SetTypes
  <2> QED BY <1>0, <2>1, <2>2, OtherPages
<1> QED BY <1>1, <1>2, <1>3, <1>4, <1>5, <1>6, <1>7, <1>8, <1>9 DEF Next

\* The lists a search reads are pages of what the stores held, and what it keeps
\* of them has the status it asked for, in every behaviour.
THEOREM PagesCorrect == Spec => []PageInv
<1> QED BY InitPages, NextPages, PTL DEF Spec

\* Every variable has its kind, whatever the sizes, the shapes and the rules.
THEOREM RetrievalTypeCorrect == Spec => []TypeOK
<1>1. PageInv => TypeOK
  <2> SUFFICES ASSUME PageInv PROVE TypeOK
      OBVIOUS
  <2>1. GateTypes /\ StoreTypes /\ SetTypes
      BY DEF PageInv, MirrorInv, GateInv
  <2>2. /\ row \in [Docs -> Statuses \cup {"none"}]
        /\ mirror \in [Docs -> [status : Statuses \cup {"none"}, quoted : BOOLEAN]]
      BY <2>1 DEF StoreTypes
  <2>3. vectors \subseteq used /\ words \subseteq used /\ used \subseteq Docs
      BY <2>1 DEF SetTypes, GateTypes
  <2>4. job.doc \in Docs \cup {NoDoc} /\ (job.doc = NoDoc) = (job.todo = <<>>)
    <3>1. CASE job = Idle
        BY <3>1 DEF Idle
    <3>2. CASE job # Idle
      <4>1. job \in [doc : Docs, todo : Seq(Calls)] /\ job.todo # <<>>
          BY <2>1, <3>2 DEF StoreTypes, Planned
      <4> QED BY <4>1, DocsAssumption
    <3> QED BY <3>1, <3>2
  <2>5. who \in [Requests -> Callers] /\ at \in [Requests -> Steps]
      BY <2>1 DEF GateTypes
  <2>6. ASSUME NEW r \in Searches
        PROVE  /\ search[r].shape \in Shapes
               /\ DOMAIN search[r].lists \subseteq Reads(r) \X ToSet(search[r].queries)
               /\ ToSet(search[r].hits) \subseteq Hit
    <3>1. search[r] \in SearchRecord
        BY <2>1 DEF SetTypes
    <3>2. search[r].shape \in Shapes /\ search[r].hits \in Seq(Hit)
        BY <3>1 DEF SearchRecord
    <3>3. ToSet(search[r].hits) \subseteq Hit
        BY <3>2, LenProperties, ElementOfSeq DEF ToSet
    <3> QED BY <3>2, <3>3 DEF PageInv, SearchInv, ListsSound
  <2>7. patch \in [Patches -> [doc : Docs, status : Statuses]]
      BY <2>1 DEF GateTypes
  <2> QED BY <2>1, <2>2, <2>3, <2>4, <2>5, <2>6, <2>7 DEF TypeOK, SetTypes
<1> QED BY <1>1, PagesCorrect, PTL

\* In every answer, a document that did not change during the search has the
\* status the search asked for (_apply_status_filter), whatever is written
\* meanwhile: the chunks were indexed under an older status, the statuses are
\* read once, and what was read from an index has a row or is on record.
THEOREM StatusHonouredCorrect == Spec => []StatusHonoured
<1>1. PageInv => StatusHonoured
  <2> SUFFICES ASSUME PageInv, NEW r \in Searches, at[r] = "log",
                      NEW h \in ToSet(search[r].hits),
                      DocHit(h) \notin touched[r], search[r].shape.status # "all"
               PROVE  row[DocHit(h)] = search[r].shape.status
      BY DEF StatusHonoured, Answered
  <2>1. h.chunk \in ChunksOf(search[r].hits)
      BY DEF ToSet, ChunksOf
  <2> QED BY <2>1 DEF PageInv, SearchInv, Selected, DocHit
<1> QED BY <1>1, PagesCorrect, PTL

\* As many chunks as hits.
LEMMA OnceCount ==
    ASSUME NEW hits \in Seq(Hit), Once(hits)
    PROVE  Cardinality({h.chunk : h \in ToSet(hits)}) = Len(hits)
<1> DEFINE n == Len(hits)
           S == {h.chunk : h \in ToSet(hits)}
           f == [i \in 1..n |-> hits[i].chunk]
<1>1. n \in Nat /\ DOMAIN hits = 1..n
    BY LenProperties
<1>2. \A i, j \in 1..n : hits[i].chunk = hits[j].chunk => i = j
    BY DEF Once
<1>3. /\ \A i \in 1..n : hits[i].chunk \in S
      /\ \A c \in S : \E i \in 1..n : c = hits[i].chunk
    BY <1>1 DEF ToSet
<1> HIDE DEF n, S
<1>4. f \in Bijection(1..n, S)
    BY <1>2, <1>3 DEF Bijection, Injection, Surjection, IsInjective
<1>5. ExistsBijection(1..n, S)
    BY <1>4 DEF ExistsBijection
<1>6. IsFiniteSet(1..n) /\ Cardinality(1..n) = n
    BY <1>1, FS_Interval
<1>7. Cardinality(1..n) = Cardinality(S)
    BY <1>5, <1>6, FS_Bijection
<1> QED BY <1>6, <1>7 DEF n, S

\* No answer has more than top_k hits, or a chunk twice, for any top_k, any
\* multiplier, any number of queries, and whatever the stores hold.
THEOREM PageSoundCorrect == Spec => []PageSound
<1>1. PageInv => PageSound
  <2> SUFFICES ASSUME PageInv, NEW r \in Searches, at[r] = "log"
               PROVE  /\ Len(search[r].hits) <= K
                      /\ Cardinality({h.chunk : h \in ToSet(search[r].hits)}) = Len(search[r].hits)
      BY DEF PageSound, Answered
  <2>1. search[r].hits \in Seq(Hit)
      BY DEF PageInv, SetTypes, SearchRecord
  <2>2. Once(search[r].hits) /\ Len(search[r].hits) <= K
      BY DEF PageInv, SearchInv, Selected
  <2> QED BY <2>1, <2>2, OnceCount
<1> QED BY <1>1, PagesCorrect, PTL

-----------------------------------------------------------------------------
(* Pages with nothing passed over.                                          *)

\* Hits of query q, the nearest first, among which every nearer chunk of C is.
Leading(hits, q, C) ==
    /\ hits \in Seq(Hit) /\ Once(hits) /\ Sorted(hits, q)
    /\ \A i \in 1..Len(hits) : hits[i].full = TRUE
    /\ \A i \in 1..Len(hits), c \in C :
          Nearness[q][c] > Nearness[q][hits[i].chunk] => c \in ChunksOf(hits)

\* The places of the hits of some chunks.
Those(hits, T) == {i \in DOMAIN hits : hits[i].chunk \in T}

LEMMA ChunkPlace ==
    ASSUME NEW hits \in Seq(Hit)
    PROVE  /\ \A c : c \in ChunksOf(hits) <=> \E i \in 1..Len(hits) : hits[i].chunk = c
           /\ \A i \in 1..Len(hits) : hits[i] \in Hit /\ hits[i].chunk \in Chunks
<1>1. DOMAIN hits = 1..Len(hits) /\ \A i \in 1..Len(hits) : hits[i] \in Hit
    BY LenProperties, ElementOfSeq
<1>2. \A h \in Hit : h.chunk \in Chunks
    BY DEF Hit
<1> QED BY <1>1, <1>2 DEF ChunksOf

LEMMA OnceCard ==
    ASSUME NEW hits \in Seq(Hit), Once(hits)
    PROVE  /\ IsFiniteSet(ChunksOf(hits)) /\ Cardinality(ChunksOf(hits)) = Len(hits)
           /\ Len(hits) \in Nat
<1>1. {h.chunk : h \in ToSet(hits)} = ChunksOf(hits)
    BY DEF ToSet, ChunksOf
<1>2. ChunksOf(hits) \in SUBSET Chunks /\ IsFiniteSet(Chunks)
    BY ChunksIn, DataAssumption
<1>3. IsFiniteSet(ChunksOf(hits))
    BY <1>2, FS_Subset
<1> QED BY <1>1, <1>3, OnceCount, LenProperties

LEMMA FewerLead ==
    ASSUME NEW hits, NEW q, NEW C, Leading(hits, q, C), NEW D \in SUBSET C
    PROVE  Leading(hits, q, D)
BY DEF Leading

\* A filter on the chunk.
LEMMA ThoseIs ==
    ASSUME NEW hits, NEW q, NEW C, Leading(hits, q, C), NEW T
    PROVE  LET a == At(hits, Those(hits, T))
           IN  /\ Leading(a, q, C \cap T)
               /\ ChunksOf(a) = ChunksOf(hits) \cap T
               /\ ChunksOf(hits) \in SUBSET T => Len(a) = Len(hits)
<1> DEFINE P == Those(hits, T)
           a == At(hits, P)
<1>1. /\ hits \in Seq(Hit) /\ Once(hits) /\ Sorted(hits, q)
      /\ DOMAIN hits = 1..Len(hits) /\ Len(hits) \in Nat
    BY LenProperties DEF Leading
<1>2. P \in SUBSET (DOMAIN hits) /\ \A i \in 1..Len(hits) : i \in P <=> hits[i].chunk \in T
    BY <1>1 DEF Those
<1> HIDE DEF P
<1>3. a \in Seq(Hit) /\ Once(a) /\ Sorted(a, q) /\ Len(a) = Cardinality(P)
    BY <1>1, <1>2, AtIs, AtOnce, AtSorted
<1>4. /\ \A i \in 1..Len(a) : \E p \in P : a[i] = hits[p]
      /\ \A p \in P : \E i \in 1..Len(a) : a[i] = hits[p]
    BY <1>1, <1>2, AtMembers
<1> HIDE DEF a
<1>5. \A i \in 1..Len(a) : a[i].chunk \in T /\ \E p \in 1..Len(hits) : a[i] = hits[p]
    BY <1>1, <1>2, <1>4
<1>6. ChunksOf(a) = ChunksOf(hits) \cap T
  <2>1. \A c : c \in ChunksOf(a) => c \in ChunksOf(hits) /\ c \in T
      BY <1>1, <1>3, <1>5, ChunkPlace
  <2>2. ASSUME NEW c \in ChunksOf(hits), c \in T PROVE c \in ChunksOf(a)
    <3>1. PICK i \in 1..Len(hits) : hits[i].chunk = c
        BY <1>1, <2>2, ChunkPlace
    <3>2. i \in P
        BY <1>2, <2>2, <3>1
    <3>3. PICK j \in 1..Len(a) : a[j] = hits[i]
        BY <1>4, <3>2
    <3> QED BY <1>3, <3>1, <3>3, ChunkPlace
  <2> QED BY <2>1, <2>2
<1>7. ASSUME NEW i \in 1..Len(a), NEW c \in C \cap T,
             Nearness[q][c] > Nearness[q][a[i].chunk]
      PROVE  c \in ChunksOf(a)
  <2>1. PICK p \in 1..Len(hits) : a[i] = hits[p]
      BY <1>5
  <2>2. c \in ChunksOf(hits)
      BY <1>7, <2>1 DEF Leading
  <2> QED BY <1>6, <2>2
<1>8. \A i \in 1..Len(a) : a[i].full = TRUE
    BY <1>5 DEF Leading
<1>9. Leading(a, q, C \cap T)
    BY <1>3, <1>7, <1>8 DEF Leading
<1>10. ChunksOf(hits) \in SUBSET T => Len(a) = Len(hits)
  <2>1. ChunksOf(hits) \in SUBSET T => ChunksOf(a) = ChunksOf(hits)
      BY <1>6
  <2> QED BY <1>1, <1>3, <2>1, OnceCard
<1> QED BY <1>6, <1>9, <1>10 DEF a, P

LEMMA UptoLeads ==
    ASSUME NEW q \in Queries, NEW C \in SUBSET Chunks, NEW hits, Leading(hits, q, C), NEW n \in Nat
    PROVE  /\ Leading(Upto(hits, n), q, C)
           /\ Len(Upto(hits, n)) = (IF n <= Len(hits) THEN n ELSE Len(hits))
           /\ ChunksOf(Upto(hits, n)) \in SUBSET ChunksOf(hits)
<1> DEFINE a == Upto(hits, n)
<1>1. hits \in Seq(Hit) /\ Once(hits) /\ Sorted(hits, q) /\ Len(hits) \in Nat
    BY LenProperties DEF Leading
<1>2. /\ a \in Seq(Hit) /\ Once(a) /\ Len(a) = (IF n <= Len(hits) THEN n ELSE Len(hits))
      /\ \A i \in 1..Len(a) : i \in 1..Len(hits) /\ a[i] = hits[i]
    BY <1>1, UptoIs, UptoOnce
<1> HIDE DEF a
<1>3. Sorted(a, q)
    BY <1>1, <1>2 DEF Sorted
<1>4. \A i \in 1..Len(a) : a[i].full = TRUE
    BY <1>2 DEF Leading
<1>5. ASSUME NEW i \in 1..Len(a), NEW c \in C, Nearness[q][c] > Nearness[q][a[i].chunk]
      PROVE  c \in ChunksOf(a)
  <2>1. i \in 1..Len(hits) /\ a[i] = hits[i]
      BY <1>2
  <2>2. c \in ChunksOf(hits)
      BY <1>5, <2>1 DEF Leading
  <2>3. PICK j \in 1..Len(hits) : hits[j].chunk = c
      BY <1>1, <2>2, ChunkPlace
  <2>4. Nearness[q][c] \in Nat /\ Nearness[q][hits[i].chunk] \in Nat
      BY <1>1, <2>1, ChunkPlace, DataAssumption
  <2>5. ~(i < j) /\ i # j
      BY <1>1, <1>5, <2>1, <2>3, <2>4 DEF Sorted
  <2>6. j \in 1..Len(a)
      BY <1>1, <1>2, <2>1, <2>5
  <2> QED BY <1>2, <2>3, <2>6, ChunkPlace
<1>6. ChunksOf(a) \in SUBSET ChunksOf(hits)
  <2>1. \A c \in ChunksOf(a) : \E i \in 1..Len(hits) : hits[i].chunk = c
      BY <1>2, ChunkPlace
  <2> QED BY <1>1, <2>1, ChunkPlace
<1> QED BY <1>2, <1>3, <1>4, <1>5, <1>6 DEF Leading, a

\* The stored chunks that are near enough.
Over(q, least) == {c \in Vectored : Nearness[q][c] >= least}

\* What the table returns: the nearest of those, and all of them if it returns
\* fewer than it was asked for.
LEMMA NearLeads ==
    ASSUME NEW q \in Queries, NEW n \in Nat, NEW least \in Nat
    PROVE  /\ Leading(Near(q, n, least), q, Vectored)
           /\ ChunksOf(Near(q, n, least)) \in SUBSET Over(q, least)
           /\ Len(Near(q, n, least)) < n =>
                 ChunksOf(Near(q, n, least)) = Over(q, least)
<1> DEFINE score == Nearness[q]
           rows == Best(Vectored, score, TRUE, n)
           a == Near(q, n, least)
<1>1. /\ Vectored \in SUBSET Chunks /\ \A c \in Vectored : score[c] \in Nat
      /\ \A b, c \in Vectored : b # c => score[b] # score[c]
    BY DataAssumption DEF Vectored
<1>2. a = At(rows, {i \in DOMAIN rows : rows[i].score >= least})
    BY DEF Near, Vectored
<1> HIDE DEF score, a
<1>3. /\ Cardinality(Vectored) \in Nat
      /\ rows \in Seq(Hit) /\ Once(rows)
      /\ Len(rows) = (IF n <= Cardinality(Vectored) THEN n ELSE Cardinality(Vectored))
      /\ \A i \in 1..Len(rows) : /\ rows[i].chunk \in Vectored
                                 /\ rows[i].full = TRUE
                                 /\ rows[i].score = score[rows[i].chunk]
      /\ \A i, j \in 1..Len(rows) : i < j => score[rows[i].chunk] > score[rows[j].chunk]
      /\ \A i \in 1..Len(rows), c \in Vectored : score[c] > score[rows[i].chunk] =>
            \E j \in 1..Len(rows) : rows[j].chunk = c
      /\ n >= Cardinality(Vectored) =>
            \A c \in Vectored : \E j \in 1..Len(rows) : rows[j].chunk = c
  <2>1. Cardinality(Vectored) \in Nat /\ Foremost(rows, Vectored, score, TRUE, n)
      BY <1>1, BestIs
  <2> HIDE DEF rows
  <2> QED BY <2>1 DEF Foremost
<1> HIDE DEF rows
<1>4. \A i, j \in 1..Len(rows) : i < j => score[rows[i].chunk] > score[rows[j].chunk]
    BY <1>3
<1>5. \A i \in 1..Len(rows), c \in Vectored : score[c] > score[rows[i].chunk] =>
          \E j \in 1..Len(rows) : rows[j].chunk = c
    BY <1>3
<1>6. n >= Cardinality(Vectored) => \A c \in Vectored : \E j \in 1..Len(rows) : rows[j].chunk = c
    BY <1>3
<1>7. Leading(rows, q, Vectored)
  <2>1. Sorted(rows, q)
      BY <1>4 DEF Sorted, score
  <2>2. \A i \in 1..Len(rows), c \in Vectored :
           Nearness[q][c] > Nearness[q][rows[i].chunk] => c \in ChunksOf(rows)
      BY <1>3, <1>5, ChunkPlace DEF score
  <2> QED BY <1>3, <2>1, <2>2 DEF Leading
<1>8. {i \in DOMAIN rows : rows[i].score >= least} = Those(rows, Over(q, least))
  <2>1. DOMAIN rows = 1..Len(rows)
      BY <1>3, LenProperties
  <2> QED BY <1>3, <2>1 DEF Those, Over, score
<1>9. a = At(rows, Those(rows, Over(q, least)))
    BY <1>2, <1>8
<1>10. /\ Leading(a, q, Vectored \cap Over(q, least))
       /\ ChunksOf(a) = ChunksOf(rows) \cap Over(q, least)
       /\ ChunksOf(rows) \in SUBSET Over(q, least) => Len(a) = Len(rows)
    BY <1>7, <1>9, ThoseIs
<1>11. a \in Seq(Hit)
    BY <1>10 DEF Leading
<1>12. Leading(a, q, Vectored)
  <2>1. ASSUME NEW i \in 1..Len(a), NEW c \in Vectored,
               Nearness[q][c] > Nearness[q][a[i].chunk]
        PROVE  c \in ChunksOf(a)
    <3>1. a[i].chunk \in Over(q, least)
        BY <1>10, <1>11, ChunkPlace
    <3>2. Nearness[q][c] \in Nat /\ Nearness[q][a[i].chunk] \in Nat
        BY <1>1, <3>1 DEF Over, score
    <3>3. c \in Over(q, least)
        BY <2>1, <3>1, <3>2 DEF Over
    <3> QED BY <1>10, <2>1, <3>3 DEF Leading
  <2> QED BY <1>10, <2>1 DEF Leading
<1>13. ASSUME Len(a) < n, NEW c \in Over(q, least) PROVE c \in ChunksOf(a)
  <2>0. c \in Vectored /\ score[c] >= least /\ score[c] \in Nat
      BY <1>1 DEF Over, score
  <2>1. CASE c \in ChunksOf(rows)
      BY <1>10, <2>1
  <2>2. CASE c \notin ChunksOf(rows)
    <3>1. ~(n >= Cardinality(Vectored))
        BY <1>3, <1>6, <2>0, <2>2, ChunkPlace
    <3>2. Len(rows) = n
        BY <1>3, <3>1
    <3>3. ASSUME NEW i \in 1..Len(rows) PROVE rows[i].chunk \in Over(q, least)
      <4>1. ~(score[c] > score[rows[i].chunk])
          BY <1>3, <1>5, <2>0, <2>2, ChunkPlace
      <4>2. score[rows[i].chunk] \in Nat /\ rows[i].chunk \in Vectored
          BY <1>1, <1>3
      <4>3. score[rows[i].chunk] >= least
          BY <2>0, <4>1, <4>2
      <4> QED BY <4>2, <4>3 DEF Over, score
    <3>4. ChunksOf(rows) \in SUBSET Over(q, least)
        BY <1>3, <3>3, MemberChunks
    <3> QED BY <1>10, <1>13, <3>2, <3>4
  <2> QED BY <2>1, <2>2
<1> QED BY <1>10, <1>12, <1>13 DEF a

\* Of at least f chunks no more than f - k are turned down, so k are left, unless
\* there are no more.
LEMMA Enough ==
    ASSUME NEW A, NEW L \in SUBSET A, NEW E \in SUBSET A, IsFiniteSet(A),
           NEW k \in Nat, NEW f \in Nat,
           Cardinality(L) < f => L = A,
           Cardinality(A \ E) + k <= f
    PROVE  Min({k, Cardinality(L \cap E)}) = Min({k, Cardinality(E)})
<1>1. /\ IsFiniteSet(L) /\ IsFiniteSet(E) /\ IsFiniteSet(L \cap E)
      /\ IsFiniteSet(A \ E) /\ IsFiniteSet(L \ E)
    BY FS_Subset
<1>2. /\ Cardinality(L) \in Nat /\ Cardinality(E) \in Nat /\ Cardinality(L \cap E) \in Nat
      /\ Cardinality(A \ E) \in Nat /\ Cardinality(L \ E) \in Nat
    BY <1>1, FS_CardinalityType
<1>3. Cardinality(L \cap E) <= Cardinality(E)
    BY <1>1, FS_Subset
<1>4. CASE Cardinality(L) < f
  <2>1. L \cap E = E
      BY <1>4
  <2> QED BY <2>1
<1>5. CASE ~(Cardinality(L) < f)
  <2>1. Cardinality(L \ E) <= Cardinality(A \ E)
    <3>1. (L \ E) \in SUBSET (A \ E)
        OBVIOUS
    <3> QED BY <1>1, <3>1, FS_Subset
  <2>2. Cardinality(L \ E) = Cardinality(L) - Cardinality(L \cap E)
      BY <1>1, FS_Difference
  <2>3. Cardinality(L \cap E) >= k
      BY <1>2, <1>5, <2>1, <2>2
  <2>4. Cardinality(E) >= k
      BY <1>2, <1>3, <2>3
  <2>5. \A n \in Nat : n >= k => Min({k, n}) = k
      BY Smaller
  <2> QED BY <1>2, <2>3, <2>4, <2>5
<1> QED BY <1>4, <1>5

\* A request by vectors alone, with one query.
Single(r) == ~search[r].shape.hybrid /\ ~search[r].several

\* Stored chunks, and chunks the request is after, of documents that are as they
\* were when it began.
StoredAsWere(r)   == {c \in Vectored : DocOf[c] \notin touched[r]}
EligibleAsWere(r) == {c \in Chunks : DocOf[c] \notin touched[r] /\ Eligible(r, c)}

\* The list that was read leads, and is what the table still returns if no
\* document has changed.
ListLeads(r) ==
    at[r] = "fetch" /\ Single(r) =>
        \A l \in DOMAIN search[r].lists :
            /\ Leading(search[r].lists[l], l[2], StoredAsWere(r))
            /\ touched[r] = {} => search[r].lists[l] = Near(l[2], FetchCount(r), Threshold)

\* The filters have enough hits to choose from.
Fillable(r) ==
    /\ touched[r] = {} /\ search[r].shape.types = {}
    /\ \A d \in vectors : Shown(d, search[r].shape.status)
    /\ Cardinality(Outside(r)) <= K * (Mult - 1)

Filled(r) ==
    Fillable(r) => Len(search[r].hits) = Min({K, Cardinality({c \in Chunks : Eligible(r, c)})})

\* What was selected leads, and is a full page if there is enough.
PageLeads(r) ==
    /\ at[r] = "rerank" => search[r].shape.rerank
    /\ at[r] \in {"compose", "log"} /\ Single(r) /\ ~search[r].shape.rerank =>
          Leading(search[r].hits, Asked(r), EligibleAsWere(r)) /\ Filled(r)

LeadInv(r) == ListLeads(r) /\ PageLeads(r)

LEMMA InitLeads == Init => \A r \in Searches : LeadInv(r)
<1> SUFFICES ASSUME Init, NEW r \in Searches PROVE LeadInv(r)
    OBVIOUS
<1>1. at[r] = "idle"
    BY ActorAssumption DEF Init, Requests
<1> QED BY <1>1 DEF LeadInv, ListLeads, PageLeads

\* Where a search does nothing, and what is done to a document is on its record.
LEMMA LeadKept ==
    ASSUME PageInv, PageInv', NEW r \in Searches, LeadInv(r), search'[r] = search[r],
           at'[r] = "fetch" => at[r] = "fetch",
           at'[r] = "rerank" => at[r] = "rerank",
           at'[r] \in {"compose", "log"} => at[r] \in {"compose", "log"},
           Searching(r) => /\ touched[r] \in SUBSET touched'[r]
                           /\ \A d \in Docs \ touched'[r] : /\ row'[d] = row[d]
                                                            /\ d \in vectors' <=> d \in vectors
    PROVE  LeadInv(r)'
<1> SUFFICES ASSUME at'[r] \in {"fetch", "rerank", "compose", "log"} PROVE LeadInv(r)'
    BY DEF LeadInv, ListLeads, PageLeads
<1>1. /\ touched[r] \in SUBSET touched'[r]
      /\ \A d \in Docs \ touched'[r] : row'[d] = row[d] /\ (d \in vectors' <=> d \in vectors)
  <2>1. Searching(r)
      BY DEF Searching, Ended
  <2> QED BY <2>1
<1>2. /\ row \in [Docs -> Statuses \cup {"none"}] /\ row' \in [Docs -> Statuses \cup {"none"}]
      /\ vectors \subseteq Docs /\ vectors' \subseteq Docs
    BY DEF PageInv, MirrorInv, GateInv, GateTypes, StoreTypes, SetTypes
<1>3. touched'[r] = {} => touched[r] = {} /\ row' = row /\ vectors' = vectors
  <2> SUFFICES ASSUME touched'[r] = {} PROVE touched[r] = {} /\ row' = row /\ vectors' = vectors
      OBVIOUS
  <2>1. \A d \in Docs : row'[d] = row[d] /\ (d \in vectors' <=> d \in vectors)
      BY <1>1
  <2>2. vectors' = vectors
      BY <1>2, <2>1
  <2>3. row' = row
      BY <1>2, <2>1
  <2> QED BY <1>1, <2>2, <2>3
<1>4. \A c \in Chunks : DocOf[c] \in Docs
    BY DataAssumption
<1>5. StoredAsWere(r)' \in SUBSET StoredAsWere(r)
    BY <1>1, <1>4 DEF StoredAsWere, Vectored
<1>6. ASSUME NEW c \in Chunks, DocOf[c] \notin touched'[r] PROVE Eligible(r, c)' <=> Eligible(r, c)
  <2>1. row'[DocOf[c]] = row[DocOf[c]] /\ (DocOf[c] \in vectors' <=> DocOf[c] \in vectors)
      BY <1>1, <1>4, <1>6
  <2>2. \A f : Shown(DocOf[c], f)' <=> Shown(DocOf[c], f)
      BY <2>1 DEF Shown, StatusOf
  <2> QED BY <2>1, <2>2 DEF Eligible, Asked
<1>7. EligibleAsWere(r)' \in SUBSET EligibleAsWere(r)
    BY <1>1, <1>6 DEF EligibleAsWere
<1>8. Single(r)' <=> Single(r)
    BY DEF Single
<1>9. ListLeads(r)'
  <2> SUFFICES ASSUME at'[r] = "fetch", Single(r)', NEW l \in DOMAIN search[r].lists
               PROVE  /\ Leading(search[r].lists[l], l[2], StoredAsWere(r)')
                      /\ touched'[r] = {} =>
                            search[r].lists[l] = Near(l[2], FetchCount(r), Threshold)'
      BY DEF ListLeads
  <2>1. /\ Leading(search[r].lists[l], l[2], StoredAsWere(r))
        /\ touched[r] = {} => search[r].lists[l] = Near(l[2], FetchCount(r), Threshold)
      BY <1>8 DEF LeadInv, ListLeads
  <2>2. FetchCount(r)' = FetchCount(r)
      BY DEF FetchCount
  <2>3. vectors' = vectors =>
            Near(l[2], FetchCount(r), Threshold)' = Near(l[2], FetchCount(r), Threshold)
      BY <2>2 DEF Near
  <2> QED BY <1>3, <1>5, <2>1, <2>3, FewerLead
<1>10. PageLeads(r)'
  <2>1. at'[r] = "rerank" => search'[r].shape.rerank
      BY DEF LeadInv, PageLeads
  <2>2. ASSUME at'[r] \in {"compose", "log"}, Single(r)', ~search'[r].shape.rerank
        PROVE  Leading(search'[r].hits, Asked(r)', EligibleAsWere(r)') /\ Filled(r)'
    <3>1. Leading(search[r].hits, Asked(r), EligibleAsWere(r)) /\ Filled(r)
        BY <1>8, <2>2 DEF LeadInv, PageLeads
    <3>2. Asked(r)' = Asked(r)
        BY DEF Asked
    <3>3. Leading(search'[r].hits, Asked(r)', EligibleAsWere(r)')
        BY <1>7, <3>1, <3>2, FewerLead
    <3>4. ASSUME Fillable(r)' PROVE Filled(r)'
      <4>1. touched'[r] = {} /\ touched[r] = {} /\ vectors' = vectors /\ row' = row
          BY <1>3, <3>4 DEF Fillable
      <4>2. \A c \in Chunks : Eligible(r, c)' <=> Eligible(r, c)
          BY <1>6, <4>1
      <4>3. Outside(r)' = Outside(r)
          BY <4>1, <4>2, <3>2 DEF Outside
      <4>4. {c \in Chunks : Eligible(r, c)}' = {c \in Chunks : Eligible(r, c)}
          BY <4>2
      <4>5. \A d : Shown(d, search[r].shape.status)' <=> Shown(d, search[r].shape.status)
          BY <4>1 DEF Shown, StatusOf
      <4>6. Fillable(r)
          BY <3>4, <4>1, <4>3, <4>5 DEF Fillable
      <4> QED BY <3>1, <4>4, <4>6 DEF Filled
    <3> QED BY <3>3, <3>4 DEF Filled
  <2> QED BY <2>1, <2>2 DEF PageLeads
<1> QED BY <1>9, <1>10 DEF LeadInv

\* What the filters let through, for hits with their document's data.
AsHit(c)        == [chunk |-> c, full |-> TRUE, score |-> 0]
InsideOf(f)     == {c \in Chunks : InFolder(AsHit(c), f)}
TypedOf(ts)     == {c \in Chunks : OfType(AsHit(c), ts)}
ShownOf(status) == {c \in Chunks : Shown(DocOf[c], status)}
OtherThan(d)    == {c \in Chunks : DocOf[c] # d}

LEMMA FiltersAre ==
    ASSUME NEW hits, NEW q, NEW C, Leading(hits, q, C), NEW f, NEW ts, NEW status, NEW d
    PROVE  /\ {i \in DOMAIN hits : InFolder(hits[i], f)} = Those(hits, InsideOf(f))
           /\ {i \in DOMAIN hits : OfType(hits[i], ts)} = Those(hits, TypedOf(ts))
           /\ {i \in DOMAIN hits : Shown(DocHit(hits[i]), status)} = Those(hits, ShownOf(status))
           /\ {i \in DOMAIN hits : DocHit(hits[i]) # d} = Those(hits, OtherThan(d))
<1>1. DOMAIN hits = 1..Len(hits) /\ hits \in Seq(Hit)
    BY LenProperties DEF Leading
<1>2. \A i \in DOMAIN hits : hits[i].full = TRUE /\ hits[i].chunk \in Chunks
    BY <1>1, ChunkPlace DEF Leading
<1>3. \A c : AsHit(c).full = TRUE /\ AsHit(c).chunk = c
    BY DEF AsHit
<1>4. \A i \in DOMAIN hits : /\ InFolder(hits[i], f) <=> hits[i].chunk \in InsideOf(f)
                             /\ OfType(hits[i], ts) <=> hits[i].chunk \in TypedOf(ts)
    BY <1>2, <1>3 DEF InFolder, OfType, DocHit, InsideOf, TypedOf
<1>5. \A i \in DOMAIN hits : /\ Shown(DocHit(hits[i]), status) <=> hits[i].chunk \in ShownOf(status)
                             /\ DocHit(hits[i]) # d <=> hits[i].chunk \in OtherThan(d)
    BY <1>2 DEF DocHit, ShownOf, OtherThan
<1> QED BY <1>4, <1>5 DEF Those

\* A chunk the request is after is a stored chunk, near enough, that passes them.
LEMMA EligibleIs ==
    ASSUME NEW r \in Searches
    PROVE  LET s == search[r].shape
           IN  {c \in Chunks : Eligible(r, c)} =
                   (((Over(Asked(r), Threshold) \cap InsideOf(s.folder)) \cap TypedOf(s.types))
                        \cap ShownOf(s.status)) \cap OtherThan(s.exclude)
BY DEF Eligible, Over, Vectored, InsideOf, TypedOf, ShownOf, OtherThan, AsHit

LEMMA OutsideIs ==
    ASSUME NEW r \in Searches
    PROVE  Outside(r) = Over(Asked(r), Threshold) \ {c \in Chunks : Eligible(r, c)}
BY DEF Outside, Over, Vectored

\* What a shape may ask for.
LEMMA ShapeIs ==
    ASSUME NEW s \in Shapes
    PROVE  /\ s.kind # "similar" => OtherThan(s.exclude) = Chunks
           /\ s.kind = "similar" => s.folder = NoFolder /\ s.types = {}
           /\ s.folder = NoFolder => InsideOf(s.folder) = Chunks
           /\ s.types = {} => TypedOf(s.types) = Chunks
           /\ s.exclude = NoDoc => OtherThan(s.exclude) = Chunks
<1>1. \A c \in Chunks : DocOf[c] # NoDoc
    BY DataAssumption, DocsAssumption
<1>2. OtherThan(NoDoc) = Chunks
    BY <1>1 DEF OtherThan
<1>3. s.kind # "similar" => s.exclude = NoDoc
    BY DataAssumption
<1>4. s.kind = "similar" => s.folder = NoFolder /\ s.types = {}
    BY DataAssumption
<1> QED BY <1>2, <1>3, <1>4 DEF InsideOf, TypedOf, InFolder, OfType

\* The store is asked for as many hits as the filters may take, and a page more.
LEMMA FetchEnough ==
    ASSUME NEW r \in Searches, search[r].shape \in Shapes, Single(r), ~search[r].shape.rerank,
           Fillable(r)
    PROVE  Cardinality(Outside(r)) + K <= FetchCount(r)
<1> DEFINE s == search[r].shape
           q == Asked(r)
           E == {c \in Chunks : Eligible(r, c)}
<1>1. /\ K \in Nat /\ Mult \in Nat /\ K * Mult \in Nat /\ K * (Mult - 1) + K = K * Mult
  <2>1. K \in Nat /\ Mult \in Nat
      BY SizesAre
  <2>2. K * (Mult - 1) = K * Mult - K /\ K * Mult \in Nat
      BY <2>1
  <2> QED BY <2>1, <2>2
<1>2. Over(q, Threshold) \in SUBSET Chunks /\ IsFiniteSet(Chunks)
    BY DataAssumption DEF Over, Vectored
<1>3. IsFiniteSet(Outside(r)) /\ Cardinality(Outside(r)) \in Nat
  <2>1. Outside(r) \in SUBSET Chunks
      BY DEF Outside
  <2> QED BY <1>2, <2>1, FS_Subset, FS_CardinalityType
<1>4. Over(q, Threshold) \in SUBSET ShownOf(s.status) /\ s.types = {}
    BY DEF Fillable, Over, Vectored, ShownOf
<1>5. Cardinality(Outside(r)) + K <= K * Mult
  <2> DEFINE j == K * (Mult - 1)
             m == K * Mult
  <2>1. Cardinality(Outside(r)) <= j /\ j + K = m /\ j \in Int /\ m \in Int
    <3>1. K * (Mult - 1) \in Int
        BY <1>1
    <3> QED BY <1>1, <3>1 DEF Fillable
  <2> HIDE DEF j, m
  <2>2. Cardinality(Outside(r)) + K <= m
      BY <1>1, <1>3, <2>1
  <2> QED BY <2>2 DEF m
<1>6. ASSUME s.folder = NoFolder, OtherThan(s.exclude) = Chunks
      PROVE  Cardinality(Outside(r)) = 0
  <2>1. InsideOf(s.folder) = Chunks /\ TypedOf(s.types) = Chunks
      BY <1>4, <1>6, ShapeIs
  <2>2. E = Over(q, Threshold)
    <3> DEFINE A == Over(q, Threshold)
    <3>1. E = (((A \cap InsideOf(s.folder)) \cap TypedOf(s.types)) \cap ShownOf(s.status))
                  \cap OtherThan(s.exclude)
        BY EligibleIs
    <3> HIDE DEF A, E
    <3>2. A \in SUBSET Chunks /\ A \in SUBSET ShownOf(s.status)
        BY <1>2, <1>4 DEF A
    <3>3. E = (((A \cap Chunks) \cap Chunks) \cap ShownOf(s.status)) \cap Chunks
        BY <1>6, <2>1, <3>1
    <3>4. E = A
        BY <3>2, <3>3
    <3> QED BY <3>4 DEF A
  <2>3. Outside(r) = {}
      BY <2>2, OutsideIs
  <2> QED BY <2>3, FS_EmptySet
<1>7. Pool(s) = K /\ ~search[r].several /\ ~s.hybrid
    BY DEF Pool, Single
<1>8. CASE s.kind = "similar"
  <2>1. FetchCount(r) = IF s.exclude # NoDoc THEN K * Mult ELSE K
      BY <1>7, <1>8 DEF FetchCount
  <2>2. s.folder = NoFolder /\ (s.exclude = NoDoc => OtherThan(s.exclude) = Chunks)
      BY <1>8, ShapeIs
  <2> QED BY <1>1, <1>5, <1>6, <2>1, <2>2
<1>9. CASE s.kind # "similar"
  <2>1. FetchCount(r) = IF s.folder # NoFolder THEN Max({K, K * Mult}) ELSE K
      BY <1>4, <1>7, <1>9 DEF FetchCount
  <2>2. OtherThan(s.exclude) = Chunks
      BY <1>9, ShapeIs
  <2>3. Max({K, K * Mult}) >= K * Mult /\ Max({K, K * Mult}) \in Nat
    <3> DEFINE m == K * Mult
    <3>1. m \in Nat /\ K \in Nat
        BY <1>1
    <3> HIDE DEF m
    <3>2. Max({K, m}) >= m /\ Max({K, m}) \in Nat
        BY <3>1, Larger
    <3> QED BY <3>2 DEF m
  <2> QED BY <1>1, <1>3, <1>5, <1>6, <2>1, <2>2, <2>3
<1> QED BY <1>8, <1>9

\* The list is the nearest hits that were asked for, so what passes the filters
\* fills the page.
LEMMA ListFills ==
    ASSUME PageInv, NEW r \in Searches, Single(r), ~search[r].shape.rerank, Fillable(r),
           Asked(r) \in Queries,
           NEW L, L = Near(Asked(r), FetchCount(r), Threshold)
    PROVE  LET E == {c \in Chunks : Eligible(r, c)}
           IN  Min({K, Cardinality(ChunksOf(L) \cap E)}) = Min({K, Cardinality(E)})
<1> DEFINE q == Asked(r)
           A == Over(q, Threshold)
           E == {c \in Chunks : Eligible(r, c)}
           n == FetchCount(r)
<1>1. n \in Nat /\ K \in Nat /\ Threshold \in Nat
    BY CountIs, SizesAre
<1>2. /\ L \in Seq(Hit) /\ Once(L) /\ ChunksOf(L) \in SUBSET A
      /\ Len(L) < n => ChunksOf(L) = A
    BY <1>1, NearLeads DEF Leading
<1>3. Cardinality(ChunksOf(L)) = Len(L)
    BY <1>2, OnceCard
<1>4. IsFiniteSet(A)
  <2>1. A \in SUBSET Chunks /\ IsFiniteSet(Chunks)
      BY DataAssumption DEF Over, Vectored
  <2> QED BY <2>1, FS_Subset
<1>5. E \in SUBSET A
    BY EligibleIs
<1>6. Cardinality(A \ E) + K <= n
  <2>1. search[r].shape \in Shapes
      BY DEF PageInv, SetTypes, SearchRecord
  <2> QED BY <2>1, FetchEnough, OutsideIs
<1> HIDE DEF A, E, n
<1>7. Min({K, Cardinality(ChunksOf(L) \cap E)}) = Min({K, Cardinality(E)})
    BY <1>1, <1>2, <1>3, <1>4, <1>5, <1>6, Enough
<1> QED BY <1>7 DEF E

\* The page that the filters make of a list.
LEMMA SearchPage ==
    ASSUME PageInv, NEW r \in Searches, Single(r), ~search[r].shape.rerank,
           Asked(r) \in Queries, search[r].shape.kind # "similar",
           NEW L, Leading(L, Asked(r), StoredAsWere(r)),
           Fillable(r) => ChunksOf(L) \in SUBSET Over(Asked(r), Threshold)
    PROVE  LET s    == search[r].shape
               f    == At(L, {i \in DOMAIN L : InFolder(L[i], s.folder)})
               got  == Upto(f, K)
               some == At(got, {i \in DOMAIN got : OfType(got[i], s.types)})
               kept == At(some, {i \in DOMAIN some : Shown(DocHit(some[i]), s.status)})
           IN  /\ Leading(kept, Asked(r), EligibleAsWere(r))
               /\ Fillable(r) =>
                     Len(kept) = Min({K, Cardinality(ChunksOf(L) \cap {c \in Chunks : Eligible(r, c)})})
<1> DEFINE s    == search[r].shape
           q    == Asked(r)
           C    == StoredAsWere(r)
           T1   == InsideOf(s.folder)
           T2   == TypedOf(s.types)
           T3   == ShownOf(s.status)
           f    == At(L, {i \in DOMAIN L : InFolder(L[i], s.folder)})
           got  == Upto(f, K)
           some == At(got, {i \in DOMAIN got : OfType(got[i], s.types)})
           kept == At(some, {i \in DOMAIN some : Shown(DocHit(some[i]), s.status)})
           E    == {c \in Chunks : Eligible(r, c)}
<1>0. C \in SUBSET Chunks /\ K \in Nat /\ search[r].shape \in Shapes
    BY SizesAre DEF StoredAsWere, Vectored, PageInv, SetTypes, SearchRecord
<1>1. Leading(f, q, C \cap T1) /\ ChunksOf(f) = ChunksOf(L) \cap T1
  <2>1. {i \in DOMAIN L : InFolder(L[i], s.folder)} = Those(L, T1)
      BY FiltersAre
  <2> QED BY <2>1, ThoseIs
<1> HIDE DEF f
<1>a. (C \cap T1) \in SUBSET Chunks
    BY <1>0
<1> HIDE DEF C, T1, T2, T3
<1>2. /\ Leading(got, q, C \cap T1) /\ ChunksOf(got) \in SUBSET ChunksOf(f)
      /\ Len(got) = (IF K <= Len(f) THEN K ELSE Len(f))
    BY <1>0, <1>1, <1>a, UptoLeads
<1> HIDE DEF got
<1>3. /\ Leading(some, q, (C \cap T1) \cap T2) /\ ChunksOf(some) = ChunksOf(got) \cap T2
      /\ ChunksOf(got) \in SUBSET T2 => Len(some) = Len(got)
  <2>1. {i \in DOMAIN got : OfType(got[i], s.types)} = Those(got, T2)
      BY <1>2, FiltersAre DEF T2
  <2> QED BY <1>2, <2>1, ThoseIs
<1> HIDE DEF some
<1>4. /\ Leading(kept, q, ((C \cap T1) \cap T2) \cap T3)
      /\ ChunksOf(some) \in SUBSET T3 => Len(kept) = Len(some)
  <2>1. {i \in DOMAIN some : Shown(DocHit(some[i]), s.status)} = Those(some, T3)
      BY <1>3, FiltersAre DEF T3
  <2> QED BY <1>3, <2>1, ThoseIs
<1> HIDE DEF kept
<1>5. E = (((Over(q, Threshold) \cap T1) \cap T2) \cap T3) \cap OtherThan(s.exclude)
    BY EligibleIs DEF T1, T2, T3
<1>6. EligibleAsWere(r) \in SUBSET (((C \cap T1) \cap T2) \cap T3)
  <2>1. \A c \in EligibleAsWere(r) : c \in E /\ DocOf[c] \notin touched[r]
      BY DEF EligibleAsWere
  <2>2. \A c \in Over(q, Threshold) : c \in Vectored
      BY DEF Over
  <2>3. \A c \in Vectored : DocOf[c] \notin touched[r] => c \in C
      BY DEF StoredAsWere, C
  <2> HIDE DEF E
  <2> QED BY <1>5, <2>1, <2>2, <2>3
<1>7. Leading(kept, q, EligibleAsWere(r))
    BY <1>4, <1>6, FewerLead
<1>8. ASSUME Fillable(r) PROVE Len(kept) = Min({K, Cardinality(ChunksOf(L) \cap E)})
  <2> DEFINE A == Over(q, Threshold)
  <2>1. ChunksOf(L) \in SUBSET A /\ A \in SUBSET Chunks
      BY <1>8 DEF Over, Vectored
  <2>2. T2 = Chunks /\ OtherThan(s.exclude) = Chunks
      BY <1>0, <1>8, ShapeIs DEF Fillable, T2
  <2>3. A \in SUBSET T3
      BY <1>8 DEF Fillable, Over, Vectored, ShownOf, T3
  <2>4. E = (((A \cap T1) \cap T2) \cap T3) \cap OtherThan(s.exclude)
      BY <1>5
  <2> HIDE DEF A, E
  <2>5. ChunksOf(f) = ChunksOf(L) \cap E
      BY <1>1, <2>1, <2>2, <2>3, <2>4
  <2>6. Cardinality(ChunksOf(f)) = Len(f) /\ Len(f) \in Nat
      BY <1>1, OnceCard DEF Leading
  <2>7. Len(kept) = Len(got)
    <3>1. ChunksOf(got) \in SUBSET A
        BY <1>1, <1>2, <2>1
    <3>2. ChunksOf(got) \in SUBSET T2 /\ ChunksOf(some) \in SUBSET T3
        BY <1>3, <2>1, <2>2, <2>3, <3>1
    <3> QED BY <1>3, <1>4, <3>2
  <2>8. Len(got) = Min({K, Len(f)})
      BY <1>0, <1>2, <2>6, Smaller
  <2> QED BY <2>5, <2>6, <2>7, <2>8
<1> QED BY <1>7, <1>8 DEF kept, some, got, f

LEMMA SimilarPage ==
    ASSUME PageInv, NEW r \in Searches, Single(r), ~search[r].shape.rerank,
           Asked(r) \in Queries, search[r].shape.kind = "similar",
           NEW L, Leading(L, Asked(r), StoredAsWere(r)),
           Fillable(r) => ChunksOf(L) \in SUBSET Over(Asked(r), Threshold)
    PROVE  LET s    == search[r].shape
               f    == At(L, {i \in DOMAIN L : InFolder(L[i], s.folder)})
               some == At(f, {i \in DOMAIN f : OfType(f[i], s.types)})
               kept == At(some, {i \in DOMAIN some : Shown(DocHit(some[i]), s.status)})
               rest == At(kept, {i \in DOMAIN kept : DocHit(kept[i]) # s.exclude})
           IN  /\ Leading(Upto(rest, K), Asked(r), EligibleAsWere(r))
               /\ Fillable(r) =>
                     Len(Upto(rest, K)) =
                         Min({K, Cardinality(ChunksOf(L) \cap {c \in Chunks : Eligible(r, c)})})
<1> DEFINE s    == search[r].shape
           q    == Asked(r)
           C    == StoredAsWere(r)
           T1   == InsideOf(s.folder)
           T2   == TypedOf(s.types)
           T3   == ShownOf(s.status)
           T4   == OtherThan(s.exclude)
           D    == (((C \cap T1) \cap T2) \cap T3) \cap T4
           f    == At(L, {i \in DOMAIN L : InFolder(L[i], s.folder)})
           some == At(f, {i \in DOMAIN f : OfType(f[i], s.types)})
           kept == At(some, {i \in DOMAIN some : Shown(DocHit(some[i]), s.status)})
           rest == At(kept, {i \in DOMAIN kept : DocHit(kept[i]) # s.exclude})
           hits == Upto(rest, K)
           E    == {c \in Chunks : Eligible(r, c)}
<1>0. C \in SUBSET Chunks /\ K \in Nat /\ search[r].shape \in Shapes
    BY SizesAre DEF StoredAsWere, Vectored, PageInv, SetTypes, SearchRecord
<1>1. Leading(f, q, C \cap T1) /\ ChunksOf(f) = ChunksOf(L) \cap T1
  <2>1. {i \in DOMAIN L : InFolder(L[i], s.folder)} = Those(L, T1)
      BY FiltersAre
  <2> QED BY <2>1, ThoseIs
<1> HIDE DEF f
<1>2. Leading(some, q, (C \cap T1) \cap T2) /\ ChunksOf(some) = ChunksOf(f) \cap T2
  <2>1. {i \in DOMAIN f : OfType(f[i], s.types)} = Those(f, T2)
      BY <1>1, FiltersAre
  <2> QED BY <1>1, <2>1, ThoseIs
<1> HIDE DEF some
<1>3. Leading(kept, q, ((C \cap T1) \cap T2) \cap T3) /\ ChunksOf(kept) = ChunksOf(some) \cap T3
  <2>1. {i \in DOMAIN some : Shown(DocHit(some[i]), s.status)} = Those(some, T3)
      BY <1>2, FiltersAre
  <2> QED BY <1>2, <2>1, ThoseIs
<1> HIDE DEF kept
<1>4. Leading(rest, q, D) /\ ChunksOf(rest) = ChunksOf(kept) \cap T4
  <2>1. {i \in DOMAIN kept : DocHit(kept[i]) # s.exclude} = Those(kept, T4)
      BY <1>3, FiltersAre
  <2> QED BY <1>3, <2>1, ThoseIs
<1> HIDE DEF rest
<1>5. D \in SUBSET Chunks
    BY <1>0
<1>6. E = (((Over(q, Threshold) \cap T1) \cap T2) \cap T3) \cap T4
    BY EligibleIs
<1>7. EligibleAsWere(r) \in SUBSET D
  <2>1. \A c \in EligibleAsWere(r) : c \in E /\ DocOf[c] \notin touched[r]
      BY DEF EligibleAsWere
  <2>2. \A c \in Over(q, Threshold) : c \in Vectored
      BY DEF Over
  <2>3. \A c \in Vectored : DocOf[c] \notin touched[r] => c \in C
      BY DEF StoredAsWere
  <2> HIDE DEF E, T1, T2, T3, T4, C
  <2> QED BY <1>6, <2>1, <2>2, <2>3
<1> HIDE DEF D
<1>8. /\ Leading(hits, q, D)
      /\ Len(hits) = (IF K <= Len(rest) THEN K ELSE Len(rest))
    BY <1>0, <1>4, <1>5, UptoLeads
<1> HIDE DEF hits
<1>9. Leading(hits, q, EligibleAsWere(r))
    BY <1>7, <1>8, FewerLead
<1>10. ASSUME Fillable(r) PROVE Len(hits) = Min({K, Cardinality(ChunksOf(L) \cap E)})
  <2>1. ChunksOf(L) \in SUBSET Over(q, Threshold)
      BY <1>10
  <2> HIDE DEF T1, T2, T3, T4, E
  <2>2. ChunksOf(rest) = ChunksOf(L) \cap E
      BY <1>1, <1>2, <1>3, <1>4, <1>6, <2>1
  <2>3. Cardinality(ChunksOf(rest)) = Len(rest) /\ Len(rest) \in Nat
      BY <1>4, OnceCard DEF Leading
  <2>4. Len(hits) = Min({K, Len(rest)})
      BY <1>0, <1>8, <2>3, Smaller
  <2> QED BY <2>2, <2>3, <2>4
<1> QED BY <1>9, <1>10 DEF hits, rest, kept, some, f

LEMMA PrepareLeads ==
    ASSUME PageInv, NEW r \in Searches, Prepare(r)
    PROVE  LeadInv(r)'
<1>1. CASE Drop(r, "failed")
  <2>1. at'[r] = "failed"
      BY <1>1 DEF Drop, Go, PageInv, MirrorInv, GateInv, GateTypes, Requests
  <2> QED BY <2>1 DEF LeadInv, ListLeads, PageLeads
<1>2. CASE ~Drop(r, "failed")
  <2>1. /\ at'[r] = "fetch"
        /\ \E s, several, qs : search' = [search EXCEPT ![r] =
              [shape |-> s, several |-> several, queries |-> qs, lists |-> <<>>, hits |-> <<>>]]
      BY <1>2 DEF Prepare, Go, PageInv, MirrorInv, GateInv, GateTypes, Requests
  <2>2. search'[r].lists = <<>>
      BY <2>1 DEF PageInv, SetTypes
  <2>3. DOMAIN search'[r].lists = {}
      BY <2>2
  <2> QED BY <2>1, <2>3 DEF LeadInv, ListLeads, PageLeads
<1> QED BY <1>1, <1>2

LEMMA ReadLeads ==
    ASSUME PageInv, NEW r \in Searches, LeadInv(r), Read(r)
    PROVE  LeadInv(r)'
<1> DEFINE s == search[r].shape
           old == search[r].lists
           n == IF s.hybrid THEN 2 * FetchCount(r) ELSE FetchCount(r)
           hits(read) == IF read[1] = "matching" THEN Matching(read[2], n)
                         ELSE Near(read[2], n, IF s.hybrid THEN 0 ELSE Threshold)
<1>1. /\ at[r] = "fetch" /\ UNCHANGED <<vectors, touched, at>>
      /\ search \in [Searches -> SearchRecord] /\ search[r] \in SearchRecord
    BY DEF Read, stores, history, PageInv, SetTypes
<1>2. PICK read \in Pending(r) :
          search' = [search EXCEPT ![r].lists =
                        [l \in DOMAIN @ \cup {read} |-> IF l = read THEN hits(read) ELSE @[l]]]
    BY DEF Read
<1> DEFINE got == hits(read)
           new == [l \in DOMAIN old \cup {read} |-> IF l = read THEN got ELSE old[l]]
<1>3. search' = [search EXCEPT ![r].lists = new]
    BY <1>1, <1>2
<1>4. /\ DOMAIN new = DOMAIN old \cup {read} /\ new[read] = got
      /\ \A l \in DOMAIN old : l # read => new[l] = old[l]
    OBVIOUS
<1>5. ASSUME Single(r)
      PROVE  /\ Leading(got, read[2], StoredAsWere(r))
             /\ got = Near(read[2], FetchCount(r), Threshold)
  <2>1. read \in {"near"} \X ToSet(search[r].queries)
      BY <1>5 DEF Pending, Reads, Single
  <2>2. read[1] = "near" /\ read[2] \in Queries
    <3>1. search[r].queries \in Seq(Queries)
        BY <1>1 DEF SearchRecord
    <3>2. ToSet(search[r].queries) \in SUBSET Queries
        BY <3>1, LenProperties, ElementOfSeq DEF ToSet
    <3> QED BY <2>1, <3>2
  <2>3. got = Near(read[2], FetchCount(r), Threshold)
      BY <1>5, <2>2 DEF Single
  <2>4. FetchCount(r) \in Nat /\ Threshold \in Nat
      BY CountIs, SizesAre
  <2> HIDE DEF got
  <2>5. Leading(got, read[2], Vectored)
      BY <2>2, <2>3, <2>4, NearLeads
  <2>6. StoredAsWere(r) \in SUBSET Vectored
      BY DEF StoredAsWere
  <2> QED BY <2>3, <2>5, <2>6, FewerLead
<1> HIDE DEF got, new
<1>6. /\ search'[r].lists = new /\ search'[r].shape = search[r].shape
      /\ search'[r].several = search[r].several
    BY <1>1, <1>3 DEF SearchRecord
<1>7. Single(r)' <=> Single(r)
    BY <1>6 DEF Single
<1>8. FetchCount(r)' = FetchCount(r) /\ StoredAsWere(r)' = StoredAsWere(r)
    BY <1>1, <1>6 DEF FetchCount, StoredAsWere, Vectored
<1>9. ASSUME Single(r), NEW l \in DOMAIN new
      PROVE  /\ Leading(new[l], l[2], StoredAsWere(r))
             /\ touched[r] = {} => new[l] = Near(l[2], FetchCount(r), Threshold)
  <2>1. CASE l = read
      BY <1>4, <1>5, <1>9, <2>1
  <2>2. CASE l # read
      BY <1>1, <1>4, <1>9, <2>2 DEF LeadInv, ListLeads, old
  <2> QED BY <2>1, <2>2
<1>10. \A l : Near(l[2], FetchCount(r), Threshold)' = Near(l[2], FetchCount(r), Threshold)
    BY <1>1, <1>8 DEF Near
<1>11. ListLeads(r)'
    BY <1>1, <1>6, <1>7, <1>8, <1>9, <1>10 DEF ListLeads
<1>12. PageLeads(r)'
    BY <1>1 DEF PageLeads
<1> QED BY <1>11, <1>12 DEF LeadInv

\* The hits that a request by vectors alone selects.
LEMMA FilterSelects ==
    ASSUME PageInv, NEW r \in Searches, LeadInv(r), Filter(r), Single(r),
           ~search[r].shape.rerank
    PROVE  /\ Leading(search'[r].hits, Asked(r), EligibleAsWere(r))
           /\ Fillable(r) => Len(search'[r].hits) = Min({K, Cardinality({c \in Chunks : Eligible(r, c)})})
<1> DEFINE s == search[r].shape
           q == Asked(r)
           L == search[r].lists[<<"near", q>>]
           f == At(L, {i \in DOMAIN L : InFolder(L[i], s.folder)})
           E == {c \in Chunks : Eligible(r, c)}
<1>1. /\ at[r] = "fetch" /\ Pending(r) = {}
      /\ search \in [Searches -> SearchRecord] /\ search[r] \in SearchRecord
      /\ s \in Shapes
    BY DEF Filter, PageInv, SetTypes, SearchRecord
<1>2. Len(search[r].queries) = 1 /\ search[r].queries \in Seq(Queries)
    BY <1>1 DEF PageInv, SearchInv, ListsSound, Single, SearchRecord
<1>3. q \in Queries /\ q \in ToSet(search[r].queries)
  <2>1. 1 \in DOMAIN search[r].queries /\ 1 \in 1..Len(search[r].queries)
      BY <1>2, LenProperties
  <2> QED BY <1>2, <2>1, ElementOfSeq DEF Asked, ToSet
<1>4. <<"near", q>> \in DOMAIN search[r].lists
    BY <1>1, <1>3 DEF Pending, Reads
<1>5. /\ Leading(L, q, StoredAsWere(r))
      /\ touched[r] = {} => L = Near(q, FetchCount(r), Threshold)
  <2> DEFINE l == <<"near", q>>
  <2>1. /\ Leading(search[r].lists[l], l[2], StoredAsWere(r))
        /\ touched[r] = {} => search[r].lists[l] = Near(l[2], FetchCount(r), Threshold)
      BY <1>1, <1>4 DEF LeadInv, ListLeads
  <2>2. l[2] = q
      OBVIOUS
  <2> QED BY <2>1, <2>2
<1>6. Found(r, q) = f
    BY DEF Found, Single
<1> HIDE DEF L
<1>7. Fillable(r) => ChunksOf(L) \in SUBSET Over(q, Threshold)
  <2>1. FetchCount(r) \in Nat /\ Threshold \in Nat
      BY CountIs, SizesAre
  <2> QED BY <1>3, <1>5, <2>1, NearLeads DEF Fillable
<1>8. Fillable(r) => Min({K, Cardinality(ChunksOf(L) \cap E)}) = Min({K, Cardinality(E)})
    BY <1>3, <1>5, ListFills DEF Fillable
<1>9. Pool(s) = K
    BY DEF Pool
<1>10. CASE s.kind # "similar"
  <2> DEFINE got  == Upto(f, K)
             some == At(got, {i \in DOMAIN got : OfType(got[i], s.types)})
             kept == At(some, {i \in DOMAIN some : Shown(DocHit(some[i]), s.status)})
  <2>1. Candidates(r) = some
      BY <1>6, <1>9, <1>10 DEF Candidates, Single, Asked
  <2>2. /\ Leading(kept, q, EligibleAsWere(r))
        /\ Fillable(r) => Len(kept) = Min({K, Cardinality(ChunksOf(L) \cap E)})
      BY <1>3, <1>5, <1>7, <1>10, SearchPage
  <2> HIDE DEF some
  <2>3. search' = [search EXCEPT ![r].hits = kept, ![r].lists = <<>>]
      BY <1>10, <2>1 DEF Filter
  <2> HIDE DEF kept
  <2>4. search'[r].hits = kept
      BY <1>1, <2>3 DEF SearchRecord
  <2> QED BY <1>8, <2>2, <2>4
<1>11. CASE s.kind = "similar"
  <2> DEFINE some == At(f, {i \in DOMAIN f : OfType(f[i], s.types)})
             kept == At(some, {i \in DOMAIN some : Shown(DocHit(some[i]), s.status)})
             rest == At(kept, {i \in DOMAIN kept : DocHit(kept[i]) # s.exclude})
  <2>1. Candidates(r) = some
      BY <1>6, <1>11 DEF Candidates, Single, Asked
  <2>2. /\ Leading(Upto(rest, K), q, EligibleAsWere(r))
        /\ Fillable(r) => Len(Upto(rest, K)) = Min({K, Cardinality(ChunksOf(L) \cap E)})
      BY <1>3, <1>5, <1>7, <1>11, SimilarPage
  <2> HIDE DEF some
  <2>3. search' = [search EXCEPT ![r].hits = Upto(rest, K), ![r].lists = <<>>]
      BY <1>11, <2>1 DEF Filter
  <2> HIDE DEF rest
  <2>4. search'[r].hits = Upto(rest, K)
      BY <1>1, <2>3 DEF SearchRecord
  <2> QED BY <1>8, <2>2, <2>4
<1> QED BY <1>10, <1>11

LEMMA FilterLeads ==
    ASSUME PageInv, NEW r \in Searches, LeadInv(r), Filter(r)
    PROVE  LeadInv(r)'
<1>1. PICK hits :
         /\ search' = [search EXCEPT ![r].hits = hits, ![r].lists = <<>>]
         /\ at'[r] \in {"log", "rerank", "compose"}
    BY FilterPage
<1>2. UNCHANGED <<row, vectors, touched>> /\ search[r] \in SearchRecord
    BY DEF PageInv, SetTypes, Filter, stores, history
<1>3. /\ search'[r].shape = search[r].shape /\ search'[r].queries = search[r].queries
      /\ search'[r].several = search[r].several
    BY <1>1, <1>2 DEF SearchRecord, PageInv, SetTypes
<1>4. at'[r] = "rerank" => search[r].shape.rerank
    BY DEF Filter, Go, PageInv, MirrorInv, GateInv, GateTypes, Requests
<1>5. /\ Single(r)' <=> Single(r)
      /\ Asked(r)' = Asked(r)
    BY <1>3 DEF Single, Asked
<1>6. \A d, t : Shown(d, t)' <=> Shown(d, t)
    BY <1>2 DEF Shown, StatusOf
<1>7. \A c : Eligible(r, c)' <=> Eligible(r, c)
    BY <1>2, <1>3, <1>5, <1>6 DEF Eligible
<1>8. /\ EligibleAsWere(r)' = EligibleAsWere(r)
      /\ {c \in Chunks : Eligible(r, c)}' = {c \in Chunks : Eligible(r, c)}
      /\ Outside(r)' = Outside(r)
    BY <1>2, <1>5, <1>7 DEF EligibleAsWere, Outside
<1>9. Fillable(r)' <=> Fillable(r)
    BY <1>2, <1>3, <1>6, <1>8 DEF Fillable
<1>10. ListLeads(r)'
    BY <1>1 DEF ListLeads
<1>11. PageLeads(r)'
    BY <1>3, <1>4, <1>5, <1>8, <1>9, FilterSelects DEF PageLeads, Filled
<1> QED BY <1>10, <1>11 DEF LeadInv

LEMMA RerankLeads ==
    ASSUME PageInv, NEW r \in Searches, LeadInv(r), Rerank(r)
    PROVE  LeadInv(r)'
<1>1. /\ at[r] = "rerank" /\ at'[r] \in {"compose", "log"}
      /\ \E hits : search' = [search EXCEPT ![r].hits = hits]
    BY DEF Rerank, Go, PageInv, MirrorInv, GateInv, GateTypes, Requests
<1>2. search'[r].shape = search[r].shape
    BY <1>1 DEF PageInv, SetTypes, SearchRecord
<1>3. search[r].shape.rerank
    BY <1>1 DEF LeadInv, PageLeads
<1> QED BY <1>1, <1>2, <1>3 DEF LeadInv, ListLeads, PageLeads

\* A search that has done its work, or has not begun it.
LEMMA EndsLead ==
    ASSUME PageInv, NEW r \in Searches,
           BeginSearch(r) \/ Log(r) \/ (Compose(r) /\ at'[r] # "log")
    PROVE  LeadInv(r)'
<1>1. at'[r] \in Ended \cup {"rules"}
    BY DEF BeginSearch, Log, Compose, Drop, Go, Ended,
           PageInv, MirrorInv, GateInv, GateTypes, Requests
<1> QED BY <1>1 DEF LeadInv, ListLeads, PageLeads, Ended

\* The model answers with what was selected.
LEMMA ComposeLeads ==
    ASSUME PageInv, PageInv', NEW r \in Searches, LeadInv(r), Compose(r)
    PROVE  LeadInv(r)'
<1>1. CASE at'[r] # "log"
    BY <1>1, EndsLead
<1>2. CASE at'[r] = "log"
  <2>1. /\ at[r] = "compose" /\ UNCHANGED <<row, vectors>>
        /\ UNCHANGED <<search, touched>>
      BY <1>2 DEF Compose, Drop, Go, stores, PageInv, MirrorInv, GateInv, GateTypes, Requests
  <2> QED BY <1>2, <2>1, LeadKept
<1> QED BY <1>1, <1>2

\* A step of one search.
LEMMA OwnLeads ==
    ASSUME PageInv, PageInv', \A q \in Searches : LeadInv(q), NEW r \in Searches,
           \/ BeginSearch(r) \/ Prepare(r) \/ Read(r) \/ Filter(r)
           \/ Rerank(r) \/ Compose(r) \/ Log(r)
    PROVE  \A q \in Searches : LeadInv(q)'
<1>1. UNCHANGED <<row, vectors>>
    BY DEF BeginSearch, Prepare, Read, Filter, Rerank, Compose, Log, stores
<1>2. LeadInv(r)'
    BY EndsLead, PrepareLeads, ReadLeads, FilterLeads, RerankLeads, ComposeLeads
<1>3. \A q \in Searches : q # r => search'[q] = search[q] /\ touched'[q] = touched[q]
                                   /\ at'[q] = at[q]
  <2> USE DEF PageInv, MirrorInv, GateInv, GateTypes, SetTypes, Requests
  <2>1. CASE BeginSearch(r)
      BY <2>1 DEF BeginSearch, Go
  <2>2. CASE Prepare(r)
      BY <2>2 DEF Prepare, Drop, Go
  <2>3. CASE Read(r)
      BY <2>3 DEF Read, history
  <2>4. CASE Filter(r)
      BY <2>4 DEF Filter, Go, history
  <2>5. CASE Rerank(r)
      BY <2>5 DEF Rerank, Go, history
  <2>6. CASE Compose(r) \/ Log(r)
      BY <2>6 DEF Compose, Log, Drop, Go
  <2> QED BY <2>1, <2>2, <2>3, <2>4, <2>5, <2>6
<1>4. ASSUME NEW q \in Searches, q # r PROVE LeadInv(q)'
    BY <1>1, <1>3, <1>4, LeadKept
<1> QED BY <1>2, <1>4

\* A step that writes one document, whose name goes on every search's record.
LEMMA WriteLeads ==
    ASSUME PageInv, PageInv', \A r \in Searches : LeadInv(r), NEW d \in Docs, Touch(d),
           UNCHANGED search, \A r \in Searches : at'[r] = at[r],
           \A e \in Docs \ {d} : row'[e] = row[e] /\ (e \in vectors' <=> e \in vectors)
    PROVE  \A r \in Searches : LeadInv(r)'
<1> SUFFICES ASSUME NEW r \in Searches PROVE LeadInv(r)'
    OBVIOUS
<1>1. Searching(r) => touched'[r] = touched[r] \cup {d}
    BY DEF Touch, Searching
<1> QED BY <1>1, LeadKept

\* A step that writes no document.
LEMMA OtherLeads ==
    ASSUME PageInv, PageInv', \A r \in Searches : LeadInv(r),
           UNCHANGED <<row, vectors, search, touched>>,
           \A r \in Searches :
              \/ at'[r] = at[r]
              \/ at'[r] \in {"rules", "check", "prepare", "refused", "unavailable"}
    PROVE  \A r \in Searches : LeadInv(r)'
<1> SUFFICES ASSUME NEW r \in Searches PROVE LeadInv(r)'
    OBVIOUS
<1>1. /\ at'[r] = "fetch" => at[r] = "fetch"
      /\ at'[r] = "rerank" => at[r] = "rerank"
      /\ at'[r] \in {"compose", "log"} => at[r] \in {"compose", "log"}
    OBVIOUS
<1> QED BY <1>1, LeadKept

LEMMA NextLeads ==
    PageInv /\ (\A r \in Searches : LeadInv(r)) /\ [Next]_vars
        => \A r \in Searches : LeadInv(r)'
<1> SUFFICES ASSUME PageInv, \A r \in Searches : LeadInv(r), [Next]_vars
             PROVE  \A r \in Searches : LeadInv(r)'
    OBVIOUS
<1>0. /\ PageInv' /\ GateTypes /\ StoreTypes
    BY NextPages DEF PageInv, MirrorInv, GateInv
<1> USE ActorAssumption DEF Requests
<1>1. ASSUME NEW r \in Searches,
             \/ BeginSearch(r) \/ Prepare(r) \/ Read(r) \/ Filter(r)
             \/ Rerank(r) \/ Compose(r) \/ Log(r)
      PROVE  \A q \in Searches : LeadInv(q)'
    BY <1>0, <1>1, OwnLeads
<1>2. ASSUME NEW p \in Patches, BeginPatch(p) \/ Resolve(p) \/ GetDocument(p) \/ PatchChunks(p)
      PROVE  \A r \in Searches : LeadInv(r)'
  <2>1. UNCHANGED <<row, vectors, search, touched>>
      BY <1>2 DEF BeginPatch, Resolve, GetDocument, PatchChunks, stores
  <2>2. \A r \in Searches : at'[r] = at[r]
      BY <1>0, <1>2 DEF BeginPatch, Resolve, GetDocument, PatchChunks, Go, GateTypes
  <2> QED BY <1>0, <2>1, <2>2, OtherLeads
<1>3. ASSUME NEW p \in Patches, PatchRow(p) PROVE \A r \in Searches : LeadInv(r)'
  <2> DEFINE d == patch[p].doc
  <2>1. /\ UNCHANGED <<vectors, search>> /\ Touch(d)
        /\ row' = [row EXCEPT ![d] = IF @ = "none" THEN @ ELSE patch[p].status]
      BY <1>3 DEF PatchRow
  <2>2. d \in Docs
      BY <1>0 DEF GateTypes
  <2>3. \A r \in Searches : at'[r] = at[r]
      BY <1>0, <1>3 DEF PatchRow, Go, GateTypes
  <2>4. \A e \in Docs \ {d} : row'[e] = row[e]
      BY <1>0, <2>1 DEF StoreTypes
  <2> HIDE DEF d
  <2> QED BY <1>0, <2>1, <2>2, <2>3, <2>4, WriteLeads
<1>4. ASSUME NEW r \in Requests, ReadRules(r) \/ CheckRules(r)
      PROVE  \A q \in Searches : LeadInv(q)'
  <2>1. UNCHANGED <<row, vectors, search, touched>>
      BY <1>4 DEF ReadRules, CheckRules, stores
  <2>2. \A q \in Searches :
           \/ at'[q] = at[q]
           \/ at'[q] \in {"rules", "check", "prepare", "refused", "unavailable"}
      BY <1>0, <1>4 DEF ReadRules, CheckRules, Admit, Leave, Go, GateTypes
  <2> QED BY <1>0, <2>1, <2>2, OtherLeads
<1>5. CASE AddRule \/ DeleteRule
  <2>1. UNCHANGED <<row, vectors, search, touched, at>>
      BY <1>5 DEF AddRule, DeleteRule, stores
  <2> QED BY <1>0, <2>1, OtherLeads
<1>6. CASE StartJob
  <2>1. UNCHANGED <<row, vectors, search, at>> /\ \E d \in Docs : Touch(d)
      BY <1>6 DEF StartJob
  <2> QED BY <1>0, <2>1, WriteLeads
<1>7. CASE DoJob
  <2> DEFINE d == job.doc
             op == Head(job.todo)
  <2>1. UNCHANGED <<search, at>> /\ Touch(d)
      BY <1>7 DEF DoJob
  <2>2. d \in Docs
      BY <1>0, <1>7 DEF DoJob, StoreTypes
  <2>3. \A e \in Docs \ {d} : row'[e] = row[e]
    <3>1. row' = IF op = "-row" THEN [row EXCEPT ![d] = "none"]
                 ELSE IF op = "+row" THEN [row EXCEPT ![d] = "active"] ELSE row
        BY <1>7 DEF DoJob
    <3> QED BY <1>0, <3>1 DEF StoreTypes
  <2>4. \A e \in Docs \ {d} : e \in vectors' <=> e \in vectors
    <3>1. vectors' = IF op = "-vectors" THEN vectors \ {d}
                     ELSE IF op = "+vectors" THEN vectors \cup {d} ELSE vectors
        BY <1>7 DEF DoJob
    <3> QED BY <3>1
  <2> HIDE DEF d
  <2> QED BY <1>0, <2>1, <2>2, <2>3, <2>4, WriteLeads
<1>8. CASE UNCHANGED vars
  <2>1. UNCHANGED <<row, vectors, search, touched, at>>
      BY <1>8 DEF vars
  <2> QED BY <1>0, <2>1, OtherLeads
<1> QED BY <1>1, <1>2, <1>3, <1>4, <1>5, <1>6, <1>7, <1>8 DEF Next

\* What a search by vectors alone has read and selected are its query's nearest
\* chunks, with none of an unchanged document passed over, in every behaviour.
THEOREM LeadsCorrect == Spec => [](PageInv /\ \A r \in Searches : LeadInv(r))
<1> DEFINE Leads == \A r \in Searches : LeadInv(r)
<1>1. Init => PageInv /\ Leads
    BY InitPages, InitLeads
<1>2. PageInv /\ Leads /\ [Next]_vars => PageInv' /\ Leads'
    BY NextPages, NextLeads
<1> HIDE DEF Leads
<1>3. Spec => [](PageInv /\ Leads)
    BY <1>1, <1>2, PTL DEF Spec
<1> QED BY <1>3 DEF Leads

\* An answer passes over no nearer chunk of a document that was there, unchanged,
\* all along, and its page is full when there is enough to fill it and the
\* filters take no more than the surplus that is fetched for them (L10 and the
\* over-fetch of similar), for every top_k, multiplier, threshold and ranking,
\* and whatever is written meanwhile.
THEOREM PageCompleteCorrect == Spec => []PageComplete
<1>1. PageInv /\ (\A r \in Searches : LeadInv(r)) => PageComplete
  <2> SUFFICES ASSUME PageInv, \A r \in Searches : LeadInv(r) PROVE PageComplete
      OBVIOUS
  <2>1. ASSUME NEW r \in Searches, Plain(r)
        PROVE  Leading(search[r].hits, Asked(r), EligibleAsWere(r)) /\ Filled(r)
      BY <2>1 DEF LeadInv, PageLeads, Plain, Answered, Single
  <2>2. NonePassedOver
    <3> SUFFICES ASSUME NEW r \in Searches, Plain(r), NEW h \in ToSet(search[r].hits),
                        NEW c \in Chunks, DocOf[c] \notin touched[r], Eligible(r, c),
                        Nearness[Asked(r)][c] > Nearness[Asked(r)][h.chunk]
                 PROVE  Shows(r, c)
        BY DEF NonePassedOver
    <3>1. Leading(search[r].hits, Asked(r), EligibleAsWere(r))
        BY <2>1
    <3>2. search[r].hits \in Seq(Hit) /\ DOMAIN search[r].hits = 1..Len(search[r].hits)
        BY <3>1, LenProperties DEF Leading
    <3>3. PICK i \in 1..Len(search[r].hits) : h = search[r].hits[i]
        BY <3>2 DEF ToSet
    <3>4. c \in EligibleAsWere(r)
        BY DEF EligibleAsWere
    <3>5. c \in ChunksOf(search[r].hits)
        BY <3>1, <3>3, <3>4 DEF Leading
    <3> QED BY <3>5 DEF ChunksOf, Shows, ToSet
  <2>3. PageFull
    <3> SUFFICES ASSUME NEW r \in Searches, Plain(r), Fillable(r)
                 PROVE  Len(search[r].hits) = Min({K, Cardinality({c \in Chunks : Eligible(r, c)})})
        BY DEF PageFull, Fillable
    <3> QED BY <2>1 DEF Filled
  <2> QED BY <2>2, <2>3 DEF PageComplete
<1> QED BY <1>1, LeadsCorrect, PTL
=============================================================================
