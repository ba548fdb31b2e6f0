-------------------------- MODULE WatchLoop_proofs --------------------------
(***************************************************************************)
(* The watches of any number of bases, files and ids, over any number of   *)
(* edits, failures and restarts.  From one inductive invariant, WatchInv:  *)
(*   - a watch that a request started has a running task   (WatchCorrect)  *)
(*   - the cap per base holds, and a stopped watch that was recorded as    *)
(*     stopped never comes back                         (RegistryCorrect)  *)
(*   - with one base, a restart brings back every watch the registry has   *)
(*                                                      (RestartCorrect)   *)
(*                                                                         *)
(* The argument: ids name at most one watch in the registry too; an id in  *)
(* use has a task (Begun), so a new watch never takes one; and what was    *)
(* stopped is in neither list (Final).                                     *)
(***************************************************************************)
EXTENDS WatchLoop, SequenceTheorems, FiniteSetTheorems, TLAPS

-----------------------------------------------------------------------------
(* The parts of the invariant.                                             *)

Ids(ws) == {w.id : w \in Range(ws)}

\* Each id names at most one entry.
Distinct(ws) == \A i, j \in DOMAIN ws : ws[i].id = ws[j].id => i = j

\* An id that is in use, or was, has had a task.
Begun == \A id \in Ids(watches) \cup Ids(registry) \cup stopped : loop[id].at # "none"

\* What was stopped is in neither list.
Final == stopped \cap (Ids(watches) \cup Ids(registry)) = {}

WatchInv == /\ WatchTypeOK /\ Distinct(registry)
            /\ Begun /\ Final /\ Monitored /\ CapHeld

-----------------------------------------------------------------------------
(* Sequences of entries.                                                   *)

\* The entries of a sequence are its values at 1, ..., Len.
LEMMA Entries ==
    ASSUME NEW ws \in Seq(Entry)
    PROVE  /\ Len(ws) \in Nat /\ DOMAIN ws = 1..Len(ws)
           /\ \A i \in DOMAIN ws : ws[i] \in Entry /\ ws[i] \in Range(ws)
           /\ \A w \in Range(ws) : w \in Entry /\ \E i \in DOMAIN ws : w = ws[i]
           /\ Ids(ws) \subseteq WatchIds
<1>1. Len(ws) \in Nat /\ DOMAIN ws = 1..Len(ws) /\ ws \in [1..Len(ws) -> Entry]
    BY LenProperties
<1>2. \A w \in Range(ws) : w \in Entry /\ \E i \in DOMAIN ws : w = ws[i]
    BY <1>1 DEF Range
<1>3. Ids(ws) \subseteq WatchIds
    BY <1>2 DEF Ids, Entry
<1> QED BY <1>1, <1>2, <1>3 DEF Range

\* A sequence has no more entries than its length, and exactly as many if they
\* are distinct.
LEMMA CountEntries ==
    ASSUME NEW ws \in Seq(Entry)
    PROVE  /\ IsFiniteSet(Range(ws)) /\ Cardinality(Range(ws)) \in Nat
           /\ Cardinality(Range(ws)) <= Len(ws)
           /\ Distinct(ws) => Cardinality(Range(ws)) = Len(ws)
<1>1. Len(ws) \in Nat /\ DOMAIN ws = 1..Len(ws)
    BY Entries
<1>2. IsFiniteSet(1..Len(ws)) /\ Cardinality(1..Len(ws)) = Len(ws)
    BY <1>1, FS_Interval
<1>3. ws \in Surjection(1..Len(ws), Range(ws))
    BY <1>1, Entries, LenProperties DEF Surjection, Range
<1>4. Distinct(ws) => ws \in Injection(1..Len(ws), Range(ws))
    BY <1>1, <1>3 DEF Surjection, Injection, IsInjective, Distinct
<1>5. /\ IsFiniteSet(Range(ws)) /\ Cardinality(Range(ws)) <= Len(ws)
      /\ Distinct(ws) => Cardinality(Range(ws)) = Len(ws)
    BY <1>2, <1>3, <1>4, FS_Surjection
<1> QED BY <1>5, FS_CardinalityType

\* The watches of a base are finitely many.
LEMMA CountOfBase ==
    ASSUME NEW ws \in Seq(Entry), NEW kb
    PROVE  LET S == {w \in Range(ws) : w.kb = kb}
           IN  IsFiniteSet(S) /\ Cardinality(S) \in Nat /\ Cardinality(S) <= Len(ws)
<1>1. {w \in Range(ws) : w.kb = kb} \in SUBSET Range(ws)
    OBVIOUS
<1>2. /\ IsFiniteSet({w \in Range(ws) : w.kb = kb})
      /\ Cardinality({w \in Range(ws) : w.kb = kb}) <= Cardinality(Range(ws))
    BY <1>1, CountEntries, FS_Subset
<1> QED BY <1>2, CountEntries, Entries, FS_CardinalityType

\* A new entry under a new id.
LEMMA AppendEntry ==
    ASSUME NEW ws \in Seq(Entry), NEW e \in Entry
    PROVE  LET new == Append(ws, e)
           IN  /\ new \in Seq(Entry) /\ Len(new) = Len(ws) + 1
               /\ Range(new) = Range(ws) \cup {e} /\ Ids(new) = Ids(ws) \cup {e.id}
               /\ Distinct(ws) /\ e.id \notin Ids(ws) => Distinct(new)
<1> DEFINE new == Append(ws, e)
<1>1. /\ new \in Seq(Entry) /\ Len(new) = Len(ws) + 1
      /\ \A i \in 1..Len(ws) : new[i] = ws[i]
      /\ new[Len(ws) + 1] = e
    BY AppendProperties
<1> HIDE DEF new
<1>2. DOMAIN ws = 1..Len(ws) /\ DOMAIN new = 1..(Len(ws) + 1) /\ Len(ws) \in Nat
    BY <1>1, Entries
<1>3. Range(new) = Range(ws) \cup {e}
    BY <1>1, <1>2 DEF Range
<1>4. Ids(new) = Ids(ws) \cup {e.id}
    BY <1>3 DEF Ids
<1>5. ASSUME Distinct(ws), e.id \notin Ids(ws) PROVE Distinct(new)
  <2>1. \A i \in 1..Len(ws) : ws[i].id \in Ids(ws)
      BY <1>2 DEF Ids, Range
  <2> QED BY <1>1, <1>2, <1>5, <2>1 DEF Distinct
<1> QED BY <1>1, <1>3, <1>4, <1>5 DEF new

\* What is left without the entry of an id.
LEMMA WithoutEntry ==
    ASSUME NEW ws \in Seq(Entry), Distinct(ws), NEW id \in Ids(ws)
    PROVE  LET rest == Without(ws, id)
           IN  /\ rest \in Seq(Entry) /\ Len(rest) = Len(ws) - 1
               /\ Range(rest) \subseteq Range(ws) /\ Ids(rest) \subseteq Ids(ws) \ {id}
               /\ Distinct(rest)
<1>0. Len(ws) \in Nat /\ DOMAIN ws = 1..Len(ws)
    BY Entries
<1>1. PICK k \in 1..Len(ws) : ws[k].id = id /\ k = CHOOSE i \in DOMAIN ws : ws[i].id = id
  <2>1. \E i \in DOMAIN ws : ws[i].id = id
      BY DEF Ids, Range
  <2> QED BY <1>0, <2>1
<1> DEFINE front == SubSeq(ws, 1, k - 1)
           back  == SubSeq(ws, k + 1, Len(ws))
           rest  == front \o back
<1>2. Without(ws, id) = rest
    BY <1>1 DEF Without, RemoveAt
<1>3. /\ front \in Seq(Entry) /\ Len(front) = k - 1
      /\ \A i \in 1..(k - 1) : front[i] = ws[i]
  <2>1. \A i \in 1..(k - 1) : ws[i] \in Entry
      BY <1>0, <1>1, Entries
  <2>2. front \in Seq(Entry) /\ Len(front) = (IF 1 <= k - 1 THEN k - 1 - 1 + 1 ELSE 0)
        /\ \A i \in 1..(k - 1 - 1 + 1) : front[i] = ws[1 + i - 1]
      BY <1>1, <2>1, SubSeqProperties
  <2> QED BY <1>0, <1>1, <2>2
<1>4. /\ back \in Seq(Entry) /\ Len(back) = Len(ws) - k
      /\ \A i \in 1..(Len(ws) - k) : back[i] = ws[k + i]
  <2>1. \A i \in (k + 1)..Len(ws) : ws[i] \in Entry
      BY <1>0, <1>1, Entries
  <2>2. back \in Seq(Entry) /\ Len(back) = (IF k + 1 <= Len(ws) THEN Len(ws) - (k + 1) + 1 ELSE 0)
        /\ \A i \in 1..(Len(ws) - (k + 1) + 1) : back[i] = ws[k + 1 + i - 1]
      BY <1>0, <1>1, <2>1, SubSeqProperties
  <2> QED BY <1>0, <1>1, <2>2
<1> HIDE DEF front, back
<1>5. /\ rest \in Seq(Entry) /\ Len(rest) = Len(front) + Len(back)
      /\ \A i \in 1..Len(rest) : rest[i] = IF i <= Len(front) THEN front[i] ELSE back[i - Len(front)]
  <2>1. /\ rest \in Seq(Entry) /\ Len(rest) = Len(front) + Len(back)
        /\ \A i \in 1..(Len(front) + Len(back)) :
              rest[i] = IF i <= Len(front) THEN front[i] ELSE back[i - Len(front)]
      BY <1>3, <1>4, ConcatProperties
  <2> HIDE DEF rest
  <2> QED BY <2>1
<1> HIDE DEF rest
<1>l. Len(rest) = Len(ws) - 1
    BY <1>0, <1>1, <1>3, <1>4, <1>5
<1>6. \A i \in 1..Len(rest) : rest[i] = IF i < k THEN ws[i] ELSE ws[i + 1]
  <2> SUFFICES ASSUME NEW i \in 1..Len(rest)
               PROVE  rest[i] = IF i < k THEN ws[i] ELSE ws[i + 1]
      OBVIOUS
  <2>1. CASE i < k
    <3>1. i \in 1..(k - 1)
        BY <1>0, <1>1, <1>l, <2>1
    <3> QED BY <1>1, <1>3, <1>5, <2>1, <3>1
  <2>2. CASE ~(i < k)
    <3>1. i - (k - 1) \in 1..(Len(ws) - k) /\ ~(i <= k - 1) /\ k + (i - (k - 1)) = i + 1
        BY <1>0, <1>1, <1>l, <2>2
    <3>2. rest[i] = back[i - (k - 1)]
        BY <1>3, <1>5, <3>1
    <3> QED BY <1>4, <2>2, <3>1, <3>2
  <2> QED BY <2>1, <2>2
<1>7. DOMAIN rest = 1..Len(rest)
    BY <1>5, Entries
<1>8. \A i \in DOMAIN rest : \E j \in DOMAIN ws \ {k} : rest[i] = ws[j]
  <2> SUFFICES ASSUME NEW i \in 1..(Len(ws) - 1)
               PROVE  \E j \in DOMAIN ws \ {k} : rest[i] = ws[j]
      BY <1>l, <1>7
  <2>1. i \in 1..Len(rest)
      BY <1>l
  <2>2. CASE i < k
    <3>1. i \in DOMAIN ws \ {k}
        BY <1>0, <2>2
    <3> QED BY <1>6, <2>1, <2>2, <3>1
  <2>3. CASE ~(i < k)
    <3>1. i + 1 \in DOMAIN ws \ {k}
        BY <1>0, <2>3
    <3> QED BY <1>6, <2>1, <2>3, <3>1
  <2> QED BY <2>2, <2>3
<1>9. Range(rest) \subseteq Range(ws)
    BY <1>8 DEF Range
<1>10. Ids(rest) \subseteq Ids(ws) \ {id}
  <2>1. \A j \in DOMAIN ws \ {k} : ws[j].id # id
      BY <1>0, <1>1 DEF Distinct
  <2> QED BY <1>8, <2>1 DEF Ids, Range
<1>11. Distinct(rest)
  <2> DEFINE at(i) == IF i < k THEN i ELSE i + 1
  <2>1. \A i \in 1..(Len(ws) - 1) : at(i) \in DOMAIN ws /\ rest[i] = ws[at(i)]
      BY <1>0, <1>1, <1>l, <1>6
  <2>2. \A i, j \in 1..(Len(ws) - 1) : at(i) = at(j) => i = j
      BY <1>0, <1>1
  <2> HIDE DEF at
  <2> QED BY <1>l, <1>7, <2>1, <2>2 DEF Distinct
<1> QED BY <1>2, <1>5, <1>l, <1>9, <1>10, <1>11

\* The numbers that restart looks at: at most Cap of them.
LEMMA KeptPlaces ==
    ASSUME registry \in Seq(Entry)
    PROVE  /\ Kept \subseteq DOMAIN registry /\ IsFiniteSet(Kept)
           /\ Cardinality(Kept) \in Nat /\ Cardinality(Kept) <= Cap
           /\ \A i \in DOMAIN registry : i <= Cap /\ Restorable(registry[i]) => i \in Kept
<1> DEFINE n == IF Len(registry) < Cap THEN Len(registry) ELSE Cap
<1>1. Len(registry) \in Nat /\ DOMAIN registry = 1..Len(registry) /\ n \in Nat /\ n <= Cap
    BY Entries, CapAssumption
<1>2. DOMAIN FirstOnes(registry) = 1..n
  <2>1. \A i \in 1..n : registry[i] \in Entry
      BY <1>1, Entries
  <2>2. FirstOnes(registry) \in Seq(Entry) /\ Len(FirstOnes(registry)) = IF 1 <= n THEN n - 1 + 1 ELSE 0
      BY <1>1, <2>1, SubSeqProperties DEF FirstOnes
  <2>3. Len(FirstOnes(registry)) = n
      BY <1>1, <2>2
  <2> QED BY <2>2, <2>3, LenProperties
<1>3. Kept \in SUBSET (1..n)
    BY <1>2 DEF Kept
<1>7. n <= Len(registry)
    BY <1>1, CapAssumption
<1> HIDE DEF n
<1>4. IsFiniteSet(1..n) /\ Cardinality(1..n) = n
    BY <1>1, FS_Interval
<1>5. IsFiniteSet(Kept) /\ Cardinality(Kept) <= n
    BY <1>3, <1>4, FS_Subset
<1>6. \A i \in DOMAIN registry : i <= Cap /\ Restorable(registry[i]) => i \in Kept
    BY <1>1, <1>2, CapAssumption DEF Kept, n
<1>8. Kept \subseteq DOMAIN registry
    BY <1>1, <1>3, <1>7
<1>9. Cardinality(Kept) \in Nat
    BY <1>5, FS_CardinalityType
<1> QED BY <1>1, <1>5, <1>6, <1>8, <1>9, CapAssumption

\* What a restart brings back are entries of the registry, with fewer files.
LEMMA RestoredEntries ==
    ASSUME registry \in Seq(Entry), NEW o \in InOrder(Kept)
    PROVE  LET ws == Restored(o)
           IN  /\ ws \in Seq(Entry) /\ Len(ws) <= Cap /\ Ids(ws) \subseteq Ids(registry)
               /\ Distinct(registry) => Distinct(ws)
               /\ \A i \in Kept : registry[i].id \in Ids(ws)
<1> DEFINE ws == Restored(o)
           n  == Cardinality(Kept)
<1>1. /\ o \in [1..n -> Kept] /\ n \in Nat /\ n <= Cap /\ Kept \subseteq DOMAIN registry
      /\ \A i, j \in 1..n : i < j => o[i] < o[j]
      /\ Range(o) = Kept
    BY KeptPlaces DEF InOrder
<1>2. \A i \in 1..n : o[i] \in DOMAIN registry /\ registry[o[i]] \in Entry /\ o[i] \in Int
    BY <1>1, Entries
<1>3. ws = [i \in 1..n |-> [registry[o[i]] EXCEPT !.files = {f \in @ : Exists(f)}]]
    BY <1>1 DEF Restored
<1>4. \A i \in 1..n : ws[i] \in Entry /\ ws[i].id = registry[o[i]].id
    BY <1>2, <1>3 DEF Entry
<1>5. ws \in [1..n -> Entry]
    BY <1>3, <1>4
<1>6. ws \in Seq(Entry) /\ Len(ws) = n /\ DOMAIN ws = 1..n
    BY <1>1, <1>5
<1> HIDE DEF ws, n
<1>7. Ids(ws) \subseteq Ids(registry)
    BY <1>2, <1>4, <1>6 DEF Ids, Range
<1>8. ASSUME Distinct(registry) PROVE Distinct(ws)
  <2> SUFFICES ASSUME NEW i \in 1..n, NEW j \in 1..n, ws[i].id = ws[j].id PROVE i = j
      BY <1>6 DEF Distinct
  <2>1. o[i] = o[j]
      BY <1>2, <1>4, <1>8 DEF Distinct
  <2>2. ~(i < j) /\ ~(j < i)
      BY <1>1, <1>2, <2>1
  <2> QED BY <2>2
<1>9. \A i \in Kept : registry[i].id \in Ids(ws)
  <2> SUFFICES ASSUME NEW i \in Kept PROVE registry[i].id \in Ids(ws)
      OBVIOUS
  <2>1. PICK k \in 1..n : o[k] = i
      BY <1>1 DEF Range
  <2> QED BY <1>4, <1>6, <2>1 DEF Ids, Range
<1> QED BY <1>1, <1>6, <1>7, <1>8, <1>9 DEF ws

-----------------------------------------------------------------------------
(* What the steps have in common.                                          *)

LEMMA Bounds == /\ MaxFileEdits \in Nat /\ MaxWatchFaults \in Nat /\ MaxWatchRestarts \in Nat
                /\ Cap \in Nat /\ Cap # 0
<1> QED BY CapAssumption, WatchAssumption

\* A watch is active if the list has its id.
LEMMA ActiveIds == \A id : Active(id) <=> id \in Ids(watches)
<1> QED BY DEF Active, Ids

\* The loops that the steps make are loops.
LEMMA LoopTypes ==
    /\ \A kb \in KBs, at \in {"none", "start", "sleep", "index", "write", "ended"}, b \in BOOLEAN :
          NewLoop(kb, at, b) \in Loop
    /\ \A l \in Loop, f \in Files : DoneWith(l, f) \in Loop /\ DoneWith(l, f).at \in {"sleep", "index"}
<1>1. 0 \in Versions
    BY Bounds DEF Versions
<1> QED BY <1>1 DEF Loop, NewLoop, DoneWith, LeftAfter

\* The watches of Active ids have an entry, with files.
LEMMA OfActive ==
    ASSUME WatchTypeOK, NEW id \in WatchIds, Active(id)
    PROVE  Of(id) \in Entry /\ Changed(id) \subseteq Files
<1>1. Of(id) \in Range(watches)
    BY DEF Active, Of
<1>2. Of(id) \in Entry
    BY <1>1, Entries DEF WatchTypeOK
<1> QED BY <1>2 DEF Changed, Entry

\* A step of one task that touches neither list keeps the invariant if the
\* task does not end under a watch that a request started.
LEMMA LoopOnly ==
    ASSUME WatchInv, WatchTypeOK', NEW id \in WatchIds, NEW l \in Loop, SetLoop(id, l),
           loop[id].at # "none", l.at # "none", Active(id) /\ l.bound => l.at # "ended",
           UNCHANGED <<watches, registry, stopped>>
    PROVE  WatchInv'
<1>1. \A x \in WatchIds : loop'[x] = IF x = id THEN l ELSE loop[x]
    BY DEF SetLoop, WatchInv, WatchTypeOK
<1>2. Ids(watches) \subseteq WatchIds /\ Ids(registry) \subseteq WatchIds /\ stopped \subseteq WatchIds
    BY Entries DEF WatchInv, WatchTypeOK
<1>3. Begun'
    BY <1>1, <1>2 DEF WatchInv, Begun
<1>4. Monitored'
    BY <1>1 DEF WatchInv, Monitored, Active
<1>5. Distinct(registry)' /\ Final' /\ CapHeld'
    BY DEF WatchInv, Distinct, Final, CapHeld
<1> QED BY <1>3, <1>4, <1>5 DEF WatchInv

\* A new type of the tasks and nothing else that matters.
LEMMA LoopTyped ==
    ASSUME WatchTypeOK, NEW id \in WatchIds, NEW l \in Loop, SetLoop(id, l)
    PROVE  loop' \in [WatchIds -> Loop]
<1> QED BY DEF WatchTypeOK, SetLoop

-----------------------------------------------------------------------------
(* The steps of a task.                                                    *)

LEMMA BeginKeeps ==
    ASSUME WatchInv, NEW id \in WatchIds, BeginLoop(id)
    PROVE  WatchInv'
<1> DEFINE l == [loop[id] EXCEPT !.at = IF loop[id].bound /\ Active(id) THEN "sleep" ELSE "ended"]
<1>1. WatchTypeOK
    BY DEF WatchInv
<1>2. l \in Loop /\ l.bound = loop[id].bound
      /\ l.at = IF loop[id].bound /\ Active(id) THEN "sleep" ELSE "ended"
    BY <1>1 DEF WatchTypeOK, Loop
<1>3. SetLoop(id, l) /\ loop[id].at = "start"
    BY DEF BeginLoop
<1> HIDE DEF l
<1>4. loop' \in [WatchIds -> Loop]
    BY <1>1, <1>2, <1>3, LoopTyped
<1>5. WatchTypeOK'
    BY <1>1, <1>4 DEF WatchTypeOK, BeginLoop
<1> QED BY <1>2, <1>3, <1>5, LoopOnly DEF BeginLoop

LEMMA LeaveKeeps ==
    ASSUME WatchInv, NEW id \in WatchIds, Leave(id)
    PROVE  WatchInv'
<1> DEFINE l == [loop[id] EXCEPT !.at = "ended"]
<1>1. WatchTypeOK
    BY DEF WatchInv
<1>2. l \in Loop /\ l.at = "ended"
    BY <1>1 DEF WatchTypeOK, Loop
<1>3. SetLoop(id, l) /\ loop[id].at = "sleep" /\ ~Active(id)
    BY DEF Leave
<1> HIDE DEF l
<1>4. loop' \in [WatchIds -> Loop]
    BY <1>1, <1>2, <1>3, LoopTyped
<1>5. WatchTypeOK'
    BY <1>1, <1>4 DEF WatchTypeOK, Leave
<1> QED BY <1>2, <1>3, <1>5, LoopOnly DEF Leave

LEMMA PollKeeps ==
    ASSUME WatchInv, NEW id \in WatchIds, Poll(id)
    PROVE  WatchInv'
<1> DEFINE l == [loop[id] EXCEPT !.at = "index", !.todo = Changed(id)]
           h == [f \in Files |-> IF f \in Changed(id) THEN file[f] ELSE hash[id][f]]
<1>1. WatchTypeOK /\ Changed(id) \subseteq Files
    BY OfActive DEF WatchInv, Poll
<1>2. l \in Loop /\ l.at = "index"
    BY <1>1 DEF WatchTypeOK, Loop
<1>3. SetLoop(id, l) /\ loop[id].at = "sleep" /\ hash' = [hash EXCEPT ![id] = h]
    BY DEF Poll
<1>4. h \in [Files -> Versions]
    BY <1>1 DEF WatchTypeOK
<1> HIDE DEF l, h
<1>5. loop' \in [WatchIds -> Loop] /\ hash' \in [WatchIds -> [Files -> Versions]]
    BY <1>1, <1>2, <1>3, <1>4, LoopTyped DEF WatchTypeOK
<1>6. noticed' \subseteq WatchIds \X Files
    BY <1>1 DEF WatchTypeOK, Poll
<1>7. WatchTypeOK'
    BY <1>1, <1>5, <1>6 DEF WatchTypeOK, Poll
<1> QED BY <1>2, <1>3, <1>7, LoopOnly DEF Poll

LEMMA ReadKeeps ==
    ASSUME WatchInv, NEW id \in WatchIds, NEW f \in Files, ReadFile(id, f)
    PROVE  WatchInv'
<1>1. WatchTypeOK /\ loop[id] \in Loop
    BY DEF WatchInv, WatchTypeOK
<1>2. PICK l \in Loop : SetLoop(id, l) /\ l.at # "none" /\ l.at # "ended"
  <2>1. CASE Exists(f) /\ SetLoop(id, [loop[id] EXCEPT !.at = "write", !.cur = {f}, !.read = file[f]])
    <3>1. file[f] \in Versions
        BY <1>1 DEF WatchTypeOK
    <3> DEFINE l == [loop[id] EXCEPT !.at = "write", !.cur = {f}, !.read = file[f]]
    <3>2. l \in Loop /\ l.at = "write"
        BY <1>1, <3>1 DEF Loop
    <3> QED BY <2>1, <3>2
  <2>2. CASE SetLoop(id, DoneWith(loop[id], f))
      BY <1>1, <2>2, LoopTypes
  <2> QED BY <2>1, <2>2 DEF ReadFile
<1>3. loop' \in [WatchIds -> Loop]
    BY <1>1, <1>2, LoopTyped
<1>4. failed' \subseteq WatchIds \X Files
    BY <1>1 DEF WatchTypeOK, ReadFile
<1>5. WatchTypeOK'
    BY <1>1, <1>3, <1>4 DEF WatchTypeOK, ReadFile
<1>6. loop[id].at = "index"
    BY DEF ReadFile
<1> QED BY <1>2, <1>5, <1>6, LoopOnly DEF ReadFile

LEMMA WriteKeeps ==
    ASSUME WatchInv, NEW id \in WatchIds, NEW f \in Files, WriteIndex(id, f)
    PROVE  WatchInv'
<1>1. WatchTypeOK /\ loop[id] \in Loop
    BY DEF WatchInv, WatchTypeOK
<1>2. PICK l \in Loop : SetLoop(id, l) /\ l.at # "none" /\ l.at # "ended"
    BY <1>1, LoopTypes DEF WriteIndex
<1>3. loop' \in [WatchIds -> Loop]
    BY <1>1, <1>2, LoopTyped
<1>4. loop[id].kb \in KBs /\ loop[id].read \in Versions
    BY <1>1 DEF Loop
<1>5. indexed' \in [KBs -> [Files -> Versions]]
    BY <1>1, <1>4 DEF WatchTypeOK, WriteIndex
<1>6. failed' \subseteq WatchIds \X Files
    BY <1>1 DEF WatchTypeOK, WriteIndex
<1>7. WatchTypeOK'
    BY <1>1, <1>3, <1>5, <1>6 DEF WatchTypeOK, WriteIndex
<1>8. loop[id].at = "write"
    BY DEF WriteIndex
<1> QED BY <1>2, <1>7, <1>8, LoopOnly DEF WriteIndex

LEMMA FailKeeps ==
    ASSUME WatchInv, NEW id \in WatchIds, NEW f \in Files, IndexFails(id, f)
    PROVE  WatchInv'
<1>1. WatchTypeOK /\ loop[id] \in Loop
    BY DEF WatchInv, WatchTypeOK
<1>2. PICK l \in Loop : SetLoop(id, l) /\ l.at # "none" /\ l.at # "ended"
    BY <1>1, LoopTypes DEF IndexFails
<1>3. loop' \in [WatchIds -> Loop]
    BY <1>1, <1>2, LoopTyped
<1>4. failed' \subseteq WatchIds \X Files
    BY <1>1 DEF WatchTypeOK, IndexFails
<1>5. watchFaults' \in 0..MaxWatchFaults
    BY <1>1, Bounds DEF WatchTypeOK, IndexFails
<1>6. WatchTypeOK'
    BY <1>1, <1>3, <1>4, <1>5 DEF WatchTypeOK, IndexFails
<1>7. loop[id].at = "write"
    BY DEF IndexFails
<1> QED BY <1>2, <1>6, <1>7, LoopOnly DEF IndexFails

\* The loop goes on after an exception: AfterException is what this rests on.
LEMMA RaiseKeeps ==
    ASSUME WatchInv, NEW id \in WatchIds, IndexRaises(id)
    PROVE  WatchInv'
<1> DEFINE l == NewLoop(loop[id].kb, AfterException, loop[id].bound)
<1>1. WatchTypeOK /\ loop[id] \in Loop
    BY DEF WatchInv, WatchTypeOK
<1>2. loop[id].kb \in KBs /\ loop[id].bound \in BOOLEAN /\ loop[id].todo \subseteq Files
    BY <1>1 DEF Loop
<1>3. l \in Loop /\ l.at = "sleep"
    BY <1>2, LoopTypes DEF NewLoop, AfterException
<1>4. SetLoop(id, l) /\ loop[id].at = "write"
    BY DEF IndexRaises
<1> HIDE DEF l
<1>5. loop' \in [WatchIds -> Loop]
    BY <1>1, <1>3, <1>4, LoopTyped
<1>6. failed' \subseteq WatchIds \X Files
    BY <1>1, <1>2 DEF WatchTypeOK, IndexRaises
<1>7. watchFaults' \in 0..MaxWatchFaults
    BY <1>1, Bounds DEF WatchTypeOK, IndexRaises
<1>8. WatchTypeOK'
    BY <1>1, <1>5, <1>6, <1>7 DEF WatchTypeOK, IndexRaises
<1> QED BY <1>3, <1>4, <1>8, LoopOnly DEF IndexRaises

-----------------------------------------------------------------------------
(* Requests, edits and restarts.                                           *)

\* A new watch: its id is one that nothing has used, and its base was below
\* the cap.
LEMMA WatchKeeps ==
    ASSUME WatchInv, NEW id \in WatchIds, NEW kb \in KBs, NEW F \in SUBSET Files, Watch(id, kb, F)
    PROVE  WatchInv'
<1> DEFINE valid == {f \in F : Exists(f)}
           e == [id |-> id, kb |-> kb, files |-> valid]
<1>1. WatchTypeOK /\ watches \in Seq(Entry) /\ registry \in Seq(Entry)
    BY DEF WatchInv, WatchTypeOK
<1>2. e \in Entry /\ e.id = id /\ e.kb = kb
    BY DEF Entry
<1>3. watches' = Append(watches, e) /\ loop' = [loop EXCEPT ![id] = NewLoop(kb, "start", TRUE)]
      /\ stopped' = stopped /\ BelowCap(kb) /\ loop[id].at = "none"
    BY DEF Watch, FreshId
<1>r. /\ registry' = watches' \/ registry' = registry
      /\ watchFaults' \in 0..MaxWatchFaults
    BY <1>1, Bounds DEF Watch, Persist, WatchTypeOK
<1>h. hash' = [hash EXCEPT ![id] = Hashes(valid)]
    BY DEF Watch
<1>4. NewLoop(kb, "start", TRUE) \in Loop /\ NewLoop(kb, "start", TRUE).at = "start"
    BY LoopTypes DEF NewLoop
<1>5. Hashes(valid) \in [Files -> Versions]
    BY <1>1, Bounds DEF WatchTypeOK, Hashes, Versions
<1> HIDE DEF e, valid
<1>6. id \notin Ids(watches) \cup Ids(registry) \cup stopped
    BY <1>3 DEF WatchInv, Begun
<1>7. /\ watches' \in Seq(Entry) /\ Range(watches') = Range(watches) \cup {e}
      /\ Ids(watches') = Ids(watches) \cup {id} /\ Distinct(watches')
    BY <1>1, <1>2, <1>3, <1>6, AppendEntry DEF WatchTypeOK, Distinct
<1>8. loop' \in [WatchIds -> Loop] /\ hash' \in [WatchIds -> [Files -> Versions]]
    BY <1>1, <1>3, <1>4, <1>5, <1>h DEF WatchTypeOK
<1>9. WatchTypeOK' /\ Distinct(registry)'
  <2>1. registry' \in Seq(Entry) /\ Distinct(registry')
      BY <1>1, <1>7, <1>r DEF WatchInv
  <2>2. \A i, j \in DOMAIN watches' : watches'[i].id = watches'[j].id => i = j
      BY <1>7 DEF Distinct
  <2>3. UNCHANGED <<file, indexed, stopped, noticed, failed, fileEdits, watchRestarts>>
      BY DEF Watch
  <2>4. WatchTypeOK'
      BY <1>1, <1>7, <1>8, <1>r, <2>1, <2>2, <2>3 DEF WatchTypeOK
  <2> QED BY <2>1, <2>4 DEF Distinct
<1>10. Ids(registry') \subseteq Ids(watches) \cup Ids(registry) \cup {id}
    BY <1>7, <1>r
<1>11. \A x \in WatchIds : loop'[x] = IF x = id THEN NewLoop(kb, "start", TRUE) ELSE loop[x]
    BY <1>1, <1>3 DEF WatchTypeOK
<1>12. Ids(watches) \subseteq WatchIds /\ Ids(registry) \subseteq WatchIds /\ stopped \subseteq WatchIds
    BY <1>1, Entries DEF WatchTypeOK
<1>13. Begun'
  <2>1. \A x \in Ids(watches') \cup Ids(registry') \cup stopped' : loop'[x].at # "none"
      BY <1>3, <1>4, <1>7, <1>10, <1>11, <1>12 DEF WatchInv, Begun
  <2> QED BY <2>1 DEF Begun, Ids
<1>14. Final'
  <2>1. stopped' \cap (Ids(watches') \cup Ids(registry')) = {}
      BY <1>3, <1>6, <1>7, <1>10 DEF WatchInv, Final
  <2> QED BY <2>1 DEF Final, Ids
<1>15. Monitored'
  <2>1. \A x \in WatchIds : x \in Ids(watches') /\ loop'[x].bound => loop'[x].at # "ended"
      BY <1>4, <1>7, <1>11, ActiveIds DEF WatchInv, Monitored
  <2> QED BY <2>1 DEF Monitored, Active, Ids
<1>16. CapHeld'
  <2> SUFFICES ASSUME NEW b \in KBs
               PROVE  Cardinality({w \in Range(watches') : w.kb = b}) <= Cap
      BY DEF CapHeld
  <2> DEFINE S == {w \in Range(watches) : w.kb = b}
  <2>1. IsFiniteSet(S) /\ Cardinality(S) \in Nat /\ Cardinality(S) <= Cap
      BY <1>1, CountOfBase DEF WatchInv, CapHeld
  <2>2. CASE b # kb
    <3>1. {w \in Range(watches') : w.kb = b} = S
        BY <1>2, <1>7, <2>2
    <3> QED BY <2>1, <3>1
  <2>3. CASE b = kb
    <3>1. {w \in Range(watches') : w.kb = b} = S \cup {e}
        BY <1>2, <1>7, <2>3
    <3>2. Cardinality(S) < Cap
        BY <1>3, <2>3 DEF BelowCap
    <3> HIDE DEF S
    <3>3. Cardinality(S \cup {e}) = IF e \in S THEN Cardinality(S) ELSE Cardinality(S) + 1
        BY <2>1, FS_AddElement
    <3>4. Cardinality(S \cup {e}) <= Cap
        BY <2>1, <3>2, <3>3, Bounds
    <3> QED BY <3>1, <3>4
  <2> QED BY <2>2, <2>3
<1> QED BY <1>9, <1>13, <1>14, <1>15, <1>16 DEF WatchInv

\* A watch is stopped: if that could be recorded, neither list has its id.
LEMMA UnwatchKeeps ==
    ASSUME WatchInv, NEW id \in WatchIds, Unwatch(id)
    PROVE  WatchInv'
<1>1. WatchTypeOK /\ watches \in Seq(Entry) /\ registry \in Seq(Entry)
    BY DEF WatchInv, WatchTypeOK
<1>2. id \in Ids(watches) /\ Distinct(watches)
    BY <1>1, ActiveIds DEF Unwatch, WatchTypeOK, Distinct
<1>3. watches' = Without(watches, id) /\ loop' = loop
    BY DEF Unwatch
<1>4. /\ watches' \in Seq(Entry) /\ Range(watches') \subseteq Range(watches)
      /\ Ids(watches') \subseteq Ids(watches) \ {id} /\ Distinct(watches')
    BY <1>1, <1>2, <1>3, WithoutEntry
<1>5. watchFaults \in Nat
    BY <1>1, Bounds DEF WatchTypeOK
<1>6. /\ \/ registry' = watches' /\ stopped' = stopped \cup {id}
         \/ registry' = registry /\ stopped' = stopped
      /\ watchFaults' \in 0..MaxWatchFaults
    BY <1>1, <1>3, <1>5, Bounds DEF Unwatch, PersistStop, Persist, WatchTypeOK
<1>7. WatchTypeOK' /\ Distinct(registry)'
  <2>1. registry' \in Seq(Entry) /\ Distinct(registry') /\ stopped' \subseteq WatchIds
      BY <1>1, <1>4, <1>6 DEF WatchInv, WatchTypeOK
  <2>2. \A i, j \in DOMAIN watches' : watches'[i].id = watches'[j].id => i = j
      BY <1>4 DEF Distinct
  <2>3. UNCHANGED <<hash, loop, file, indexed, noticed, failed, fileEdits, watchRestarts>>
      BY DEF Unwatch
  <2>4. WatchTypeOK'
      BY <1>1, <1>4, <1>6, <2>1, <2>2, <2>3 DEF WatchTypeOK
  <2> QED BY <2>1, <2>4 DEF Distinct
<1>8. Begun'
  <2>1. \A x \in Ids(watches') \cup Ids(registry') \cup stopped' : loop'[x].at # "none"
      BY <1>2, <1>3, <1>4, <1>6 DEF WatchInv, Begun
  <2> QED BY <2>1 DEF Begun, Ids
<1>9. Final'
  <2>1. stopped' \cap (Ids(watches') \cup Ids(registry')) = {}
      BY <1>4, <1>6 DEF WatchInv, Final
  <2> QED BY <2>1 DEF Final, Ids
<1>10. Monitored'
  <2>1. \A x \in WatchIds : x \in Ids(watches') /\ loop'[x].bound => loop'[x].at # "ended"
      BY <1>3, <1>4, ActiveIds DEF WatchInv, Monitored
  <2> QED BY <2>1 DEF Monitored, Active, Ids
<1>11. CapHeld'
  <2> SUFFICES ASSUME NEW b \in KBs
               PROVE  Cardinality({w \in Range(watches') : w.kb = b}) <= Cap
      BY DEF CapHeld
  <2> DEFINE S == {w \in Range(watches) : w.kb = b}
             T == {w \in Range(watches') : w.kb = b}
  <2>1. IsFiniteSet(S) /\ Cardinality(S) \in Nat /\ Cardinality(S) <= Cap
      BY <1>1, CountOfBase DEF WatchInv, CapHeld
  <2>2. T \in SUBSET S
      BY <1>4
  <2> HIDE DEF S, T
  <2>3. Cardinality(T) <= Cardinality(S) /\ Cardinality(T) \in Nat
      BY <2>1, <2>2, FS_Subset, FS_CardinalityType
  <2> QED BY <2>1, <2>3, Bounds DEF T
<1> QED BY <1>7, <1>8, <1>9, <1>10, <1>11 DEF WatchInv

\* A file changes.
LEMMA EditKeeps ==
    ASSUME WatchInv, NEW f \in Files, Edit(f)
    PROVE  WatchInv'
<1>1. WatchTypeOK
    BY DEF WatchInv
<1>2. fileEdits \in 0..MaxFileEdits /\ fileEdits' \in 0..MaxFileEdits
      /\ fileEdits + 2 \in Versions /\ 0 \in Versions
    BY <1>1, Bounds DEF WatchTypeOK, Edit, Versions
<1>3. file' \in [Files -> Versions]
    BY <1>1, <1>2 DEF WatchTypeOK, Edit
<1>4. WatchTypeOK'
    BY <1>1, <1>2, <1>3 DEF WatchTypeOK, Edit
<1> QED BY <1>4 DEF WatchInv, Edit, Distinct, Begun, Final, Monitored, CapHeld, Active, Ids

\* The process starts again: what comes back was in the registry, so nothing
\* that was stopped does.
LEMMA RestartKeepsInv ==
    ASSUME WatchInv, RestoreWatches
    PROVE  WatchInv'
<1>1. WatchTypeOK /\ registry \in Seq(Entry) /\ Distinct(registry)
    BY DEF WatchInv, WatchTypeOK
<1>2. PICK o \in InOrder(Kept) : watches' = Restored(o)
    BY DEF RestoreWatches
<1>3. /\ watches' \in Seq(Entry) /\ Len(watches') <= Cap
      /\ Ids(watches') \subseteq Ids(registry) /\ Distinct(watches')
    BY <1>1, <1>2, RestoredEntries
<1>4. UNCHANGED <<registry, file, indexed, stopped, noticed, failed, fileEdits, watchFaults>>
    BY DEF RestoreWatches
<1>5. \A id \in WatchIds : /\ loop[id].at = "none" => loop'[id] = loop[id]
                           /\ loop[id].at # "none" => /\ loop'[id].at \in {"start", "ended"}
                                                      /\ loop'[id].bound = FALSE
    BY DEF RestoreWatches, NewLoop
<1>6. loop' \in [WatchIds -> Loop]
  <2> SUFFICES ASSUME NEW id \in WatchIds
               PROVE  (IF loop[id].at = "none" THEN loop[id]
                       ELSE NewLoop(loop[id].kb, IF Active(id)' THEN "start" ELSE "ended", FALSE)) \in Loop
      BY DEF RestoreWatches
  <2>1. loop[id] \in Loop /\ loop[id].kb \in KBs
      BY <1>1 DEF WatchTypeOK, Loop
  <2>2. \A at \in {"start", "ended"} : NewLoop(loop[id].kb, at, FALSE) \in Loop
      BY <2>1, LoopTypes
  <2> QED BY <2>1, <2>2
<1>7. hash' \in [WatchIds -> [Files -> Versions]]
  <2>1. \A S : Hashes(S) \in [Files -> Versions]
      BY <1>1, Bounds DEF WatchTypeOK, Hashes, Versions
  <2> QED BY <2>1 DEF RestoreWatches
<1>8. watchRestarts' \in 0..MaxWatchRestarts
    BY <1>1, Bounds DEF WatchTypeOK, RestoreWatches
<1>9. \A i, j \in DOMAIN watches' : watches'[i].id = watches'[j].id => i = j
    BY <1>3 DEF Distinct
<1>10. WatchTypeOK' /\ Distinct(registry)'
    BY <1>1, <1>3, <1>4, <1>6, <1>7, <1>8, <1>9 DEF WatchTypeOK, Distinct
<1>11. Ids(registry) \subseteq WatchIds /\ stopped \subseteq WatchIds
    BY <1>1, Entries DEF WatchTypeOK
<1>12. Begun'
  <2>1. \A x \in Ids(watches') \cup Ids(registry') \cup stopped' : loop'[x].at # "none"
      BY <1>3, <1>4, <1>5, <1>11 DEF WatchInv, Begun
  <2> QED BY <2>1 DEF Begun, Ids
<1>13. Final'
  <2>1. stopped' \cap (Ids(watches') \cup Ids(registry')) = {}
      BY <1>3, <1>4 DEF WatchInv, Final
  <2> QED BY <2>1 DEF Final, Ids
<1>14. Monitored'
  <2>1. \A x \in WatchIds : x \in Ids(watches') => ~loop'[x].bound
      BY <1>3, <1>5 DEF WatchInv, Begun
  <2> QED BY <2>1 DEF Monitored, Active, Ids
<1>15. CapHeld'
  <2> SUFFICES ASSUME NEW b \in KBs
               PROVE  Cardinality({w \in Range(watches') : w.kb = b}) <= Cap
      BY DEF CapHeld
  <2>1. /\ Cardinality({w \in Range(watches') : w.kb = b}) \in Nat
        /\ Cardinality({w \in Range(watches') : w.kb = b}) <= Len(watches')
      BY <1>3, CountOfBase
  <2>2. Len(watches') \in Nat
      BY <1>3, LenProperties
  <2> QED BY <1>3, <2>1, <2>2, Bounds
<1> QED BY <1>10, <1>12, <1>13, <1>14, <1>15 DEF WatchInv

-----------------------------------------------------------------------------
(* The theorems.                                                           *)

LEMMA WatchStarts == WatchInit => WatchInv
<1> SUFFICES ASSUME WatchInit PROVE WatchInv
    OBVIOUS
<1>1. watches \in Seq(Entry) /\ registry \in Seq(Entry) /\ Len(watches) = 0 /\ Len(registry) = 0
    BY DEF WatchInit
<1>2. DOMAIN watches = {} /\ DOMAIN registry = {} /\ Range(watches) = {} /\ Range(registry) = {}
    BY DEF WatchInit, Range
<1>3. 0 \in Versions /\ 1 \in Versions
    BY Bounds DEF Versions
<1>4. loop \in [WatchIds -> Loop]
  <2>1. \A kb \in KBs : NewLoop(kb, "none", FALSE) \in Loop
      BY LoopTypes
  <2> QED BY <2>1 DEF WatchInit
<1>5. WatchTypeOK
  <2>1. /\ hash \in [WatchIds -> [Files -> Versions]] /\ file \in [Files -> Versions]
        /\ indexed \in [KBs -> [Files -> Versions]]
      BY <1>3 DEF WatchInit
  <2>2. /\ stopped = {} /\ noticed = {} /\ failed = {}
        /\ fileEdits \in 0..MaxFileEdits /\ watchFaults \in 0..MaxWatchFaults
        /\ watchRestarts \in 0..MaxWatchRestarts
      BY Bounds DEF WatchInit
  <2> QED BY <1>1, <1>2, <1>4, <2>1, <2>2 DEF WatchTypeOK
<1>6. Distinct(registry) /\ Begun /\ Final /\ Monitored
    BY <1>2 DEF WatchInit, Distinct, Begun, Final, Monitored, Active, Ids
<1>7. CapHeld
  <2>1. \A kb : {w \in Range(watches) : w.kb = kb} = {}
      BY <1>2
  <2> QED BY <2>1, FS_EmptySet, Bounds DEF CapHeld
<1> QED BY <1>5, <1>6, <1>7 DEF WatchInv

\* One step of anything keeps the invariant.
LEMMA WatchStep == WatchInv /\ [WatchNext]_watchVars => WatchInv'
<1> SUFFICES ASSUME WatchInv, [WatchNext]_watchVars PROVE WatchInv'
    OBVIOUS
<1>1. CASE UNCHANGED watchVars
    BY <1>1 DEF watchVars, WatchInv, WatchTypeOK, Distinct, Begun, Final, Monitored, CapHeld, Active, Ids
<1>2. ASSUME NEW id \in WatchIds, LoopStep(id) PROVE WatchInv'
    BY <1>2, BeginKeeps, LeaveKeeps, PollKeeps, RaiseKeeps, ReadKeeps, WriteKeeps, FailKeeps
       DEF LoopStep
<1>3. ASSUME NEW id \in WatchIds, Request(id) PROVE WatchInv'
    BY <1>3, UnwatchKeeps, WatchKeeps DEF Request
<1>4. ASSUME NEW f \in Files, Edit(f) PROVE WatchInv'
    BY <1>4, EditKeeps
<1>5. CASE RestoreWatches
    BY <1>5, RestartKeepsInv
<1> QED BY <1>1, <1>2, <1>3, <1>4, <1>5 DEF WatchNext

\* The inductive invariant holds of every behaviour of the watches.
THEOREM WatchInvariant == WatchSpec => []WatchInv
<1> QED BY WatchStarts, WatchStep, PTL DEF WatchSpec

\* No failed re-index, restart or race with /unwatch leaves a watch that a
\* request started without a running task, and ids stay unique: _watch_loop
\* and watch_files, for any number of watches.
THEOREM WatchCorrect == WatchSpec => []WatchSafe
<1>1. WatchInv => WatchSafe
    BY DEF WatchInv, WatchSafe
<1> QED BY <1>1, WatchInvariant, PTL

\* The cap per base holds over restarts, and a watch whose stop was recorded
\* never comes back: watch_files, unwatch_files and _restore_watches.
THEOREM RegistryCorrect == WatchSpec => [](CapHeld /\ UnwatchFinal)
<1>1. WatchInv => CapHeld /\ UnwatchFinal
    BY ActiveIds DEF WatchInv, Final, UnwatchFinal
<1> QED BY <1>1, WatchInvariant, PTL

-----------------------------------------------------------------------------
(* Restarts with one base: the lists of several bases share one registry,  *)
(* of which _restore_watches looks at the first Cap entries, so that with  *)
(* two bases a watch may be left out.                                      *)

Fits == Len(watches) <= Cap /\ Len(registry) <= Cap

\* If there is one base, a list that is within its cap is no longer than it.
LEMMA OneBaseFits ==
    ASSUME NEW kb, KBs = {kb}, NEW ws \in Seq(Entry), Distinct(ws),
           Cardinality({w \in Range(ws) : w.kb = kb}) <= Cap
    PROVE  Len(ws) <= Cap
<1>1. {w \in Range(ws) : w.kb = kb} = Range(ws)
    BY Entries DEF Entry
<1> QED BY <1>1, CountEntries

\* With one base, the registry is never longer than the cap.
LEMMA FitsStep ==
    ASSUME NEW kb, KBs = {kb}, WatchInv, Fits, WatchInv', [WatchNext]_watchVars
    PROVE  Fits'
<1>1. Len(watches') <= Cap
  <2>1. watches' \in Seq(Entry) /\ Distinct(watches')
      BY DEF WatchInv, WatchTypeOK, Distinct
  <2>2. Cardinality({w \in Range(watches') : w.kb = kb}) <= Cap
      BY DEF WatchInv, CapHeld
  <2> QED BY <2>1, <2>2, OneBaseFits
<1>2. registry' = registry \/ registry' = watches'
  <2>1. CASE UNCHANGED watchVars
      BY <2>1 DEF watchVars
  <2>2. ASSUME NEW id \in WatchIds, LoopStep(id) PROVE registry' = registry
      BY <2>2 DEF LoopStep, BeginLoop, Leave, Poll, IndexRaises, ReadFile, WriteIndex, IndexFails
  <2>3. ASSUME NEW id \in WatchIds, Request(id) PROVE registry' = registry \/ registry' = watches'
      BY <2>3 DEF Request, Unwatch, Watch, PersistStop, Persist
  <2>4. ASSUME NEW f \in Files, Edit(f) PROVE registry' = registry
      BY <2>4 DEF Edit
  <2>5. CASE RestoreWatches
      BY <2>5 DEF RestoreWatches
  <2> QED BY <2>1, <2>2, <2>3, <2>4, <2>5 DEF WatchNext
<1> QED BY <1>1, <1>2 DEF Fits

\* A restart keeps what the registry has, if all of it is looked at.
LEMMA RestartBringsBack ==
    ASSUME WatchInv, Fits, RestoreWatches,
           NEW w \in Range(registry), NEW f \in w.files, Exists(f)
    PROVE  \E x \in Range(watches') : x.id = w.id
<1>1. registry \in Seq(Entry)
    BY DEF WatchInv, WatchTypeOK
<1>2. PICK o \in InOrder(Kept) : watches' = Restored(o)
    BY DEF RestoreWatches
<1>3. PICK i \in DOMAIN registry : w = registry[i]
    BY <1>1, Entries
<1>4. i \in Kept
  <2>1. i <= Cap
      BY <1>1, <1>3, Entries, Bounds DEF Fits
  <2>2. Restorable(registry[i])
      BY <1>3 DEF Restorable
  <2> QED BY <1>1, <1>3, <2>1, <2>2, KeptPlaces
<1>5. registry[i].id \in Ids(watches')
    BY <1>1, <1>2, <1>4, RestoredEntries
<1> QED BY <1>3, <1>5 DEF Ids

\* With one base, a restart brings back every watch that the registry has and
\* that still has a file: _persist_watches and _restore_watches.
THEOREM RestartCorrect ==
    ASSUME NEW kb, KBs = {kb}
    PROVE  WatchSpec => RegistrySound
<1>1. WatchInit => Fits
    BY Bounds DEF WatchInit, Fits
<1>2. WatchInv /\ Fits /\ WatchInv' /\ [WatchNext]_watchVars => Fits'
    BY FitsStep
<1>3. WatchSpec => []Fits
    BY <1>1, <1>2, WatchInvariant, PTL DEF WatchSpec
<1>4. WatchInv /\ Fits /\ [WatchNext]_watchVars
        => [watchRestarts' # watchRestarts =>
              \A w \in Range(watches) : w \in Range(registry) /\ (\E f \in w.files : Exists(f)) =>
                 \E x \in Range(watches') : x.id = w.id]_watchVars
  <2> SUFFICES ASSUME WatchInv, Fits, WatchNext, watchRestarts' # watchRestarts,
                      NEW w \in Range(watches), w \in Range(registry),
                      NEW f \in w.files, Exists(f)
               PROVE  \E x \in Range(watches') : x.id = w.id
      OBVIOUS
  <2>1. RestoreWatches
      BY DEF WatchNext, LoopStep, Request, BeginLoop, Leave, Poll, IndexRaises, ReadFile,
             WriteIndex, IndexFails, Unwatch, Watch, Edit
  <2> QED BY <2>1, RestartBringsBack
<1>5. WatchSpec => RestartKeeps
    BY <1>3, <1>4, WatchInvariant, PTL DEF WatchSpec, RestartKeeps
<1> QED BY <1>5, RegistryCorrect, PTL DEF RegistrySound
=============================================================================
