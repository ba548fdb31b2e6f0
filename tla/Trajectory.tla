----------------------------- MODULE Trajectory -----------------------------
(***************************************************************************)
(* The trajectory file (engine/trajectory_writer.py).  A thread that has a *)
(* line to write checks the size of the file, rotates it by renaming if it *)
(* is large, and appends.  Nothing keeps two threads apart.                *)
(***************************************************************************)
EXTENDS Integers, FiniteSets, Sequences, FiniteSetsExt

CONSTANTS Tracers,               \* threads that write a line
          FileSize, KeepFiles,   \* in lines and in files
          MaxLines               \* bound

ASSUME TrajSizes == /\ {FileSize, KeepFiles} \subseteq Nat \ {0} /\ MaxLines \in Nat
                    /\ IsFiniteSet(Tracers)

VARIABLES active,      \* the lines of the file, Absent if there is none
          old,         \* and of the files .1, .2, ... rotated out of it
          tracer,      \* what each thread is at, with its line and the file it renames
          lines,
          closed,      \* history: the files rotated out so far, newest first
          overlapped   \* history: two threads have been rotating at once

trajVars == <<active, old, tracer, lines, closed, overlapped>>

Absent   == {0}        \* lines are numbered from 1
Rotating == {"unlink", "shift", "move"}

BeginLine(t) ==
    /\ tracer[t].step = "idle" /\ lines < MaxLines
    /\ lines' = lines + 1
    /\ tracer' = [tracer EXCEPT ![t] = [step |-> "check", line |-> lines + 1, file |-> 0]]
    /\ UNCHANGED <<active, old, closed, overlapped>>

Full    == active # Absent /\ Cardinality(active) >= FileSize

CheckSize(t) ==
    /\ tracer[t].step = "check"
    /\ tracer' = [tracer EXCEPT ![t].step = IF Full THEN "unlink" ELSE "append"]
    /\ overlapped' = (overlapped \/ (Full /\ \E u \in Tracers : tracer[u].step \in Rotating))
    /\ UNCHANGED <<active, old, lines, closed>>

\* From the oldest file down: one step of the loop over them.
Continue(t, i) ==
    tracer' = [tracer EXCEPT ![t] = [step |-> IF i > 0 THEN "shift" ELSE "move",
                                     line |-> tracer[t].line, file |-> i]]

Unlink(t) ==
    /\ tracer[t].step = "unlink"
    /\ old' = [old EXCEPT ![KeepFiles] = Absent]
    /\ Continue(t, KeepFiles - 1)
    /\ UNCHANGED <<active, lines, closed, overlapped>>

ShiftedBug(i) == IF old[i] = Absent \/ i = 1 THEN old   \* mutant: the range ends too early
                 ELSE [old EXCEPT ![i + 1] = old[i], ![i] = Absent]

Shifted(i)    == IF old[i] = Absent THEN old
                 ELSE [old EXCEPT ![i + 1] = old[i], ![i] = Absent]

Shift(t) ==
    /\ tracer[t].step = "shift"
    /\ old' = Shifted(tracer[t].file)
    /\ Continue(t, tracer[t].file - 1)
    /\ UNCHANGED <<active, lines, closed, overlapped>>

\* Renaming a file that another thread has moved away fails and is logged.
MoveActive(t) ==
    /\ tracer[t].step = "move"
    /\ IF active = Absent
       THEN UNCHANGED <<active, old, closed>>
       ELSE /\ old' = [old EXCEPT ![1] = active]
            /\ active' = Absent
            /\ closed' = <<active>> \o closed
    /\ tracer' = [tracer EXCEPT ![t].step = "append"]
    /\ UNCHANGED <<lines, overlapped>>

AppendLine(t) ==
    /\ tracer[t].step = "append"
    /\ active' = (active \ Absent) \cup {tracer[t].line}
    /\ tracer' = [tracer EXCEPT ![t].step = "idle"]
    /\ UNCHANGED <<old, lines, closed, overlapped>>

TrajInit ==
    /\ active = Absent /\ old = [i \in 1..KeepFiles |-> Absent]
    /\ tracer = [t \in Tracers |-> [step |-> "idle", line |-> 0, file |-> 0]]
    /\ lines = 0 /\ closed = <<>> /\ overlapped = FALSE

TrajNext == \E t \in Tracers : \/ BeginLine(t) \/ CheckSize(t) \/ Unlink(t) \/ Shift(t)
                               \/ MoveActive(t) \/ AppendLine(t)

TrajSpec == TrajInit /\ [][TrajNext]_trajVars

-----------------------------------------------------------------------------
(* Properties.                                                             *)

\* Every variable has its type.
TrajTypeOK ==
    /\ active \subseteq 0..lines /\ old \in [1..KeepFiles -> SUBSET (0..lines)]
    /\ tracer \in [Tracers -> [step : {"idle", "check", "append"} \cup Rotating,
                               line : 0..lines, file : 0..(KeepFiles - 1)]]

\* The size cap is crossed by the lines of threads that had checked it before
\* another one filled the file, and by no more.
ActiveBounded == Cardinality(active \ Absent) <= FileSize + Cardinality(Tracers) - 1

\* The last files that were rotated out are kept, in order (_maybe_rotate), unless
\* two threads have rotated at once.
RotatedKept ==
    ~overlapped /\ (\A t \in Tracers : tracer[t].step \notin Rotating) =>
        \A i \in 1..Min({KeepFiles, Len(closed)}) : old[i] = closed[i]

\* The files are bounded, and the last of them kept.
TrajectorySafe == TrajTypeOK /\ ActiveBounded /\ RotatedKept
=============================================================================
