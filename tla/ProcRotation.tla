---------------------------- MODULE ProcRotation ----------------------------
(***************************************************************************)
(* The scheduler of Proc implements Rotation: the queue is read off the    *)
(* process table as the current slot followed by the other slots in the    *)
(* order in which __pickup_next_proc's circular search meets them.         *)
(***************************************************************************)
EXTENDS Proc, FiniteSets

Place(s) ==
    IF g_current_proc = NULL THEN s
    ELSE IF s = g_current_proc THEN 0 ELSE Dist(g_current_proc, s)

Ahead(s) == {t \in Created : Place(t) < Place(s)}

Queue == [k \in 1 .. Cardinality(Created) |->
            CHOOSE s \in Created : Cardinality(Ahead(s)) = k - 1]

Phase == IF mode \in {"boot", "run"} THEN mode ELSE "stopped"

R == INSTANCE Rotation WITH Capacity <- PROC_MAX, queue <- Queue, phase <- Phase

\* With user processes only, which never come to proc_exit, the process table,
\* its states and the search behave as a queue that rotates: nobody is skipped,
\* and nobody is served twice.
ImplementsRotation == R!RotationSpec

\* The turn keeps moving as long as the process that has it comes to a poll.
RotationGoesOn == R!TurnsGoOn
=============================================================================
