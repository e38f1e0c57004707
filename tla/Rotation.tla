------------------------------ MODULE Rotation ------------------------------
(***************************************************************************)
(* What the scheduler promises to processes that never exit: they take     *)
(* turns.  The processes stand in a queue whose head has the CPU, and a    *)
(* process that yields goes to the back.  No states, no table, no search.  *)
(***************************************************************************)
EXTENDS Naturals, Sequences

CONSTANT Capacity   \* how many processes there can be

VARIABLES queue, phase
rotationVars == <<queue, phase>>

RotationInit == queue = <<>> /\ phase = "boot"

Admit ==
    /\ phase = "boot"
    /\ Len(queue) < Capacity
    /\ queue' = Append(queue, Len(queue))
    /\ UNCHANGED phase

Start ==
    /\ phase = "boot"
    /\ queue # <<>>
    /\ phase' = "run"
    /\ UNCHANGED queue

Rotate ==
    /\ phase = "run"
    /\ queue' = Append(Tail(queue), Head(queue))
    /\ UNCHANGED phase

\* The boot gives up, or the head keeps the CPU for ever.
Stop ==
    /\ phase \in {"boot", "run"}
    /\ phase' = "stopped"
    /\ UNCHANGED queue

RotationNext == Admit \/ Start \/ Rotate \/ Stop

RotationSpec == RotationInit /\ [][RotationNext]_rotationVars

TurnsGoOn == WF_rotationVars(Rotate)
=============================================================================
