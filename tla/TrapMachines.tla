---------------------------- MODULE TrapMachines ----------------------------
(***************************************************************************)
(* The kernel of Trap implements UserMachines: the machine of a slot is    *)
(* read off the hart while it is the one in user mode, off the frame on    *)
(* its kernel stack while it waits, and its memory is what its page table  *)
(* leads to.                                                               *)
(***************************************************************************)
EXTENDS Trap

CurrentInUser(s) == s = g_current_proc /\ user # NULL

Status(s) ==
    IF s \notin Created THEN "none"
    ELSE IF CurrentInUser(s) THEN "user"
    ELSE IF frame[kstack[s]] # NULL THEN "waiting" ELSE "new"

Gpr(s) ==
    CASE Status(s) = "user" -> user.gpr
      [] Status(s) = "waiting" -> frame[kstack[s]].gpr
      [] OTHER -> [r \in Regs |-> 0]

Pc(s) ==
    CASE Status(s) = "user" -> user.pc
      [] Status(s) = "waiting" -> frame[kstack[s]].sepc_
      [] OTHER -> 0

\* The memory is not followed into what may happen after "wild".
Mem(s) ==
    IF s \notin Created \/ mode = "wild" THEN [k \in ImagePages |-> [w \in Words |-> 0]]
    ELSE [k \in ImagePages |-> ram[PageOf(Walk(ram, pagetable[s], USER_BASE + k))]]

Loaded == [k \in ImagePages |-> WithImage([w \in Words |-> 0], k)]

\* What is left of the promise.
Fate ==
    IF mode = "wild" THEN "lost"
    ELSE IF mode \notin {"boot", "run", "spin"} THEN "stopped"
    ELSE IF strayed THEN "strayed" ELSE "on"

M == INSTANCE UserMachines WITH
       Machines <- Slots, Registers <- Regs, Values <- Vals, Places <- Targets,
       Image <- Loaded, Buffers <- {p - USER_BASE : p \in Stores} \intersect ImagePages,
       status <- [s \in Slots |-> Status(s)],
       gpr <- [s \in Slots |-> Gpr(s)],
       pc <- [s \in Slots |-> Pc(s)],
       mem <- [s \in Slots |-> Mem(s)],
       fate <- Fate

\* Traps, switches and page tables together give every program a machine of its own:
\* whatever the others do between its ecall and its return, it finds its registers, its pc
\* past the ecall, the key in a0, and its memory as it left them, and a fresh one finds its
\* image followed by zeros.  As to the memory this holds until a program passes a buffer that
\* is not its own to SYS_READ, for the kernel does not look where the bytes go.
ImplementsMachines == M!MachinesSpec
=============================================================================
