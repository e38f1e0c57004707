---------------------------- MODULE UserMachines ----------------------------
(***************************************************************************)
(* What the kernel promises to its programs: each has a machine of its     *)
(* own.  A machine has registers, a pc and the memory of the image; its    *)
(* program computes, stores and calls, and a call that waits for a key     *)
(* goes on, with nothing lost, when it has one.  Nothing a machine does    *)
(* shows in another one, as long as programs pass buffers of their own:    *)
(* what a call with another address changes is outside of the promise for  *)
(* the memories, and for everything if the address is the kernel's.  A     *)
(* trap the kernel does not know stops all.                                *)
(***************************************************************************)
EXTENDS Naturals

CONSTANTS
    Machines, Registers, Values, Places,
    Image,      \* a function from the pages of the memory to functions from words
    Buffers     \* the pages programs and calls store to, at their first word

VARIABLES
    status,     \* none, new (loaded), user (computing), waiting (for a key)
    gpr,
    pc,
    mem,
    fate        \* on, strayed (a call had an address that is not its program's), stopped or lost

mvars == <<status, gpr, pc, mem, fate>>

Blank == [r \in Registers |-> 0]

MInit ==
    /\ status = [m \in Machines |-> "none"]
    /\ gpr = [m \in Machines |-> Blank]
    /\ pc = [m \in Machines |-> 0]
    /\ mem = [m \in Machines |-> [k \in DOMAIN Image |-> [w \in DOMAIN Image[k] |-> 0]]]
    /\ fate = "on"

Load(m) ==
    /\ status[m] = "none"
    /\ status' = [status EXCEPT ![m] = "new"]
    /\ mem' = [mem EXCEPT ![m] = Image]
    /\ UNCHANGED <<gpr, pc>>

Begin(m) ==
    /\ status[m] = "new"
    /\ status' = [status EXCEPT ![m] = "user"]
    /\ \E g \in [Registers -> Values] : gpr' = [gpr EXCEPT ![m] = g]
    /\ pc' = [pc EXCEPT ![m] = 0]
    /\ UNCHANGED mem

Compute(m) ==
    /\ status[m] = "user"
    /\ \E r \in Registers, v \in Values : gpr' = [gpr EXCEPT ![m][r] = v]
    /\ \E t \in Places : pc' = [pc EXCEPT ![m] = t]
    /\ UNCHANGED <<status, mem>>

Store(m) ==
    /\ status[m] = "user"
    /\ \E k \in Buffers, v \in Values : mem' = [mem EXCEPT ![m][k][0] = v]
    /\ UNCHANGED <<status, gpr, pc>>

\* A call that comes back at once, with or without a result, or with a result
\* and bytes in a buffer.
Call(m) ==
    /\ status[m] = "user"
    /\ pc' = [pc EXCEPT ![m] = @ + 1]
    /\ \/ UNCHANGED <<gpr, mem>>
       \/ \E v \in Values : gpr' = [gpr EXCEPT ![m]["a0"] = v] /\ UNCHANGED mem
       \/ \E v \in Values, k \in Buffers :
            gpr' = [gpr EXCEPT ![m]["a0"] = v] /\ mem' = [mem EXCEPT ![m][k][0] = v]
    /\ UNCHANGED status

Wait(m) ==
    /\ status[m] = "user"
    /\ status' = [status EXCEPT ![m] = "waiting"]
    /\ UNCHANGED <<gpr, pc, mem>>

Key(m) ==
    /\ status[m] = "waiting"
    /\ status' = [status EXCEPT ![m] = "user"]
    /\ \E key \in Values : gpr' = [gpr EXCEPT ![m]["a0"] = key]
    /\ pc' = [pc EXCEPT ![m] = @ + 1]
    /\ UNCHANGED mem

\* A call with bytes for an address outside the memory of its program: they go into some
\* machine's memory, or where no machine sees them.
Stray(m) ==
    /\ status[m] = "user"
    /\ pc' = [pc EXCEPT ![m] = @ + 1]
    /\ \E v \in Values :
         /\ gpr' = [gpr EXCEPT ![m]["a0"] = v]
         /\ \/ UNCHANGED mem
            \/ \E n \in Machines, k \in DOMAIN Image : mem' = [mem EXCEPT ![n][k][0] = v]
    /\ fate' = "strayed"
    /\ UNCHANGED status

\* One with an address the kernel needs for itself: nothing is promised from here on.
Lose(m) == status[m] = "user" /\ fate' = "lost"

Stop ==
    /\ fate' = "stopped"
    /\ UNCHANGED <<status, gpr, pc, mem>>

MNext ==
    /\ fate \in {"on", "strayed"}
    /\ \/ /\ UNCHANGED fate
          /\ \E m \in Machines :
               Load(m) \/ Begin(m) \/ Compute(m) \/ Store(m) \/ Call(m) \/ Wait(m) \/ Key(m)
       \/ \E m \in Machines : Stray(m) \/ Lose(m)
       \/ Stop

MachinesSpec == MInit /\ [][MNext]_mvars
=============================================================================
