------------------------------- MODULE MCTrap -------------------------------
(* Values of Trap's constants for TLC that a .cfg cannot write.             *)
EXTENDS TrapMachines

MCEntries == {"user_entry"}

\* Eleven words: a page of eight and a part of one.
MCImage == [i \in 1 .. 11 |-> 100 + i]

\* The second page of the image, which the loader fills in part and which lies
\* under another second-level table than the first; a page of the kernel; a page nothing
\* is mapped at; and, at their own addresses, the root table of the second process and the
\* second page of its image, which belong to nobody if there is one process.
MCStores == {USER_BASE + 1, KERNEL_BASE, 0, 36, 43}
=============================================================================
