------------------------------- MODULE MCProc -------------------------------
(* Values of Proc's constants for TLC that a .cfg cannot write.             *)
EXTENDS Proc

MCMixed == {"worker", "user_entry"}
=============================================================================
