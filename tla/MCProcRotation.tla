--------------------------- MODULE MCProcRotation ---------------------------
(* Values of Proc's constants for TLC that a .cfg cannot write.             *)
EXTENDS ProcRotation

MCUsers == {"user_entry"}
=============================================================================
