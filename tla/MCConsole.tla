----------------------------- MODULE MCConsole -----------------------------
(***************************************************************************)
(* Small instance of Console: one administrator, three sessions.           *)
(***************************************************************************)
EXTENDS Console
=============================================================================
