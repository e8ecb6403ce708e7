------------------------------ MODULE MCViews ------------------------------
(***************************************************************************)
(* Small instance of Views: pages of one row, one change of the server.   *)
(***************************************************************************)
EXTENDS Views

\* Two mountpoints, one of them matches the other filter.
MCStart == [r \in Lists |-> [f \in Filters |-> IF f = All THEN 2 ELSE 1]]
=============================================================================
