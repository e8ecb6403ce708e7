----------------------------- MODULE MCDialogs -----------------------------
(***************************************************************************)
(* Small instance of Dialogs.                                              *)
(***************************************************************************)
EXTENDS Dialogs

\* A station and a rover on the first mountpoint.
MCConns == {[kind |-> "source", id |-> 1, mount |-> 1],
            [kind |-> "client", id |-> 2, mount |-> 1]}
=============================================================================
