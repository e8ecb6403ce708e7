------------------------------ MODULE Snapshot ------------------------------
(***************************************************************************)
(* What the lists of the console promise, whatever requests, retries,      *)
(* cancellations and navigations lie between them and the server: each     *)
(* shows nothing yet or a state the server has been in, and none ever goes *)
(* back to an older state than the one it has shown, unless the browser    *)
(* loads the console anew.                                                 *)
(***************************************************************************)
EXTENDS Integers

CONSTANT Views      \* the lists

VARIABLES
    now,    \* the number of changes of the server so far
    seen    \* the state that each list shows, -1: nothing yet

Init ==
    /\ now = 0
    /\ seen = [w \in Views |-> -1]

Change ==
    /\ now' = now + 1
    /\ UNCHANGED seen

Show(w) ==
    /\ \E v \in seen[w] .. now : seen' = [seen EXCEPT ![w] = v]
    /\ UNCHANGED now

\* The browser loads the console anew.
Reload ==
    /\ seen' = [w \in Views |-> -1]
    /\ UNCHANGED now

Next == Change \/ Reload \/ \E w \in Views : Show(w)

Spec == Init /\ [][Next]_<<now, seen>>
=============================================================================
