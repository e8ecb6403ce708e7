------------------------------ MODULE MCServer ------------------------------
(* Small instances of Server for TLC. *)
EXTENDS Server, TLC

CONSTANTS c1, c2, c3, c4, i1, i2, m1

\* One connection comes from an address of its own.
MCIPOf == [c \in Conns |-> IF c = c3 /\ i2 \in IPs THEN i2 ELSE i1]

\* Connections of one address are interchangeable.
Symmetry == Permutations({c \in Conns : IPOf[c] = i1})

\* Bound: the run with four connections ends where Shutdown begins.
BeforeShutdown == dpc = "serving"
=============================================================================
