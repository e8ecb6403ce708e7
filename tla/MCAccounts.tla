----------------------------- MODULE MCAccounts -----------------------------
(* Small instances of Accounts for TLC. *)
EXTENDS Accounts, TLC

CONSTANTS c1, c2, a1, a2, p1, p2, u1

\* Connections are interchangeable, and so are requests and passwords.
Symmetry ==
    Permutations(Conns) \cup Permutations(Admins) \cup Permutations(Passwords)
=============================================================================
