---------------------------- MODULE MCMountPoint ----------------------------
(* Small instances of MountPoint for TLC. *)
EXTENDS MountPoint

CONSTANTS r1, r2, s1, s2, a1, a2, u1, u2

\* The first station and its first rover are one account's.
MCUserOf ==
    [x \in Rovers \cup Sources |-> IF x \in {r1, s1} THEN u1 ELSE u2]
=============================================================================
