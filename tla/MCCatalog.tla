----------------------------- MODULE MCCatalog -----------------------------
(* Small instances of Catalog for TLC. *)
EXTENDS Catalog, TLC

CONSTANTS n1, n2, a1, a2

\* Names are interchangeable, and so are requests.
Symmetry == Permutations(Names) \cup Permutations(Admins)
=============================================================================
