------------------------------ MODULE MCFramer ------------------------------
(***************************************************************************)
(* Small instance of Framer.                                               *)
(***************************************************************************)
EXTENDS Framer

\* Bound: at most two bytes of a stream are neither 0 nor the preamble, which
\* leaves room for streams long enough to hold two frames.
FewOthers == Len(SelectSeq(received, LAMBDA x : x \notin {0, preamble})) <= 2
=============================================================================
