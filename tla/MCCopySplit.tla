---------------------------- MODULE MCCopySplit -----------------------------
(* Rows over two memories A, B and an indirection memory X: direct rows   *)
(* for three pairs, a gather marker (src = X) and a scatter marker        *)
(* (dst = X), a gather-scatter marker (both, which the code rejects);   *)
(* copies of up to four rows.                                           *)
EXTENDS CopySplit

MCMems == {"A", "B", "X"}
Direct(s, d) == [src |-> s, dst |-> d, indirect |-> FALSE]
MCRows == {Direct("A", "A"), Direct("A", "B"), Direct("B", "B"),
           [src |-> "X", dst |-> None, indirect |-> TRUE],
           [src |-> None, dst |-> "X", indirect |-> TRUE],
           [src |-> "X", dst |-> "X", indirect |-> TRUE]}
=============================================================================
