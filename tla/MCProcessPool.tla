--------------------------- MODULE MCProcessPool ---------------------------
(***************************************************************************)
(* Model-checking instances of ProcessPool.  Requests are model values;    *)
(* the sendable ones are interchangeable, so safety runs use symmetry.     *)
(***************************************************************************)
EXTENDS ProcessPool, TLC

\* Requests whose task can be sent may be permuted; children have numbers,
\* in the order in which they are forked, and may not.
SendableSymmetry == Permutations(Requests \ Unsendable)
=============================================================================
