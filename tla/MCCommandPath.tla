--------------------------- MODULE MCCommandPath ---------------------------
(* TLC instances of CommandPath: commands and requests are model values.   *)
EXTENDS CommandPath, TLC

\* Reads and writes are interchangeable: no definition names one of them.
Symmetry == Permutations(AsyncReqs)
=============================================================================
