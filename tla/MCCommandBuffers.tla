-------------------------- MODULE MCCommandBuffers --------------------------
(* TLC instances of CommandBuffers: commands and buffers are model values. *)
EXTENDS CommandBuffers, TLC

\* Buffers of the driver are interchangeable: no definition names one of them.
Symmetry == Permutations(DriverBuffers)
=============================================================================
