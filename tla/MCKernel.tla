------------------------------ MODULE MCKernel ------------------------------
(* Two servers under chaos, sampled every tick. *)
EXTENDS Kernel
=============================================================================
