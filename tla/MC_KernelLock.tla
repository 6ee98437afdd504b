--------------------------- MODULE MC_KernelLock ---------------------------
(* An instance of the kernel lock for TLC; the bounds are explained in README.md. *)
EXTENDS KernelLock
=============================================================================
