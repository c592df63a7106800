--------------------------- MODULE MCKernelTrust ---------------------------
(***************************************************************************)
(* KernelTrust for TLC: every constant has its value in the .cfg.          *)
(***************************************************************************)
EXTENDS KernelTrust
=============================================================================
