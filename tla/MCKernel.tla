------------------------------ MODULE MCKernel ------------------------------
(***************************************************************************)
(* Instances of module Kernel for TLC.                                     *)
(***************************************************************************)
EXTENDS Kernel

CONSTANTS shell, spin

ShippedTasks == <<shell, spin>>
=============================================================================
