------------------------------ MODULE MCVector ------------------------------
(***************************************************************************)
(* Instances of module Vector for TLC.                                     *)
(***************************************************************************)
EXTENDS Vector, TLC

\* Entries of one byte, as in the shell's buffer, in any number; larger ones, as in the
\* kernel's vector of tasks, up to the least capacity.
EntriesInUse == 1 :> 7 @@ 3 :> MinCapacity
=============================================================================
