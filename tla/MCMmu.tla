------------------------------- MODULE MCMmu --------------------------------
(* Thirty-two sections of sixteen pages; the devices have the last eight. *)
EXTENDS Mmu

MCDevices == Region(24, 8)

MCReserved ==
  {<<Region(100, 2), "Identity">>, <<Region(104, 4), "Mixed">>}
=============================================================================
