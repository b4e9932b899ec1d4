------------------------------ MODULE MCPages -------------------------------
(* A broker with eight pages. *)
EXTENDS Pages

MCMemory == Region(0, 8)

\* No power of two, and not in one half of the memory it is taken from.
MCReservations == {Region(5, 3)}
=============================================================================
