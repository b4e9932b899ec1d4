---------------------------- MODULE MCUserHeap -----------------------------
(* Formats that fit in twice their length, exactly or not, and that do not. *)
EXTENDS UserHeap

MCNoFreeSpace == <<Literal, Literal>>
MCFormats ==
  {<<Literal, Conversion(2, 3)>>, <<Conversion(2, 5), Literal>>, <<Literal, Unknown, Literal>>,
   <<Conversion(2, 7), Literal>>}
=============================================================================
