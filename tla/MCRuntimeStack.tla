--------------------------- MODULE MCRuntimeStack ---------------------------
EXTENDS RuntimeStack, TLC
(* a; b, a delta trained on a that also writes a cell of its own; c, which
   overlaps with b only.                                                       *)
CONSTANTS a, b, c
MCWrites == a :> {1} @@ b :> {1, 2} @@ c :> {2}
MCUnder == a :> <<>> @@ b :> <<a>> @@ c :> <<>>
(* States in which neither the rows nor the table need be right any more have
   nothing left to violate; three requests and a mishap, or two and two.       *)
Promising ==
  /\ mishaps + requests <= 4
  /\ \/ hurt \subseteq {"restart"}
     \/ astray = {} /\ Cardinality(hurt) = 1
=============================================================================
