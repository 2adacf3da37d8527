--------------------------- MODULE MCSharedLease ---------------------------
(* Four processes of one machine: two of them may reclaim a dead lease from *)
(* anybody, the others only wait.                                           *)
EXTENDS SharedLease

CONSTANTS p1, p2, p3, p4

Four  == {p1, p2, p3, p4}
TwoSee == [p \in Proc |-> IF p \in {p1, p2} THEN Proc \ {p} ELSE {}]
=============================================================================
