----------------------------- MODULE MCBodyAccess -----------------------------
(* Two own listings over one body, and one verifier. *)
EXTENDS BodyAccess

InOrder == [i \in {"a", "b"} |-> IF i = "a" THEN 1 ELSE 2]
OneBody == [i \in {"a", "b"} |-> "x"]
Private == [i \in {"a", "b"} |-> "private"]
===============================================================================
