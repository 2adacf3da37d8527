----------------------------- MODULE MCTeaching -----------------------------
EXTENDS Teaching, TLC
(* One lesson with every choice of its owner, and a mishap unless the training
   set is an odd one; or two lessons, either of them cancelled, until one
   of them has ended and is off the shared model.                              *)
CONSTANTS j1, j2
Waits(j) == job[j].st = "NEW" /\ asked[j] = 0
PlainSet == set = [rev |-> 2, deleted |-> FALSE, file |-> TRUE, keep |-> TRUE]
OneOrTwo ==
    \/ Waits(j2) /\ (mishaps = 0 \/ PlainSet)
    \/ /\ ~Waits(j1) /\ PlainSet /\ astray = {}
       /\ \A j \in Jobs : /\ job[j].st \in Active \cup {"NEW"} \/ job[j].applied
                          /\ job[j].side
=============================================================================
