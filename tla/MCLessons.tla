------------------------------- MODULE MCLessons -------------------------------
(* Small instances of what a lesson needs: the lease of the trainer (SharedLease), *)
(* the questions (Datasets), the trial of the model on them (Preflight) and the     *)
(* queue and the training (LessonMaking).  They share no state the models keep, so  *)
(* one run checks them side by side: `part` says which of them moves, and the       *)
(* others stay in one initial state.                                                 *)
EXTENDS SharedLease, LessonMaking, Datasets, Preflight, TLC

VARIABLE part
lessonsVars == <<part, leaseVars, mvars, datasetVars, preVars>>

Parts == {"SharedLease", "LessonMaking", "Datasets", "Preflight"}
Still == /\ (part # "SharedLease" => UNCHANGED leaseVars) /\ (part # "LessonMaking" => UNCHANGED mvars)
         /\ (part # "Datasets" => UNCHANGED datasetVars) /\ (part # "Preflight" => UNCHANGED preVars)
         /\ UNCHANGED part

(* ----------------------------------- SharedLease ---------------------------------- *)
(* Four processes of one machine: two reclaim a dead lease from anybody, the others   *)
(* only wait.  Three take part in the race LeaseFour shows, and one has died.          *)
CONSTANTS p1, p2, p3, p4
Four == {p1, p2, p3, p4}
TwoSee == [p \in Proc |-> IF p \in {p1, p2} THEN Proc \ {p} ELSE {}]

(* ----------------------------------- LessonMaking --------------------------------- *)
OnA == [a |-> {}, b |-> {"a"}]
(* Asking with more than one lesson, making with one and one kind of mishap. *)
MakingApart ==
  \/ \A l \in Lessons : Exists(l) => lessons[l].noted = 0
  \/ /\ \A a \in Asks : asks[a] = NoAsk
     /\ Cardinality({l \in Lessons : Exists(l)}) = 1
     /\ (lost = 0 \/ stops = 0) /\ \A l \in Lessons : Exists(l) => lessons[l].key = "k"

(* ------------------------------------- Datasets ----------------------------------- *)
(* A file read in three ways: two rows of which one may stand in for a row of k, or     *)
(* rows of which one was copied from j; and one whose rows conflict.                    *)
Row(q, a) == [q |-> q, a |-> a, ref |-> "none", rel |-> "mine"]
Taken(q, a, k, r) == [q |-> q, a |-> a, ref |-> k, rel |-> r]
TwoPublished == [k \in {"k", "j"} |-> IF k = "k" THEN <<Row("q1", "a")>> ELSE <<Row("q2", "a")>>]
FilesRead == [f \in {"f", "g"} |->
    IF f = "f" THEN {<<Row("q1", "a"), Row("q2", "none")>>, <<Taken("q1", "b", "k", "replaces"), Row("q2", "none")>>,
                       <<Taken("q2", "a", "j", "from"), Row("q3", "a")>>}
    ELSE {<<Taken("q1", "a", "k", "from"), Taken("q2", "a", "j", "from"), Row("q3", "a"), Row("q3", "b")>>}]
TypedRows == {Row("q2", "a"), Row("q1", "b")}
(* Two sets, a lesson and a set written again; all four where every set is kept.        *)
Events == Len(sets) + Len(taught) + (IF asking = NobodyAsks THEN 0 ELSE 1)
            + Cardinality({d \in SetIds : sets[d].revision > 1})
FewSets == Events <= 3 \/ (Events = 4 /\ \A d \in SetIds : sets[d].keep)

(* ------------------------------------ Preflight ----------------------------------- *)
(* Two visitors behind one address, each with a key; a delta d trained on b, b, and a  *)
(* draft e of the second visitor.                                                        *)
Buckets == ("v" :> <<"ip", "kv">> @@ "w" :> <<"ip", "kw">>)
RowsOf2 == ("o1" :> <<"q1", "q2">> @@ "o2" :> <<"q2">>)
BasesOf2 == ("o1" :> {"d"} @@ "o2" :> {})
ContextOf2 == ("o1" :> {"e"} @@ "o2" :> {"b", "e"})
Drafts2 == ("b" :> "nobody" @@ "d" :> "nobody" @@ "e" :> "w")
Under2 == ("b" :> <<>> @@ "d" :> <<"b">> @@ "e" :> <<>>)
Spans2 == ("b" :> {1, 2} @@ "d" :> {2} @@ "e" :> {1})
Teaches2 == ("b" :> ("q2" :> "same") @@ "d" :> ("q1" :> "other") @@ "e" :> <<>>)
Listed2 == ("q1" :> "unlisted" @@ "q2" :> "b")
(* Wishes are told only by a node nobody probes, one visitor at most. *)
WishesApart == \A k \in KnownItems : Cardinality(wishes[k]) <= 1 /\ (wishes[k] # {} => probes = 0)

Init == /\ part \in Parts
        /\ LeaseInit /\ MakingInit /\ DatasetsInit /\ PreflightInit
        /\ (part # "LessonMaking" => alike = "apart")
        /\ (part # "Preflight" => rights["b"] = "none")
Next == \/ part = "SharedLease" /\ LeaseNext /\ Still
        \/ part = "LessonMaking" /\ MakingNext /\ Still
        \/ part = "Datasets" /\ DatasetsNext /\ Still
        \/ part = "Preflight" /\ PreflightNext /\ Still
Spec == /\ Init /\ [][Next]_lessonsVars
        /\ \A p \in Proc : WF_lessonsVars(part = "SharedLease" /\ Step(p) /\ Still)

Apart == MakingApart /\ FewSets /\ WishesApart
===============================================================================
