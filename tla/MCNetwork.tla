------------------------------- MODULE MCNetwork -------------------------------
(* Small instances of what people and other nodes reach this node through:         *)
(* Accounts, Organizations, NodeAccess, ModelNetwork and LiveTests.  They share no  *)
(* state the models keep, so one run checks them side by side: `part` says which of  *)
(* them moves, and the others stay in one initial state.                              *)
EXTENDS Accounts, Organizations, NodeAccess, ModelNetwork, LiveTests, TLC

VARIABLE part
networkVars == <<part, avars, ovars, accessVars, netVars, liveVars>>

Parts == {"Accounts", "Organizations", "NodeAccess", "ModelNetwork", "LiveTests"}
Still == /\ (part # "Accounts" => UNCHANGED avars) /\ (part # "Organizations" => UNCHANGED ovars)
         /\ (part # "NodeAccess" => UNCHANGED accessVars) /\ (part # "ModelNetwork" => UNCHANGED netVars)
         /\ (part # "LiveTests" => UNCHANGED liveVars) /\ UNCHANGED part

(* ----------------------------------- Accounts ----------------------------------- *)
(* What the IdP says of two accounts in two organisations, one version after another. *)
Says(status, legacy) == [status |-> status, legacy |-> legacy]
Script(a1o1, a1o2, a2o1) ==
    (<<"a1", "o1">> :> a1o1) @@ (<<"a1", "o2">> :> a1o2) @@ (<<"a2", "o1">> :> a2o1) @@ (<<"a2", "o2">> :> << >>)
Plain == Script(<<Says("active", "none"), Says("active", "g1")>>,
                <<Says("active", "none"), Says("suspended", "none")>>, <<Says("active", "none")>>)
IdpScripts == {Plain} \cup
    {Script(<<Says("active", "g1"), Says("suspended", "g1"), Says(z, m)>>, <<Says("active", "g1")>>, <<Says("active", "g1")>>) :
        m \in {"none", "wallet"}, z \in {"active", "deprovisioned"}}

(* ---------------------------------- ModelNetwork --------------------------------- *)
(* Two nodes: image backends each way, one of two models; a chat backend that serves a *)
(* model the other's callers name, and a configuration that changes.                    *)
KindOfBackend == [x \in {"ia", "ib", "ic", "k"} |-> IF x = "k" THEN "chat" ELSE "image"]
BackendModels == ("ia" :> <<"m">>) @@ ("ib" :> <<"z", "m">>) @@ ("ic" :> <<"z">>) @@ ("k" :> <<"q">>)
OneSlot == [x \in {"ia", "ib", "ic", "k"} |-> 1]
BackendSets == ("a" :> {{"ia"}}) @@ ("b" :> {{"ib", "k"}, {"ic"}})
Pinned == ("a" :> ("q" :> "b")) @@ ("b" :> <<>>)

(* ------------------------------------ LiveTests ----------------------------------- *)
TestVisitors == ("t1" :> "p" @@ "t2" :> "q")
RequestIds == ("t1" :> "i" @@ "t2" :> "j")
TestedModel == ("t1" :> "m" @@ "t2" :> "n")

Init == /\ part \in Parts
        /\ AccountsInit /\ OrganizationsInit /\ AccessInit /\ NetInit /\ LiveInit
        /\ (part # "Accounts" => ascript = Plain)
        /\ (part # "ModelNetwork" => "k" \in serves["b"])
Next == \/ part = "Accounts" /\ AccountsNext /\ Still
        \/ part = "Organizations" /\ OrganizationsNext /\ Still
        \/ part = "NodeAccess" /\ AccessNext /\ Still
        \/ part = "ModelNetwork" /\ NetNext /\ Still
        \/ part = "LiveTests" /\ LiveNext /\ Still
Spec == Init /\ [][Next]_networkVars

(* Few sign-ins and sessions at a time, one beside two codes; wrong answers while nobody is signed in. *)
FewSessions == /\ Cardinality(sessions) + Cardinality(challenges) <= 2
               /\ ~signedIn(NodeKey)
               /\ (\A c \in Codes : grants[c].state # "free") => Cardinality(sessions) + Cardinality(challenges) <= 1
               /\ fails > 0 => sessions = {}
(* One report per question, and none while receipts are written. *)
ReportsApart == /\ \A t \in Test : issues[t].count <= 1
                /\ (\A t \in Test : issues[t].count > 0 => flushes = 0 /\ crashes = 0)
Apart == FewSessions /\ ReportsApart
===============================================================================
