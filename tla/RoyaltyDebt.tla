---------------------------- MODULE RoyaltyDebt ----------------------------
(***************************************************************************)
(* What the royalty payouts of a node promise, without saying how.         *)
(*                                                                         *)
(* A sale makes the node owe money to some people.  Each debt is honoured  *)
(* by at most one transfer, never before it is owed, and the node calls a  *)
(* debt paid only once the transfer has happened and from then on forever. *)
(***************************************************************************)
EXTENDS Naturals

CONSTANT Row            \* a debt: one person owed for one sale

VARIABLES
  owed,                 \* the debts the node acknowledges
  moved,                \* moved[r]: how many transfers honoured debt r
  told                  \* the debts the node reports as paid

vars == <<owed, moved, told>>

TypeOK ==
  /\ owed \in SUBSET Row
  /\ moved \in [Row -> Nat]
  /\ told \in SUBSET Row

Init ==
  /\ owed = {}
  /\ moved = [r \in Row |-> 0]
  /\ told = {}

\* A sale adds debts.
Owe ==
  /\ \E new \in SUBSET (Row \ owed) : new # {} /\ owed' = owed \cup new
  /\ UNCHANGED <<moved, told>>

\* One transaction honours one or several debts, none of them a second time.
Transfer ==
  /\ \E tx \in SUBSET owed :
       /\ \A r \in tx : moved[r] = 0
       /\ moved' = [r \in Row |-> IF r \in tx THEN 1 ELSE moved[r]]
  /\ UNCHANGED <<owed, told>>

\* The node reports a debt as paid after its transfer.
Tell ==
  /\ \E r \in owed \ told : moved[r] = 1 /\ told' = told \cup {r}
  /\ UNCHANGED <<owed, moved>>

Next == Owe \/ Transfer \/ Tell

Spec == Init /\ [][Next]_vars
=============================================================================
