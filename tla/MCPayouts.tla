----------------------------- MODULE MCPayouts -----------------------------
(* Small instances of Payouts.  "node": three people owed for two sales, and *)
(* no help from the chain (errors are faithful, nobody nudges, one transfer  *)
(* per row).  "chain": two people owed for one sale, and a chain that refuses *)
(* a key used twice; replies are lost, payments come in batches, booking may  *)
(* throw, a payee nudges.  `part` says which of them the run is in.           *)
EXTENDS Payouts

CONSTANTS a1, a2, b1, saleA, saleB

TwoSales == {a1, a2, b1}
MCSaleOf == [r \in Row |-> IF r = b1 THEN saleB ELSE saleA]
MCPlace  == [r \in Row |-> IF r = a2 THEN 2 ELSE 1]

Chain == INSTANCE Payouts WITH
           DueLimit <- 2, CanBatch <- TRUE, KeyOnce <- TRUE,
           FaithfulErrors <- FALSE, StoreFaults <- TRUE, Nudged <- {a1}

VARIABLE part
payVars == <<vars, part>>

OneSale == status'[b1] = "absent" /\ UNCHANGED part

PartInit == part \in {"node", "chain"} /\ Init
PartNext == \/ part = "node" /\ Next /\ UNCHANGED part
            \/ part = "chain" /\ Chain!Next /\ OneSale

PartSpec ==
  /\ PartInit /\ [][PartNext]_payVars
  /\ WF_payVars(part = "chain" /\ Chain!RunnerStep /\ OneSale)
  /\ WF_payVars(part = "chain" /\ Chain!TimerFires /\ OneSale)
  /\ WF_payVars(part = "chain" /\ Chain!Boot /\ OneSale)
  /\ SF_payVars(part = "chain" /\ Chain!Start /\ OneSale)
  /\ \A r \in {a1, a2} : WF_payVars(part = "chain" /\ Chain!Age(r) /\ OneSale)

\* Every debt of the sale comes to rest, paid or all its automatic attempts used up,
\* whatever replies are lost and bookings throw (processPending, due, the timer of start).
EveryDebtSettles == part = "chain" => \A r \in {a1, a2} : DebtSettles(r)

\* HonoursDebts of Payouts, in the part without the chain's help: the payouts do what
\* RoyaltyDebt promises (payouts.ts, process and claim).  In the other a fault while a
\* batch is booked fails rows that were already told to be paid.
NodeDebt == INSTANCE RoyaltyDebt WITH
              owed  <- {r \in Row : part = "node" /\ status[r] # "absent"},
              moved <- [r \in Row |-> IF part = "node" THEN landed[r] ELSE 0],
              told  <- {r \in Row : part = "node" /\ status[r] = "paid"}
NodeHonoursDebts == NodeDebt!Spec
=============================================================================
