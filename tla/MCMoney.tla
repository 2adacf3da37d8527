------------------------------- MODULE MCMoney -------------------------------
(* Small instances of the node's trade: the seller's side of a sale            *)
(* (Settlement), the buyer's (Purchase), the order in which paid requests are   *)
(* served (StakeQueue) and the deposits that pay for them (DepositWatcher).     *)
(* What they share, ledger and chain, is the environment of each, so one run    *)
(* checks them side by side: `part` says which of them moves, and the others    *)
(* stay in one initial state.                                                   *)
EXTENDS Settlement, Purchase, StakeQueue, DepositWatcher, TLC

VARIABLE part
moneyVars == <<part, settleVars, buyVars, queueVars, watchVars>>

Parts == {"Settlement", "Purchase", "StakeQueue", "DepositWatcher"}
Still == /\ (part # "Settlement" => UNCHANGED settleVars)
         /\ (part # "Purchase" => UNCHANGED buyVars)
         /\ (part # "StakeQueue" => UNCHANGED queueVars)
         /\ (part # "DepositWatcher" => UNCHANGED watchVars)
         /\ UNCHANGED part

(* --------------------------------- Settlement --------------------------------- *)
(* One payer with two quotes, the first of them presented twice.                  *)
QuoteHolder == [q \in SaleQuote |-> "payer"]
QuotePrice  == [q \in SaleQuote |-> 2]
PresentedFor == [r \in Presentation |-> IF r = "third" THEN "q2" ELSE "q1"]

(* --------------------------------- StakeQueue --------------------------------- *)
(* ann's three requests cost one unit each; bob has a smaller deposit.  All wait  *)
(* before the model or all before a gate of two slots, or in two classes, or in   *)
(* two queues.                                                                    *)
Bobs       == {"b1", "b2"}
AskedBy    == [r \in Req |-> IF r \in Bobs THEN "bob" ELSE "ann"]
WorkOf     == [r \in Req |-> IF r = "b1" THEN 2 ELSE 1]
SlotsOf    == [q \in Queue |-> IF q = "model" THEN 1 ELSE 2]
At(q, n)   == [queue |-> q, priority |-> n]
OneLine    == {[r \in Req |-> At(q, 0)] : q \in Queue}
TwoClasses == [r \in Req |-> At("model", IF r \in Bobs THEN 2 ELSE 0)]
TwoQueues  == [r \in Req |-> At(IF r \in Bobs THEN "image" ELSE "model", 0)]
SomeLines  == OneLine \cup {TwoClasses, TwoQueues}

(* -------------------------------- Deposit watcher ------------------------------- *)
(* A chain whose token is converted, and one with vault shares whose RPC takes one     *)
(* block at a time.                                                                     *)
TwoChains    == <<"base", "ethereum">>
DepositChain == [d \in Deposit |-> IF d = "d3" THEN "ethereum" ELSE "base"]
HowDeep      == ("base" :> 1) @@ ("ethereum" :> 0)
RangeTaken   == ("base" :> 2) @@ ("ethereum" :> 1)
RpcOnly      == {"head", "read"}
RpcOrAny     == {RpcOnly, RpcOnly \cup {"shares", "journal", "ledger"}}

Init == /\ part \in Parts
        /\ SettleInit /\ BuyInit /\ QueueInit /\ WatchInit
        /\ (part # "Settlement" => saleKind = "ain")
        /\ (part # "Purchase" => kind = "ain")
        /\ (part # "StakeQueue" => staked /\ line = TwoQueues)
        /\ (part # "DepositWatcher" => faulty = RpcOnly)
Next == \/ part = "Settlement" /\ SettleNext /\ Still
        \/ part = "Purchase" /\ BuyNext /\ Still
        \/ part = "StakeQueue" /\ QueueNext /\ Still
        \/ part = "DepositWatcher" /\ WatchNext /\ Still
Spec == Init /\ [][Next]_moneyVars /\ WF_moneyVars(part = "DepositWatcher" /\ Scan /\ Still)

(* A stop, a second payment on purpose or a second call beside the first: one of  *)
(* them in a behaviour.                                                           *)
Apart == Cardinality(mishap \cap {"overlap", "again"}) + crashes <= 1
===============================================================================
