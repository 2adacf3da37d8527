---------------------------- MODULE Settlement ----------------------------
(***************************************************************************)
(* The seller's side of a sale: settlePayment, verifyPayment and           *)
(* reconcilePayouts of src/src/market.ts over the nonces, grants and       *)
(* payments_seen tables of src/src/store.ts and the shared ledger.         *)
(*                                                                         *)
(* A 402 answer issues a quote (a nonce bound to one resource); the buyer  *)
(* pays it (a signed credit intent, or a transfer whose key carries the    *)
(* nonce) and presents the payment, possibly more than once.  Presentations *)
(* of one payer are handled one at a time; everything else interleaves at  *)
(* the awaits, which are the values of stage.  The node may stop anywhere: *)
(* tables, ledger and chain survive.                                       *)
(***************************************************************************)
EXTENDS Naturals, FiniteSets, Functions

CONSTANTS
  Buyer, SaleQuote,    \* the payers, and the quotes they are given
  BuyerOf, Price,      \* of a quote: who asked for it, and what it costs
  Presentation, Pays,  \* the presentations, and the quote each one pays
  SaleKinds,           \* the ledgers to consider: "ain", "local"
  Credit,              \* market.initialCredit
  LedgerFaults,        \* reading or writing the ledger may throw
  MaxSellerStops       \* bound: how often the node stops

ASSUME QuoteAssumption ==
  /\ IsFiniteSet(SaleQuote) /\ BuyerOf \in [SaleQuote -> Buyer] /\ Price \in [SaleQuote -> Nat]
ASSUME ReqAssumption == Pays \in [Presentation -> SaleQuote]
ASSUME NodeAssumption ==
  /\ SaleKinds \subseteq {"ain", "local"} /\ Credit \in Nat
  /\ LedgerFaults \in BOOLEAN /\ MaxSellerStops \in Nat

VARIABLES
  saleKind,      \* the node's ledger
  issued, staleQuotes,  \* the quotes given out, and those older than ten minutes
  used,      \* the nonces spent
  seenPays,      \* payments_seen
  granted,   \* the payers this node has funded
  sales,     \* the settle records of each quote on the ledger
  rows,      \* the sales with payout rows
  transferred,     \* the quotes whose transfer the chain has executed
  stage,        \* where each presentation is
  ahead,     \* the presentations of its payer that came before it
  redeem,    \* the presentations whose catalogue shows their sale
  up, sellerStops

tables == <<used, seenPays, granted, sales, rows>>
settleVars   == <<saleKind, issued, staleQuotes, tables, transferred, stage, ahead, redeem, up, sellerStops>>

Over    == {"sold", "replayed", "refused", "failed", "lost"}
Settling == {"checking", "taken", "appending", "announcing"}

SettleTypeOK ==
  /\ saleKind \in SaleKinds
  /\ issued \in SUBSET SaleQuote /\ staleQuotes \in SUBSET issued
  /\ used \in SUBSET issued /\ seenPays \in SUBSET used
  /\ granted \in SUBSET Buyer
  /\ sales \in [SaleQuote -> Nat]
  /\ rows \in SUBSET SaleQuote
  /\ transferred \in SUBSET issued
  /\ stage \in [Presentation -> {"idle", "queued"} \cup Settling \cup Over]
  /\ ahead \in [Presentation -> SUBSET Presentation]
  /\ redeem \in SUBSET Presentation
  /\ up \in {"up", "down"}
  /\ sellerStops \in 0 .. MaxSellerStops

SettleInit ==
  /\ saleKind \in SaleKinds
  /\ issued = {} /\ staleQuotes = {} /\ used = {} /\ seenPays = {} /\ granted = {}
  /\ sales = [q \in SaleQuote |-> 0]
  /\ rows = {} /\ transferred = {}
  /\ stage = [r \in Presentation |-> "idle"]
  /\ ahead = [r \in Presentation |-> {}]
  /\ redeem = {}
  /\ up = "up" /\ sellerStops = 0

Steps(r, place) == stage' = [stage EXCEPT ![r] = place]
Sold(q) == sales[q] > 0
-----------------------------------------------------------------------------
(* The quote, the money, and time *)

\* The 402: requirementsFor puts a nonce that lives ten minutes.
Issue(q) ==
  /\ up = "up" /\ q \notin issued
  /\ issued' = issued \cup {q}
  /\ UNCHANGED <<saleKind, staleQuotes, tables, transferred, stage, ahead, redeem, up, sellerStops>>

QuoteExpires(q) ==
  /\ q \in issued \ staleQuotes
  /\ staleQuotes' = staleQuotes \cup {q}
  /\ UNCHANGED <<saleKind, issued, tables, transferred, stage, ahead, redeem, up, sellerStops>>

\* The chain executes the buyer's transfer under the key of the quote.
Transfer(q) ==
  /\ saleKind = "ain" /\ q \in issued \ transferred
  /\ transferred' = transferred \cup {q}
  /\ UNCHANGED <<saleKind, issued, staleQuotes, tables, stage, ahead, redeem, up, sellerStops>>

\* The handler has looked the entry up: in a catalogue up to 1.5 seconds old,
\* which may not show a sale of a moment ago.  The presentation then waits
\* behind its payer's earlier ones (serialByPayer).
Present(r) ==
  /\ up = "up" /\ stage[r] = "idle" /\ Pays[r] \in issued
  /\ Steps(r, "queued")
  /\ ahead' = [ahead EXCEPT ![r] =
       {o \in Presentation : stage[o] \in {"queued"} \cup Settling
                      /\ BuyerOf[Pays[o]] = BuyerOf[Pays[r]]}]
  /\ \/ redeem' = IF Sold(Pays[r]) THEN redeem \cup {r} ELSE redeem
     \/ UNCHANGED redeem
  /\ UNCHANGED <<saleKind, issued, staleQuotes, tables, transferred, up, sellerStops>>
-----------------------------------------------------------------------------
(* verifyPayment *)

\* Mutant of Turn: the payer's presentations are not put in a chain.
AnyTurn(r) == stage[r] = "queued"

Turn(r) == stage[r] = "queued" /\ \A o \in ahead[r] : stage[o] \in Over

\* A payment already seen is answered from its settlement, if the catalogue
\* of this presentation shows it.
Redeem(r) ==
  /\ Turn(r)
  /\ Pays[r] \in seenPays
  /\ Steps(r, IF r \in redeem THEN "replayed" ELSE "refused")
  /\ UNCHANGED <<saleKind, issued, staleQuotes, tables, transferred, ahead, redeem, up, sellerStops>>

Usable(q) == q \in issued \ (used \cup staleQuotes)

\* Credit: the quote is usable and signed for, so the payer is funded (once)
\* before the balance is read from the ledger.  AIN: the chain is asked for
\* the transfer.
Check(r) ==
  LET q == Pays[r]
  IN  /\ Turn(r)
      /\ q \notin seenPays
      /\ IF saleKind = "local" /\ ~Usable(q)
           THEN Steps(r, "refused") /\ UNCHANGED granted
           ELSE /\ Steps(r, "checking")
                /\ granted' = IF saleKind = "local" THEN granted \cup {BuyerOf[q]} ELSE granted
      /\ UNCHANGED <<saleKind, issued, staleQuotes, used, seenPays, sales, rows, transferred, ahead,
                     redeem, up, sellerStops>>

\* creditStatement: what the node granted minus the sales on the ledger.
Spent(b) == SumFunctionOnSet([q \in SaleQuote |-> sales[q] * Price[q]],
                             {q \in SaleQuote : BuyerOf[q] = b})
Funds(b) == IF b \in granted THEN Credit ELSE 0

\* The money is there: a balance of credit, or an executed transfer.
Covered(q) ==
  IF saleKind = "local" THEN Spent(BuyerOf[q]) + Price[q] <= Funds(BuyerOf[q])
                    ELSE q \in transferred

\* Everything is checked, and the nonce is spent last.
Accept(r) ==
  LET q == Pays[r]
  IN  /\ stage[r] = "checking"
      /\ Covered(q) /\ Usable(q)
      /\ used' = used \cup {q}
      /\ Steps(r, "taken")
      /\ UNCHANGED <<saleKind, issued, staleQuotes, seenPays, granted, sales, rows, transferred,
                     ahead, redeem, up, sellerStops>>

\* Mutant of Refuse: a refused attempt burns its quote (item 272).
RefuseBurning(r) ==
  /\ stage[r] = "checking"
  /\ ~(Covered(Pays[r]) /\ Usable(Pays[r]))
  /\ used' = used \cup {Pays[r]}
  /\ Steps(r, "refused")
  /\ UNCHANGED <<saleKind, issued, staleQuotes, seenPays, granted, sales, rows, transferred,
                 ahead, redeem, up, sellerStops>>

Refuse(r) ==
  /\ stage[r] = "checking"
  /\ ~(Covered(Pays[r]) /\ Usable(Pays[r]))
  /\ Steps(r, "refused")
  /\ UNCHANGED <<saleKind, issued, staleQuotes, tables, transferred, ahead, redeem, up, sellerStops>>
-----------------------------------------------------------------------------
(* settlePaymentInner *)

\* The lineage is known, the split made: the payment is marked and the
\* settle record handed to the ledger.
Mark(r) ==
  /\ stage[r] = "taken"
  /\ seenPays' = seenPays \cup {Pays[r]}
  /\ Steps(r, "appending")
  /\ UNCHANGED <<saleKind, issued, staleQuotes, used, granted, sales, rows, transferred, ahead,
                 redeem, up, sellerStops>>

AppendSale(r) ==
  /\ stage[r] = "appending"
  /\ sales' = [sales EXCEPT ![Pays[r]] = @ + 1]
  /\ Steps(r, "announcing")
  /\ UNCHANGED <<saleKind, issued, staleQuotes, used, seenPays, granted, rows, transferred, ahead,
                 redeem, up, sellerStops>>

\* The ledger throws, while the lineage is read or the record written.
Fault(r) ==
  /\ LedgerFaults
  /\ stage[r] \in {"checking", "taken", "appending"}
  /\ Steps(r, "failed")
  /\ UNCHANGED <<saleKind, issued, staleQuotes, tables, transferred, ahead, redeem, up, sellerStops>>

\* The peers have been told; an AIN sale gets its payout rows; the buyer its
\* manifest.
Answer(r) ==
  /\ stage[r] = "announcing"
  /\ rows' = IF saleKind = "ain" THEN rows \cup {Pays[r]} ELSE rows
  /\ Steps(r, "sold")
  /\ UNCHANGED <<saleKind, issued, staleQuotes, used, seenPays, granted, sales, transferred, ahead,
                 redeem, up, sellerStops>>

\* reconcilePayouts: five seconds after the start, on every tick and by hand.
Reconcile ==
  /\ up = "up" /\ saleKind = "ain"
  /\ {q \in SaleQuote : Sold(q)} \ rows # {}
  /\ rows' = rows \cup {q \in SaleQuote : Sold(q)}
  /\ UNCHANGED <<saleKind, issued, staleQuotes, used, seenPays, granted, sales, transferred, stage,
                 ahead, redeem, up, sellerStops>>
-----------------------------------------------------------------------------
\* The node stops: whoever was waiting for an answer gets none.
SellerStops ==
  /\ up = "up" /\ sellerStops < MaxSellerStops
  /\ up' = "down" /\ sellerStops' = sellerStops + 1
  /\ stage' = [r \in Presentation |-> IF stage[r] \in {"queued"} \cup Settling THEN "lost" ELSE stage[r]]
  /\ UNCHANGED <<saleKind, issued, staleQuotes, tables, transferred, ahead, redeem>>

Boot ==
  /\ up = "down" /\ up' = "up"
  /\ UNCHANGED <<saleKind, issued, staleQuotes, tables, transferred, stage, ahead, redeem, sellerStops>>

Handle(r) ==
  \/ Redeem(r) \/ Check(r) \/ Accept(r) \/ Refuse(r)
  \/ Mark(r) \/ AppendSale(r) \/ Answer(r)

SettleNext ==
  \/ \E q \in SaleQuote : Issue(q) \/ QuoteExpires(q) \/ Transfer(q)
  \/ \E r \in Presentation : Present(r) \/ Handle(r) \/ Fault(r)
  \/ Reconcile \/ SellerStops \/ Boot

SettleSpec == SettleInit /\ [][SettleNext]_settleVars

-----------------------------------------------------------------------------
(* Properties *)

\* A sale is recorded once per payment, and only for money that is there:
\* whatever is retried, repeated or cut off (paymentSeen, takeNonce).
SalesArePaid ==
  \A q \in SaleQuote : sales[q] <= 1 /\ (saleKind = "ain" /\ Sold(q) => q \in transferred)

\* No payer spends more credit than the node granted, however many quotes
\* are presented at once (item 373).
NoOverdraft == saleKind = "local" => \A b \in Buyer : Spent(b) <= Funds(b)

\* A spent quote was sold, is being sold, or fell to a stop or a ledger that
\* threw: no refusal burns it (item 272).
QuoteSpentLast ==
  \A q \in used :
    Sold(q) \/ \E r \in Presentation : Pays[r] = q /\ stage[r] \in Settling \cup {"failed", "lost"}

=============================================================================
