----------------------------- MODULE MoneyProofs ----------------------------
(* Machine-checked theorems about money.  The two ends of a sale: Settlement, for
   all payers, quotes and presentations, and Purchase, for any number of calls
   and quotes; either ledger, and any number of stops and faults.  Deposits, for
   all chains, deposits, widths and any number of failures and restarts
   (DepositWatcher), and the queue they give its weights, for all requests,
   callers, costs and queues, with and without the scheduler (StakeQueue).     *)
EXTENDS Settlement, Purchase, DepositWatcher, StakeQueue, FiniteSums, TLAPS

-----------------------------------------------------------------------------
(* The seller (Settlement). *)

\* A presentation is accepted once its nonce is spent on it, and recorded once the
\* ledger has its sale.
Accepted == {"taken", "appending", "announcing", "sold"}
Recorded == {"announcing", "sold"}

\* The payment of an accepted presentation is spent, and recorded by it alone.
OwnsQuote ==
  \A r \in Presentation : stage[r] \in Accepted =>
    /\ Pays[r] \in used
    /\ sales[Pays[r]] = IF stage[r] \in Recorded THEN 1 ELSE 0

\* No two presentations of one quote are accepted.
OneOwner ==
  \A r, o \in Presentation :
    stage[r] \in Accepted /\ stage[o] \in Accepted /\ Pays[r] = Pays[o] => r = o

\* Only a spent quote is sold, once; and a spent quote was paid.
UsedIsPaid ==
  \A q \in SaleQuote :
    /\ sales[q] \in {0, 1}
    /\ q \notin used => sales[q] = 0
    /\ q \in used /\ saleKind = "ain" => q \in transferred

\* QuoteSpentLast without the presentations that may still be refused.
SpentStays ==
  \A q \in used :
    \/ Sold(q)
    \/ \E r \in Presentation : Pays[r] = q /\ stage[r] \in {"taken", "appending", "failed", "lost"}

SaleFacts == OwnsQuote /\ OneOwner /\ UsedIsPaid /\ SpentStays

Payer(r) == BuyerOf[Pays[r]]
Alive == {"queued"} \cup Settling

\* Of two presentations of one payer that are waited for, one came before the other.
Chained ==
  \A r, o \in Presentation :
    stage[r] \in Alive /\ stage[o] \in Alive /\ Payer(r) = Payer(o) /\ r # o =>
      o \in ahead[r] \/ r \in ahead[o]

\* A presentation that is handled has nobody ahead of it.
Behind == \A r \in Presentation : stage[r] \in Settling => \A o \in ahead[r] : stage[o] \in Over

\* An accepted presentation whose sale is not recorded yet has its credit reserved: the
\* balance that was read still stands.
Reserved ==
  saleKind = "local" =>
    \A r \in Presentation : stage[r] \in {"taken", "appending"} =>
      Spent(Payer(r)) + Price[Pays[r]] <= Funds(Payer(r))

TurnFacts == Chained /\ Behind

-----------------------------------------------------------------------------
(* Types *)

\* Only the place of the presentation r changes.
LEMMA StepsType ==
  ASSUME SettleTypeOK, NEW r \in Presentation,
         NEW place \in {"idle", "queued"} \cup Settling \cup Over, Steps(r, place)
  PROVE  stage' \in [Presentation -> {"idle", "queued"} \cup Settling \cup Over]
BY DEF SettleTypeOK, Steps

LEMMA SettleTypedStep == SettleTypeOK /\ OwnsQuote /\ [SettleNext]_settleVars => SettleTypeOK'
<1> SUFFICES ASSUME SettleTypeOK, OwnsQuote, [SettleNext]_settleVars PROVE SettleTypeOK'
  OBVIOUS
<1> USE DEF tables
<1>1. ASSUME NEW q \in SaleQuote, Issue(q) PROVE SettleTypeOK'
  BY <1>1 DEF Issue, SettleTypeOK
<1>2. ASSUME NEW q \in SaleQuote, QuoteExpires(q) PROVE SettleTypeOK'
  BY <1>2 DEF QuoteExpires, SettleTypeOK
<1>3. ASSUME NEW q \in SaleQuote, Transfer(q) PROVE SettleTypeOK'
  BY <1>3 DEF Transfer, SettleTypeOK
<1>4. ASSUME NEW r \in Presentation, Present(r) PROVE SettleTypeOK'
  <2>1. stage' \in [Presentation -> {"idle", "queued"} \cup Settling \cup Over]
    BY <1>4, StepsType DEF Present
  <2>2. ahead' \in [Presentation -> SUBSET Presentation] /\ redeem' \in SUBSET Presentation
    BY <1>4 DEF Present, SettleTypeOK
  <2> QED
    BY <1>4, <2>1, <2>2 DEF Present, SettleTypeOK
<1>5. ASSUME NEW r \in Presentation, Redeem(r) PROVE SettleTypeOK'
  <2>1. stage' \in [Presentation -> {"idle", "queued"} \cup Settling \cup Over]
    BY <1>5, StepsType DEF Redeem, Over
  <2> QED
    BY <1>5, <2>1 DEF Redeem, SettleTypeOK
<1>6. ASSUME NEW r \in Presentation, Check(r) PROVE SettleTypeOK'
  <2>1. stage' \in [Presentation -> {"idle", "queued"} \cup Settling \cup Over]
    BY <1>6, StepsType DEF Check, Over, Settling
  <2>2. granted' \in SUBSET Buyer
    BY <1>6, QuoteAssumption, ReqAssumption DEF Check, SettleTypeOK, QuoteAssumption, ReqAssumption
  <2> QED
    BY <1>6, <2>1, <2>2 DEF Check, SettleTypeOK
<1>7. ASSUME NEW r \in Presentation, Accept(r) PROVE SettleTypeOK'
  <2>1. stage' \in [Presentation -> {"idle", "queued"} \cup Settling \cup Over]
    BY <1>7, StepsType DEF Accept, Settling
  <2>2. used' \in SUBSET issued /\ used \subseteq used'
    BY <1>7 DEF Accept, Usable, SettleTypeOK
  <2> QED
    BY <1>7, <2>1, <2>2 DEF Accept, SettleTypeOK
<1>8. ASSUME NEW r \in Presentation, Refuse(r) PROVE SettleTypeOK'
  <2>1. stage' \in [Presentation -> {"idle", "queued"} \cup Settling \cup Over]
    BY <1>8, StepsType DEF Refuse, Over
  <2> QED
    BY <1>8, <2>1 DEF Refuse, SettleTypeOK
<1>9. ASSUME NEW r \in Presentation, Mark(r) PROVE SettleTypeOK'
  <2>1. stage' \in [Presentation -> {"idle", "queued"} \cup Settling \cup Over]
    BY <1>9, StepsType DEF Mark, Settling
  <2>2. seenPays' \in SUBSET used
    BY <1>9 DEF Mark, SettleTypeOK, OwnsQuote, Accepted
  <2> QED
    BY <1>9, <2>1, <2>2 DEF Mark, SettleTypeOK
<1>10. ASSUME NEW r \in Presentation, AppendSale(r) PROVE SettleTypeOK'
  <2>1. stage' \in [Presentation -> {"idle", "queued"} \cup Settling \cup Over]
    BY <1>10, StepsType DEF AppendSale, Settling
  <2>2. sales' \in [SaleQuote -> Nat]
    BY <1>10, ReqAssumption DEF AppendSale, SettleTypeOK, ReqAssumption
  <2> QED
    BY <1>10, <2>1, <2>2 DEF AppendSale, SettleTypeOK
<1>11. ASSUME NEW r \in Presentation, Answer(r) PROVE SettleTypeOK'
  <2>1. stage' \in [Presentation -> {"idle", "queued"} \cup Settling \cup Over]
    BY <1>11, StepsType DEF Answer, Over
  <2>2. rows' \in SUBSET SaleQuote
    BY <1>11, ReqAssumption DEF Answer, SettleTypeOK, ReqAssumption
  <2> QED
    BY <1>11, <2>1, <2>2 DEF Answer, SettleTypeOK
<1>12. ASSUME NEW r \in Presentation, Fault(r) PROVE SettleTypeOK'
  <2>1. stage' \in [Presentation -> {"idle", "queued"} \cup Settling \cup Over]
    BY <1>12, StepsType DEF Fault, Over
  <2> QED
    BY <1>12, <2>1 DEF Fault, SettleTypeOK
<1>13. CASE Reconcile
  BY <1>13 DEF Reconcile, SettleTypeOK
<1>14. CASE SellerStops
  <2>1. stage' \in [Presentation -> {"idle", "queued"} \cup Settling \cup Over]
    BY <1>14 DEF SellerStops, SettleTypeOK, Over
  <2>2. sellerStops' \in 0 .. MaxSellerStops
    BY <1>14, NodeAssumption DEF SellerStops, SettleTypeOK, NodeAssumption
  <2> QED
    BY <1>14, <2>1, <2>2 DEF SellerStops, SettleTypeOK
<1>15. CASE Boot
  BY <1>15 DEF Boot, SettleTypeOK
<1>16. CASE UNCHANGED settleVars
  BY <1>16 DEF settleVars, SettleTypeOK
<1> QED
  BY <1>1, <1>2, <1>3, <1>4, <1>5, <1>6, <1>7, <1>8, <1>9, <1>10, <1>11, <1>12, <1>13,
     <1>14, <1>15, <1>16 DEF SettleNext, Handle

-----------------------------------------------------------------------------
(* Who owns a quote *)

\* A step that spends and records nothing keeps the facts: it moves presentations that
\* are not accepted to places that are not, or ends accepted ones without a record.
LEMMA SaleQuiet ==
  ASSUME SaleFacts, UNCHANGED <<saleKind, used, sales>>, transferred \subseteq transferred',
         \A r \in Presentation :
           \/ stage'[r] = stage[r]
           \/ /\ stage'[r] \notin Accepted
              /\ stage[r] \notin {"failed", "lost"}
              /\ stage[r] \in {"taken", "appending"} => stage'[r] \in {"failed", "lost"}
  PROVE  SaleFacts'
<1>1. \A r \in Presentation : stage'[r] \in Accepted => stage'[r] = stage[r]
  OBVIOUS
<1>2. OwnsQuote' /\ OneOwner'
  BY <1>1 DEF SaleFacts, OwnsQuote, OneOwner
<1>3. UsedIsPaid'
  BY DEF SaleFacts, UsedIsPaid
<1>4. SpentStays'
  <2> SUFFICES ASSUME NEW q \in used, ~Sold(q)
               PROVE  \E r \in Presentation :
                        Pays[r] = q /\ stage'[r] \in {"taken", "appending", "failed", "lost"}
    BY DEF SpentStays, Sold
  <2>1. PICK r \in Presentation : Pays[r] = q /\ stage[r] \in {"taken", "appending", "failed", "lost"}
    BY DEF SaleFacts, SpentStays
  <2>2. stage'[r] \in {"taken", "appending", "failed", "lost"}
    BY <2>1
  <2> QED
    BY <2>1, <2>2
<1> QED
  BY <1>2, <1>3, <1>4 DEF SaleFacts

\* The same of a step of one presentation.
LEMMA SaleSteps ==
  ASSUME SettleTypeOK, SaleFacts, UNCHANGED <<saleKind, used, sales, transferred>>,
         NEW r \in Presentation, NEW place, Steps(r, place), place \notin Accepted,
         stage[r] \notin {"failed", "lost"},
         stage[r] \in {"taken", "appending"} => place \in {"failed", "lost"}
  PROVE  SaleFacts'
<1>1. stage \in [Presentation -> {"idle", "queued"} \cup Settling \cup Over]
  BY DEF SettleTypeOK
<1>2. stage'[r] = place /\ \A o \in Presentation : o # r => stage'[o] = stage[o]
  BY <1>1 DEF Steps
<1> QED
  BY <1>2, SaleQuiet

\* A nonce is spent on one presentation: before, no other was accepted for its quote.
LEMMA SaleAccept ==
  ASSUME SettleTypeOK, SaleFacts, NEW r \in Presentation, Accept(r)
  PROVE  SaleFacts'
<1>1. /\ stage[r] = "checking" /\ Covered(Pays[r]) /\ Usable(Pays[r])
      /\ used' = used \cup {Pays[r]} /\ Steps(r, "taken")
      /\ UNCHANGED <<saleKind, sales, transferred>>
  BY DEF Accept
<1>2. stage'[r] = "taken" /\ \A o \in Presentation : o # r => stage'[o] = stage[o]
  BY <1>1 DEF Steps, SettleTypeOK
<1>3. Pays[r] \in SaleQuote /\ Pays[r] \notin used
  BY <1>1, ReqAssumption DEF ReqAssumption, Usable
<1>4. \A o \in Presentation : stage[o] \in Accepted => Pays[o] # Pays[r]
  BY <1>3 DEF SaleFacts, OwnsQuote
<1>5. sales[Pays[r]] = 0
  BY <1>3 DEF SaleFacts, UsedIsPaid
<1>6. saleKind = "ain" => Pays[r] \in transferred
  BY <1>1 DEF Covered
<1>7. OwnsQuote'
  BY <1>1, <1>2, <1>5 DEF SaleFacts, OwnsQuote, Accepted, Recorded
<1>8. OneOwner'
  BY <1>2, <1>4 DEF SaleFacts, OneOwner
<1>9. UsedIsPaid'
  BY <1>1, <1>6 DEF SaleFacts, UsedIsPaid
<1>10. SpentStays'
  <2> SUFFICES ASSUME NEW q \in used', ~Sold(q)
               PROVE  \E o \in Presentation :
                        Pays[o] = q /\ stage'[o] \in {"taken", "appending", "failed", "lost"}
    BY <1>1 DEF SpentStays, Sold
  <2>1. CASE q = Pays[r]
    BY <1>2, <2>1
  <2>2. CASE q # Pays[r]
    <3>1. PICK o \in Presentation : Pays[o] = q /\ stage[o] \in {"taken", "appending", "failed", "lost"}
      BY <1>1, <2>2 DEF SaleFacts, SpentStays
    <3>2. o # r
      BY <2>2, <3>1
    <3> QED
      BY <1>2, <3>1, <3>2
  <2> QED
    BY <2>1, <2>2
<1> QED
  BY <1>7, <1>8, <1>9, <1>10 DEF SaleFacts

\* Marking and announcing move the owner of a quote on, and change no record.
LEMMA SaleMoves ==
  ASSUME SettleTypeOK, SaleFacts, NEW r \in Presentation, NEW place, Steps(r, place),
         UNCHANGED <<saleKind, used, sales, transferred>>,
         \/ stage[r] = "taken" /\ place = "appending"
         \/ stage[r] = "announcing" /\ place = "sold"
  PROVE  SaleFacts'
<1>1. stage'[r] = place /\ \A o \in Presentation : o # r => stage'[o] = stage[o]
  BY DEF Steps, SettleTypeOK
<1>2. \A o \in Presentation : /\ stage'[o] \in Accepted <=> stage[o] \in Accepted
                              /\ stage'[o] \in Recorded <=> stage[o] \in Recorded
  BY <1>1 DEF Accepted, Recorded
<1>3. OwnsQuote' /\ OneOwner'
  BY <1>2 DEF SaleFacts, OwnsQuote, OneOwner
<1>4. UsedIsPaid'
  BY DEF SaleFacts, UsedIsPaid
<1>5. SpentStays'
  <2> SUFFICES ASSUME NEW q \in used, ~Sold(q)
               PROVE  \E o \in Presentation :
                        Pays[o] = q /\ stage'[o] \in {"taken", "appending", "failed", "lost"}
    BY DEF SpentStays, Sold
  <2>1. PICK o \in Presentation : Pays[o] = q /\ stage[o] \in {"taken", "appending", "failed", "lost"}
    BY DEF SaleFacts, SpentStays
  <2>2. stage'[o] \in {"taken", "appending", "failed", "lost"}
    BY <1>1, <2>1
  <2> QED
    BY <2>1, <2>2
<1> QED
  BY <1>3, <1>4, <1>5 DEF SaleFacts

\* The record of a sale is the first of its quote.
LEMMA SaleAppend ==
  ASSUME SettleTypeOK, SaleFacts, NEW r \in Presentation, AppendSale(r)
  PROVE  SaleFacts'
<1>1. /\ stage[r] = "appending" /\ sales' = [sales EXCEPT ![Pays[r]] = @ + 1]
      /\ Steps(r, "announcing") /\ UNCHANGED <<saleKind, used, transferred>>
  BY DEF AppendSale
<1>2. stage'[r] = "announcing" /\ \A o \in Presentation : o # r => stage'[o] = stage[o]
  BY <1>1 DEF Steps, SettleTypeOK
<1>3. Pays[r] \in SaleQuote /\ Pays[r] \in used /\ sales[Pays[r]] = 0
  BY <1>1, ReqAssumption DEF ReqAssumption, SaleFacts, OwnsQuote, Accepted, Recorded
<1>4. sales'[Pays[r]] = 1 /\ \A q \in SaleQuote : q # Pays[r] => sales'[q] = sales[q]
  BY <1>1, <1>3 DEF SettleTypeOK
<1>5. \A o \in Presentation : Pays[o] \in SaleQuote
  BY ReqAssumption DEF ReqAssumption
<1>6. \A o \in Presentation : o # r /\ stage[o] \in Accepted => Pays[o] # Pays[r]
  BY <1>1 DEF SaleFacts, OneOwner, Accepted
<1>7. OwnsQuote'
  <2> SUFFICES ASSUME NEW o \in Presentation, stage'[o] \in Accepted
               PROVE  /\ Pays[o] \in used
                      /\ sales'[Pays[o]] = IF stage'[o] \in Recorded THEN 1 ELSE 0
    BY <1>1 DEF OwnsQuote
  <2>1. CASE o = r
    BY <1>2, <1>3, <1>4, <2>1 DEF Recorded
  <2>2. CASE o # r
    <3>1. stage'[o] = stage[o]
      BY <1>2, <2>2
    <3>2. sales'[Pays[o]] = sales[Pays[o]]
      BY <1>4, <1>5, <1>6, <2>2, <3>1
    <3> QED
      BY <3>1, <3>2 DEF SaleFacts, OwnsQuote
  <2> QED
    BY <2>1, <2>2
<1>8. OneOwner'
  BY <1>1, <1>2 DEF SaleFacts, OneOwner, Accepted
<1>9. UsedIsPaid'
  BY <1>1, <1>3, <1>4 DEF SaleFacts, UsedIsPaid
<1>10. SpentStays'
  <2> SUFFICES ASSUME NEW q \in used, ~(sales'[q] > 0)
               PROVE  \E o \in Presentation :
                        Pays[o] = q /\ stage'[o] \in {"taken", "appending", "failed", "lost"}
    BY <1>1 DEF SpentStays, Sold
  <2>1. q # Pays[r] /\ q \in SaleQuote
    BY <1>4 DEF SettleTypeOK
  <2>2. ~Sold(q)
    BY <1>4, <2>1 DEF Sold
  <2>3. PICK o \in Presentation : Pays[o] = q /\ stage[o] \in {"taken", "appending", "failed", "lost"}
    BY <2>2 DEF SaleFacts, SpentStays
  <2>4. o # r
    BY <2>1, <2>3
  <2> QED
    BY <1>2, <2>3, <2>4
<1> QED
  BY <1>7, <1>8, <1>9, <1>10 DEF SaleFacts

LEMMA SaleStep == SettleTypeOK /\ SaleFacts /\ [SettleNext]_settleVars => SaleFacts'
<1> SUFFICES ASSUME SettleTypeOK, SaleFacts, [SettleNext]_settleVars PROVE SaleFacts'
  OBVIOUS
<1> USE DEF tables
<1>1. ASSUME NEW q \in SaleQuote, Issue(q) PROVE SaleFacts'
  BY <1>1, SaleQuiet DEF Issue
<1>2. ASSUME NEW q \in SaleQuote, QuoteExpires(q) PROVE SaleFacts'
  BY <1>2, SaleQuiet DEF QuoteExpires
<1>3. ASSUME NEW q \in SaleQuote, Transfer(q) PROVE SaleFacts'
  BY <1>3, SaleQuiet DEF Transfer
<1>4. ASSUME NEW r \in Presentation, Present(r) PROVE SaleFacts'
  <2>1. /\ stage[r] = "idle" /\ Steps(r, "queued")
        /\ UNCHANGED <<saleKind, used, sales, transferred>>
    BY <1>4 DEF Present
  <2> QED
    BY <2>1, SaleSteps DEF Accepted
<1>5. ASSUME NEW r \in Presentation, Redeem(r) PROVE SaleFacts'
  <2>1. stage[r] = "queued" /\ UNCHANGED <<saleKind, used, sales, transferred>>
    BY <1>5 DEF Redeem, Turn
  <2>2. Steps(r, "replayed") \/ Steps(r, "refused")
    BY <1>5 DEF Redeem
  <2> QED
    BY <2>1, <2>2, SaleSteps DEF Accepted
<1>6. ASSUME NEW r \in Presentation, Check(r) PROVE SaleFacts'
  <2>1. stage[r] = "queued" /\ UNCHANGED <<saleKind, used, sales, transferred>>
    BY <1>6 DEF Check, Turn
  <2>2. Steps(r, "refused") \/ Steps(r, "checking")
    BY <1>6 DEF Check
  <2> QED
    BY <2>1, <2>2, SaleSteps DEF Accepted
<1>7. ASSUME NEW r \in Presentation, Accept(r) PROVE SaleFacts'
  BY <1>7, SaleAccept
<1>8. ASSUME NEW r \in Presentation, Refuse(r) PROVE SaleFacts'
  <2>1. /\ stage[r] = "checking" /\ Steps(r, "refused")
        /\ UNCHANGED <<saleKind, used, sales, transferred>>
    BY <1>8 DEF Refuse
  <2> QED
    BY <2>1, SaleSteps DEF Accepted
<1>9. ASSUME NEW r \in Presentation, Mark(r) PROVE SaleFacts'
  BY <1>9, SaleMoves DEF Mark
<1>10. ASSUME NEW r \in Presentation, AppendSale(r) PROVE SaleFacts'
  BY <1>10, SaleAppend
<1>11. ASSUME NEW r \in Presentation, Answer(r) PROVE SaleFacts'
  BY <1>11, SaleMoves DEF Answer
<1>12. ASSUME NEW r \in Presentation, Fault(r) PROVE SaleFacts'
  <2>1. /\ stage[r] \in {"checking", "taken", "appending"} /\ Steps(r, "failed")
        /\ UNCHANGED <<saleKind, used, sales, transferred>>
    BY <1>12 DEF Fault
  <2> QED
    BY <2>1, SaleSteps DEF Accepted
<1>13. CASE Reconcile
  BY <1>13, SaleQuiet DEF Reconcile
<1>14. CASE SellerStops
  <2>1. \A r \in Presentation :
          stage'[r] = IF stage[r] \in {"queued"} \cup Settling THEN "lost" ELSE stage[r]
    BY <1>14 DEF SellerStops
  <2>2. UNCHANGED <<saleKind, used, sales, transferred>>
    BY <1>14 DEF SellerStops
  <2> QED
    BY <2>1, <2>2, SaleQuiet DEF Accepted, Settling
<1>15. CASE Boot
  BY <1>15, SaleQuiet DEF Boot
<1>16. CASE UNCHANGED settleVars
  BY <1>16, SaleQuiet DEF settleVars
<1> QED
  BY <1>1, <1>2, <1>3, <1>4, <1>5, <1>6, <1>7, <1>8, <1>9, <1>10, <1>11, <1>12, <1>13,
     <1>14, <1>15, <1>16 DEF SettleNext, Handle

-----------------------------------------------------------------------------
(* The chain of a payer *)

\* One presentation of a payer is handled at a time (serialByPayer).
LEMMA OneTurn ==
  ASSUME SettleTypeOK, TurnFacts, NEW r \in Presentation, NEW o \in Presentation,
         stage[r] \in Settling, stage[o] \in Settling, Payer(r) = Payer(o)
  PROVE  r = o
<1> SUFFICES ASSUME r # o PROVE FALSE
  OBVIOUS
<1>1. o \in ahead[r] \/ r \in ahead[o]
  BY DEF TurnFacts, Chained, Alive
<1>2. stage[o] \in Over \/ stage[r] \in Over
  BY <1>1 DEF TurnFacts, Behind
<1> QED
  BY <1>2 DEF Over, Settling

\* A step that leaves the chains alone: nobody is waited for anew, nobody is waited for
\* again, and a turn is taken in order.
LEMMA TurnQuiet ==
  ASSUME TurnFacts, UNCHANGED ahead,
         \A r \in Presentation : stage[r] \in Over => stage'[r] \in Over,
         \A r \in Presentation : stage'[r] \in Alive => stage[r] \in Alive,
         \A r \in Presentation :
           stage'[r] \in Settling => stage[r] \in Settling \/ Turn(r),
         \A r \in Presentation : ahead[r] \subseteq Presentation
  PROVE  TurnFacts'
<1>1. Chained'
  BY DEF TurnFacts, Chained, Payer
<1>2. Behind'
  <2> SUFFICES ASSUME NEW r \in Presentation, stage'[r] \in Settling, NEW o \in ahead[r]
               PROVE  stage'[o] \in Over
    BY DEF Behind
  <2>1. stage[o] \in Over
    BY DEF TurnFacts, Behind, Turn
  <2> QED
    BY <2>1
<1> QED
  BY <1>1, <1>2 DEF TurnFacts

\* The same of a step of one presentation.
LEMMA TurnSteps ==
  ASSUME SettleTypeOK, TurnFacts, UNCHANGED ahead, NEW r \in Presentation, NEW place,
         Steps(r, place), place \in Settling \cup Over,
         stage[r] \in Alive, place \in Settling => stage[r] \in Settling \/ Turn(r)
  PROVE  TurnFacts'
<1>1. stage'[r] = place /\ \A o \in Presentation : o # r => stage'[o] = stage[o]
  BY DEF Steps, SettleTypeOK
<1>2. \A o \in Presentation : ahead[o] \subseteq Presentation
  BY DEF SettleTypeOK
<1>3. \A o \in Alive : o \notin Over
  BY DEF Alive, Settling, Over
<1>4. \A o \in Presentation : stage'[o] \in Alive => stage[o] \in Alive
  BY <1>1
<1>5. \A o \in Presentation : stage[o] \in Over => stage'[o] \in Over
  BY <1>1, <1>3
<1>6. \A o \in Presentation : stage'[o] \in Settling => stage[o] \in Settling \/ Turn(o)
  BY <1>1
<1> QED
  BY <1>2, <1>4, <1>5, <1>6, TurnQuiet

\* A presentation that comes in queues behind all that are waited for.
LEMMA TurnPresent ==
  ASSUME SettleTypeOK, TurnFacts, NEW r \in Presentation, Present(r)
  PROVE  TurnFacts'
<1>1. stage[r] = "idle" /\ Steps(r, "queued")
  BY DEF Present
<1>2. stage'[r] = "queued" /\ \A o \in Presentation : o # r => stage'[o] = stage[o]
  BY <1>1 DEF Steps, SettleTypeOK
<1>3. /\ ahead'[r] = {o \in Presentation : stage[o] \in Alive /\ Payer(o) = Payer(r)}
      /\ \A o \in Presentation : o # r => ahead'[o] = ahead[o]
  BY DEF Present, SettleTypeOK, Alive, Payer
<1>4. Chained'
  <2> SUFFICES ASSUME NEW p \in Presentation, NEW o \in Presentation, p # o,
                      stage'[p] \in Alive, stage'[o] \in Alive, Payer(p) = Payer(o)
               PROVE  o \in ahead'[p] \/ p \in ahead'[o]
    BY DEF Chained, Payer
  <2>1. CASE p = r
    BY <1>2, <1>3, <2>1
  <2>2. CASE o = r
    BY <1>2, <1>3, <2>2
  <2>3. CASE p # r /\ o # r
    BY <1>2, <1>3, <2>3 DEF TurnFacts, Chained
  <2> QED
    BY <2>1, <2>2, <2>3
<1>5. Behind'
  <2> SUFFICES ASSUME NEW p \in Presentation, stage'[p] \in Settling, NEW o \in ahead'[p]
               PROVE  stage'[o] \in Over
    BY DEF Behind
  <2>1. p # r /\ stage[p] \in Settling /\ o \in ahead[p]
    BY <1>2, <1>3 DEF Settling
  <2>2. stage[o] \in Over /\ o \in Presentation
    BY <2>1 DEF TurnFacts, Behind, SettleTypeOK
  <2>3. o # r
    BY <1>1, <2>2 DEF Over
  <2> QED
    BY <1>2, <2>2, <2>3
<1> QED
  BY <1>4, <1>5 DEF TurnFacts

LEMMA TurnStep == SettleTypeOK /\ TurnFacts /\ [SettleNext]_settleVars => TurnFacts'
<1> SUFFICES ASSUME SettleTypeOK, TurnFacts, [SettleNext]_settleVars PROVE TurnFacts'
  OBVIOUS
<1>0. \A r \in Presentation : ahead[r] \subseteq Presentation
  BY DEF SettleTypeOK
<1>1. ASSUME UNCHANGED <<stage, ahead>> PROVE TurnFacts'
  BY <1>0, <1>1, TurnQuiet
<1>2. ASSUME NEW q \in SaleQuote, Issue(q) \/ QuoteExpires(q) \/ Transfer(q)
      PROVE  UNCHANGED <<stage, ahead>>
  BY <1>2 DEF Issue, QuoteExpires, Transfer
<1>3. ASSUME NEW r \in Presentation, Present(r) PROVE TurnFacts'
  BY <1>3, TurnPresent
<1>4. ASSUME NEW r \in Presentation, Redeem(r) PROVE TurnFacts'
  <2>1. stage[r] \in Alive /\ UNCHANGED ahead /\ (Steps(r, "replayed") \/ Steps(r, "refused"))
    BY <1>4 DEF Redeem, Turn, Alive
  <2> QED
    BY <2>1, TurnSteps DEF Over, Settling
<1>5. ASSUME NEW r \in Presentation, Check(r) PROVE TurnFacts'
  <2>1. /\ Turn(r) /\ stage[r] \in Alive /\ UNCHANGED ahead
        /\ Steps(r, "checking") \/ Steps(r, "refused")
    BY <1>5 DEF Check, Turn, Alive
  <2> QED
    BY <2>1, TurnSteps DEF Over, Settling
<1>6. ASSUME NEW r \in Presentation, Handle(r) \/ Fault(r), ~Redeem(r), ~Check(r)
      PROVE  TurnFacts'
  <2>1. /\ stage[r] \in Settling /\ UNCHANGED ahead
        /\ \E place \in Settling \cup Over : Steps(r, place)
    BY <1>6 DEF Handle, Accept, Refuse, Mark, AppendSale, Answer, Fault, Settling, Over
  <2> QED
    BY <2>1, TurnSteps DEF Alive
<1>7. CASE Reconcile \/ Boot \/ UNCHANGED settleVars
  BY <1>1, <1>7 DEF Reconcile, Boot, settleVars
<1>8. CASE SellerStops
  <2>1. \A r \in Presentation : stage'[r] = IF stage[r] \in Alive THEN "lost" ELSE stage[r]
    BY <1>8 DEF SellerStops, Alive
  <2>2. \A r \in Presentation : /\ stage[r] \in Over => stage'[r] \in Over
                                /\ stage'[r] \notin Alive /\ stage'[r] \notin Settling
    BY <2>1 DEF Over, Alive, Settling
  <2>3. UNCHANGED ahead
    BY <1>8 DEF SellerStops
  <2> QED
    BY <1>0, <2>2, <2>3, TurnQuiet
<1> QED
  BY <1>1, <1>2, <1>3, <1>4, <1>5, <1>6, <1>7, <1>8 DEF SettleNext

-----------------------------------------------------------------------------
(* What a payer has spent *)

QuotesOf(b) == {q \in SaleQuote : BuyerOf[q] = b}

LEMMA PriceType ==
  /\ \A q \in SaleQuote : Price[q] \in Nat /\ BuyerOf[q] \in Buyer
  /\ \A r \in Presentation : Pays[r] \in SaleQuote /\ Payer(r) \in Buyer
  /\ \A b : IsFiniteSet(QuotesOf(b))
<1>1. \A b : QuotesOf(b) \in SUBSET SaleQuote
  BY DEF QuotesOf
<1>2. \A b : IsFiniteSet(QuotesOf(b))
  BY <1>1, FS_Subset, QuoteAssumption DEF QuoteAssumption
<1> QED
  BY <1>2, QuoteAssumption, ReqAssumption DEF QuoteAssumption, ReqAssumption, Payer

\* The record of a first sale adds its price to what its payer spent.
LEMMA SpentGrows ==
  ASSUME SettleTypeOK, SettleTypeOK', NEW q \in SaleQuote, sales[q] = 0,
         sales' = [sales EXCEPT ![q] = 1]
  PROVE  /\ Spent(BuyerOf[q])' = Spent(BuyerOf[q]) + Price[q]
         /\ \A b : b # BuyerOf[q] => Spent(b)' = Spent(b)
<1> DEFINE before == [p \in SaleQuote |-> sales[p] * Price[p]]
           after == [p \in SaleQuote |-> sales'[p] * Price[p]]
<1>1. \A b : /\ Spent(b) = SumFunctionOnSet(before, QuotesOf(b))
             /\ Spent(b)' = SumFunctionOnSet(after, QuotesOf(b))
  BY DEF Spent, QuotesOf
<1>2. \A p \in SaleQuote : sales[p] \in Nat /\ sales'[p] \in Nat
  BY DEF SettleTypeOK
<1>3. \A p \in SaleQuote : before[p] \in Nat /\ after[p] \in Nat
  BY <1>2, PriceType
<1>4. sales'[q] = 1 /\ \A p \in SaleQuote : p # q => sales'[p] = sales[p]
  BY DEF SettleTypeOK
<1>5. before[q] = 0 /\ after[q] = Price[q]
  BY <1>4, PriceType
<1>6. \A p \in SaleQuote : p # q => after[p] = before[p]
  BY <1>4
<1> HIDE DEF before, after
<1>7. \A b : \A T \in SUBSET QuotesOf(b) : IsFiniteSet(T) /\ T \subseteq SaleQuote
  BY PriceType, FS_Subset DEF QuotesOf
<1>8. \A b : \A T \in SUBSET QuotesOf(b) :
        q \notin T => SumFunctionOnSet(after, T) = SumFunctionOnSet(before, T)
  <2> TAKE b
  <2> TAKE T \in SUBSET QuotesOf(b)
  <2> HAVE q \notin T
  <2>1. IsFiniteSet(T) /\ \A p \in T : before[p] \in Nat /\ after[p] = before[p]
    BY <1>3, <1>6, <1>7
  <2> QED
    BY <2>1, SumSame
<1>9. \A b : b # BuyerOf[q] => Spent(b)' = Spent(b)
  <2> TAKE b
  <2> HAVE b # BuyerOf[q]
  <2>1. q \notin QuotesOf(b)
    BY DEF QuotesOf
  <2> QED
    BY <1>1, <1>8, <2>1
<1>10. Spent(BuyerOf[q])' = Spent(BuyerOf[q]) + Price[q]
  <2> DEFINE Q == QuotesOf(BuyerOf[q])
             rest == SumFunctionOnSet(before, Q \ {q})
  <2>1. q \in Q /\ IsFiniteSet(Q) /\ IsFiniteSet(Q \ {q}) /\ Q \ {q} \in SUBSET Q
    BY <1>7 DEF QuotesOf
  <2>2. \A p \in Q : before[p] \in Nat /\ after[p] \in Nat
    BY <1>3 DEF QuotesOf
  <2>3. SumFunctionOnSet(after, Q \ {q}) = rest
    BY <1>8, <2>1
  <2>4. rest \in Nat
    BY <2>1, <2>2, SumType
  <2>5. SumFunctionOnSet(before, Q) = before[q] + rest
    BY <2>1, <2>2, SumSplit
  <2>6. SumFunctionOnSet(after, Q) = after[q] + SumFunctionOnSet(after, Q \ {q})
    BY <2>1, <2>2, SumSplit
  <2> HIDE DEF rest
  <2>7. SumFunctionOnSet(before, Q) = rest /\ SumFunctionOnSet(after, Q) = Price[q] + rest
    BY <1>5, <2>3, <2>4, <2>5, <2>6
  <2>8. Price[q] \in Nat
    BY PriceType
  <2> QED
    BY <1>1, <2>4, <2>7, <2>8
<1> QED
  BY <1>9, <1>10

\* What is spent is a number, and nothing before the first sale.
LEMMA SpentType ==
  ASSUME SettleTypeOK, NEW b
  PROVE  Spent(b) \in Nat /\ ((\A q \in SaleQuote : sales[q] = 0) => Spent(b) = 0)
<1> DEFINE before == [q \in SaleQuote |-> sales[q] * Price[q]]
           none == [q \in SaleQuote |-> 0]
<1>1. Spent(b) = SumFunctionOnSet(before, QuotesOf(b))
  BY DEF Spent, QuotesOf
<1>2. \A q \in SaleQuote : sales[q] \in Nat
  BY DEF SettleTypeOK
<1>3. \A q \in QuotesOf(b) : before[q] \in Nat
  BY <1>2, PriceType DEF QuotesOf
<1>4. Spent(b) \in Nat
  <2> HIDE DEF before
  <2> QED
    BY <1>1, <1>3, PriceType, SumType
<1>5. ASSUME \A q \in SaleQuote : sales[q] = 0 PROVE Spent(b) = 0
  <2>1. \A q \in QuotesOf(b) : before[q] = 0
    BY <1>5, PriceType DEF QuotesOf
  <2> HIDE DEF before
  <2> QED
    BY <1>1, <2>1, PriceType, SumZero
<1> QED
  BY <1>4, <1>5

SpendFacts == NoOverdraft /\ Reserved

LEMMA FundsType == \A b : Funds(b) \in Nat
BY NodeAssumption DEF NodeAssumption, Funds

\* A step that spends nothing, takes no grant back and accepts nothing.
LEMMA SpendQuiet ==
  ASSUME SettleTypeOK, SpendFacts, UNCHANGED <<saleKind, sales>>, granted \subseteq granted',
         \A r \in Presentation :
           stage'[r] \in {"taken", "appending"} => stage[r] \in {"taken", "appending"}
  PROVE  SpendFacts'
<1>1. \A b : Spent(b)' = Spent(b)
  BY DEF Spent
<1>2. \A b : Funds(b) \in Nat /\ Funds(b)' \in Nat /\ Funds(b) <= Funds(b)'
  BY NodeAssumption DEF NodeAssumption, Funds
<1>3. NoOverdraft'
  <2> SUFFICES ASSUME saleKind = "local", NEW b \in Buyer PROVE Spent(b)' <= Funds(b)'
    BY DEF NoOverdraft
  <2>1. Spent(b) <= Funds(b) /\ Spent(b) \in Nat
    BY SpentType DEF SpendFacts, NoOverdraft
  <2> QED
    BY <1>1, <1>2, <2>1
<1>4. Reserved'
  <2> SUFFICES ASSUME saleKind = "local", NEW r \in Presentation, stage'[r] \in {"taken", "appending"}
               PROVE  Spent(Payer(r))' + Price[Pays[r]] <= Funds(Payer(r))'
    BY DEF Reserved, Payer
  <2>1. Spent(Payer(r)) + Price[Pays[r]] <= Funds(Payer(r))
    BY DEF SpendFacts, Reserved
  <2>2. Spent(Payer(r)) \in Nat /\ Price[Pays[r]] \in Nat
    BY SpentType, PriceType
  <2> QED
    BY <1>1, <1>2, <2>1, <2>2
<1> QED
  BY <1>3, <1>4 DEF SpendFacts

\* The same of a step of one presentation.
LEMMA SpendSteps ==
  ASSUME SettleTypeOK, SpendFacts, UNCHANGED <<saleKind, sales>>, granted \subseteq granted',
         NEW r \in Presentation, NEW place, Steps(r, place),
         place \in {"taken", "appending"} => stage[r] \in {"taken", "appending"}
  PROVE  SpendFacts'
<1>1. stage'[r] = place /\ \A o \in Presentation : o # r => stage'[o] = stage[o]
  BY DEF Steps, SettleTypeOK
<1> QED
  BY <1>1, SpendQuiet

\* The balance is read and the nonce spent in one step: the credit is reserved.
LEMMA SpendAccept ==
  ASSUME SettleTypeOK, SpendFacts, NEW r \in Presentation, Accept(r)
  PROVE  SpendFacts'
<1>1. /\ Covered(Pays[r]) /\ Steps(r, "taken") /\ UNCHANGED <<saleKind, sales, granted>>
  BY DEF Accept
<1>2. stage'[r] = "taken" /\ \A o \in Presentation : o # r => stage'[o] = stage[o]
  BY <1>1 DEF Steps, SettleTypeOK
<1>3. \A b : Spent(b)' = Spent(b) /\ Funds(b)' = Funds(b)
  BY <1>1 DEF Spent, Funds
<1>4. NoOverdraft'
  BY <1>1, <1>3 DEF SpendFacts, NoOverdraft
<1>5. Reserved'
  <2> SUFFICES ASSUME saleKind = "local", NEW o \in Presentation, stage'[o] \in {"taken", "appending"}
               PROVE  Spent(Payer(o)) + Price[Pays[o]] <= Funds(Payer(o))
    BY <1>1, <1>3 DEF Reserved, Payer
  <2>1. CASE o = r
    BY <1>1, <2>1 DEF Covered, Payer
  <2>2. CASE o # r
    BY <1>2, <2>2 DEF SpendFacts, Reserved
  <2> QED
    BY <2>1, <2>2
<1> QED
  BY <1>4, <1>5 DEF SpendFacts

\* The record takes what was reserved, and nobody else of this payer holds a reservation.
LEMMA SpendAppend ==
  ASSUME SettleTypeOK, SettleTypeOK', SaleFacts, TurnFacts, SpendFacts,
         NEW r \in Presentation, AppendSale(r)
  PROVE  SpendFacts'
<1>1. /\ stage[r] = "appending" /\ sales' = [sales EXCEPT ![Pays[r]] = @ + 1]
      /\ Steps(r, "announcing") /\ UNCHANGED <<saleKind, granted>>
  BY DEF AppendSale
<1>2. stage'[r] = "announcing" /\ \A o \in Presentation : o # r => stage'[o] = stage[o]
  BY <1>1 DEF Steps, SettleTypeOK
<1>3. Pays[r] \in SaleQuote /\ sales[Pays[r]] = 0
  BY <1>1, PriceType DEF SaleFacts, OwnsQuote, Accepted, Recorded
<1>4. sales' = [sales EXCEPT ![Pays[r]] = 1]
  BY <1>1, <1>3
<1>5. /\ Spent(Payer(r))' = Spent(Payer(r)) + Price[Pays[r]]
      /\ \A b : b # Payer(r) => Spent(b)' = Spent(b)
  BY <1>3, <1>4, SpentGrows DEF Payer
<1>6. \A b : Funds(b)' = Funds(b)
  BY <1>1 DEF Funds
<1>7. saleKind = "local" => Spent(Payer(r))' <= Funds(Payer(r))
  BY <1>1, <1>5 DEF SpendFacts, Reserved
<1>8. NoOverdraft'
  BY <1>1, <1>5, <1>6, <1>7 DEF SpendFacts, NoOverdraft
<1>9. Reserved'
  <2> SUFFICES ASSUME saleKind = "local", NEW o \in Presentation, stage'[o] \in {"taken", "appending"}
               PROVE  Spent(Payer(o))' + Price[Pays[o]] <= Funds(Payer(o))
    BY <1>1, <1>6 DEF Reserved, Payer
  <2>1. o # r /\ stage[o] \in {"taken", "appending"}
    BY <1>2
  <2>2. Payer(o) # Payer(r)
    BY <1>1, <2>1, OneTurn DEF Settling
  <2> QED
    BY <1>5, <2>1, <2>2 DEF SpendFacts, Reserved
<1> QED
  BY <1>8, <1>9 DEF SpendFacts

LEMMA SpendStep ==
  SettleTypeOK /\ SettleTypeOK' /\ SaleFacts /\ TurnFacts /\ SpendFacts /\ [SettleNext]_settleVars
    => SpendFacts'
<1> SUFFICES ASSUME SettleTypeOK, SettleTypeOK', SaleFacts, TurnFacts, SpendFacts,
                    [SettleNext]_settleVars
             PROVE  SpendFacts'
  OBVIOUS
<1> USE DEF tables
<1>1. ASSUME UNCHANGED <<saleKind, sales, granted, stage>> PROVE SpendFacts'
  BY <1>1, SpendQuiet
<1>2. ASSUME NEW q \in SaleQuote, Issue(q) \/ QuoteExpires(q) \/ Transfer(q)
      PROVE  UNCHANGED <<saleKind, sales, granted, stage>>
  BY <1>2 DEF Issue, QuoteExpires, Transfer
<1>3. ASSUME NEW r \in Presentation, Present(r) PROVE SpendFacts'
  <2>1. Steps(r, "queued") /\ UNCHANGED <<saleKind, sales, granted>>
    BY <1>3 DEF Present
  <2> QED
    BY <2>1, SpendSteps
<1>4. ASSUME NEW r \in Presentation, Redeem(r) \/ Refuse(r) \/ Fault(r) \/ Answer(r)
      PROVE  SpendFacts'
  <2>1. /\ UNCHANGED <<saleKind, sales, granted>>
        /\ \E place \in Over : Steps(r, place)
    BY <1>4 DEF Redeem, Refuse, Fault, Answer, Over
  <2> QED
    BY <2>1, SpendSteps DEF Over
<1>5. ASSUME NEW r \in Presentation, Check(r) PROVE SpendFacts'
  <2>1. /\ UNCHANGED <<saleKind, sales>> /\ granted \subseteq granted'
        /\ Steps(r, "checking") \/ Steps(r, "refused")
    BY <1>5 DEF Check
  <2> QED
    BY <2>1, SpendSteps
<1>6. ASSUME NEW r \in Presentation, Accept(r) PROVE SpendFacts'
  BY <1>6, SpendAccept
<1>7. ASSUME NEW r \in Presentation, Mark(r) PROVE SpendFacts'
  BY <1>7, SpendSteps DEF Mark
<1>8. ASSUME NEW r \in Presentation, AppendSale(r) PROVE SpendFacts'
  BY <1>8, SpendAppend
<1>9. CASE Reconcile \/ Boot \/ UNCHANGED settleVars
  BY <1>1, <1>9 DEF Reconcile, Boot, settleVars
<1>10. CASE SellerStops
  <2>1. \A r \in Presentation :
          stage'[r] = IF stage[r] \in {"queued"} \cup Settling THEN "lost" ELSE stage[r]
    BY <1>10 DEF SellerStops
  <2>2. UNCHANGED <<saleKind, sales, granted>>
    BY <1>10 DEF SellerStops
  <2> QED
    BY <2>1, <2>2, SpendQuiet
<1> QED
  BY <1>1, <1>2, <1>3, <1>4, <1>5, <1>6, <1>7, <1>8, <1>9, <1>10 DEF SettleNext, Handle

LEMMA SpendInit == SettleInit => SpendFacts
<1> SUFFICES ASSUME SettleInit PROVE SpendFacts
  OBVIOUS
<1>1. SettleTypeOK
  BY NodeAssumption DEF NodeAssumption, SettleInit, SettleTypeOK
<1>2. \A b : Spent(b) = 0
  BY <1>1, SpentType DEF SettleInit
<1>3. NoOverdraft
  BY <1>2, FundsType DEF NoOverdraft
<1>4. Reserved
  BY DEF SettleInit, Reserved
<1> QED
  BY <1>3, <1>4 DEF SpendFacts

-----------------------------------------------------------------------------
SaleInv == SettleTypeOK /\ SaleFacts /\ TurnFacts /\ SpendFacts

LEMMA SaleInvariant == SettleSpec => []SaleInv
<1>1. SettleInit => SettleTypeOK
  BY NodeAssumption DEF NodeAssumption, SettleInit, SettleTypeOK
<1>2. SettleInit => SaleFacts
  BY DEF SettleInit, SaleFacts, OwnsQuote, OneOwner, UsedIsPaid, SpentStays, Accepted
<1>3. SettleInit => TurnFacts
  BY DEF SettleInit, TurnFacts, Chained, Behind, Alive, Settling
<1>4. SettleInit => SaleInv
  BY <1>1, <1>2, <1>3, SpendInit DEF SaleInv
<1>5. SaleInv /\ [SettleNext]_settleVars => SaleInv'
  BY SettleTypedStep, SaleStep, TurnStep, SpendStep DEF SaleInv, SaleFacts
<1> QED
  BY <1>4, <1>5, PTL DEF SettleSpec

\* Every reachable state of the seller is well-typed.
THEOREM SettleTyping == SettleSpec => []SettleTypeOK
<1>1. SaleInv => SettleTypeOK
  BY DEF SaleInv
<1> QED
  BY <1>1, SaleInvariant, PTL

\* A payment is recorded as one sale at most, and an AIN sale only when its transfer was
\* executed: however often it is presented, whatever throws, wherever the node stops.
THEOREM SoldOnce == SettleSpec => []SalesArePaid
<1>1. SaleInv => SalesArePaid
  BY DEF SaleInv, SaleFacts, UsedIsPaid, SalesArePaid, Sold, SettleTypeOK
<1> QED
  BY <1>1, SaleInvariant, PTL

\* A spent nonce was sold, is being sold, or fell to a stop or a ledger that threw: no
\* refusal burns it.
THEOREM NotBurned == SettleSpec => []QuoteSpentLast
<1>1. SaleInv => QuoteSpentLast
  BY DEF SaleInv, SaleFacts, SpentStays, QuoteSpentLast, Settling
<1> QED
  BY <1>1, SaleInvariant, PTL

\* Of the presentations of one quote one at most is answered as a sale of its own, and
\* the ledger has the record.
THEOREM OneSale ==
  SettleSpec => [](\A r, o \in Presentation :
                     stage[r] = "sold" /\ Pays[o] = Pays[r] =>
                       Sold(Pays[r]) /\ (stage[o] = "sold" => o = r))
<1>1. SaleInv => \A r, o \in Presentation :
                     stage[r] = "sold" /\ Pays[o] = Pays[r] =>
                       Sold(Pays[r]) /\ (stage[o] = "sold" => o = r)
  BY DEF SaleInv, SaleFacts, OwnsQuote, OneOwner, Accepted, Recorded, Sold
<1> QED
  BY <1>1, SaleInvariant, PTL

\* No payer spends more credit than the node granted: the presentations of one payer are
\* handled one at a time (serialByPayer), so the balance one of them reads still stands
\* when its sale is recorded.
THEOREM NeverOverdrawn == SettleSpec => []NoOverdraft
<1>1. SaleInv => NoOverdraft
  BY DEF SaleInv, SpendFacts
<1> QED
  BY <1>1, SaleInvariant, PTL

-----------------------------------------------------------------------------
(* The buyer (Purchase). *)

-----------------------------------------------------------------------------
(* The newest of some payments *)

\* Max finds the newest of some quotes.
LEMMA MaxIsOne == ASSUME NEW S \in SUBSET Quote, S # {} PROVE Max(S) \in S
<1> DEFINE T == {n \in Nat : \A y \in S : y <= n}
<1>1. MaxQuotes \in Nat
  BY PurchaseAssumption DEF PurchaseAssumption
<1>2. \A y \in S : y \in Nat /\ 1 <= y /\ y <= MaxQuotes
  BY <1>1 DEF Quote
<1>3. MaxQuotes \in T
  BY <1>1, <1>2
<1>4. PICK m \in T : \A k \in T : m <= k
  BY <1>3, LeastNumber
<1>5. m \in Nat /\ \A y \in S : y <= m
  BY <1>4
<1>6. m \in S
  <2> SUFFICES ASSUME m \notin S PROVE FALSE
    OBVIOUS
  <2>1. \A y \in S : y <= m - 1
    BY <1>2, <1>5
  <2>2. m - 1 \in Nat
    BY <1>2, <1>5
  <2>3. m - 1 \in T
    BY <2>1, <2>2
  <2>4. m <= m - 1
    BY <1>4, <2>3
  <2> QED
    BY <1>5, <2>4
<1>7. \E x \in S : \A y \in S : x >= y
  BY <1>2, <1>5, <1>6
<1> QED
  BY <1>7 DEF Max

-----------------------------------------------------------------------------
(* What rows, quotes and calls know of each other *)

\* A call that waits for a transfer holds a quoted row; one that presents, a payment
\* presented; one that finishes or fetches, a sale.
Carries ==
  \A cl \in Call :
    /\ pc[cl] = "transferring" => at[cl] \in sent \ cut /\ row[at[cl]] = "quoted"
    /\ pc[cl] \in {"presenting", "recalling", "redeeming"} => at[cl] \in presented
    /\ pc[cl] \in {"finishing", "booking", "fetching"} => at[cl] \in sold

\* No two calls wait for one transfer.
OneCarrier ==
  \A cl, o \in Call :
    pc[cl] = "transferring" /\ pc[o] = "transferring" /\ at[cl] = at[o] => cl = o

\* A transfer has a row, what was presented is on record as paid, and what is settled
\* was sold.
RowsKnow ==
  /\ \A q \in sent : row[q] # "none"
  /\ \A q \in presented : row[q] \in {"paid", "settled"}
  /\ \A q \in Quote : row[q] = "settled" => q \in sold

\* A quoted row and a transfer handed to the chain are waited for, or their outcome
\* was cut off; or the row is paid.
Traced ==
  \A q \in Quote : row[q] = "quoted" \/ q \in sent =>
    \/ row[q] \in {"paid", "settled"}
    \/ \E cl \in Call : pc[cl] = "transferring" /\ at[cl] = q
    \/ q \in cut

RowFacts == Carries /\ OneCarrier /\ RowsKnow /\ Traced

Place == {"idle"} \cup Paying \cup Collecting

\* The call cl moves; the others stay where they are.
Moves(cl, place, q) ==
  /\ pc'[cl] = place /\ at'[cl] = q
  /\ \A o \in Call : o # cl => pc'[o] = pc[o] /\ at'[o] = at[o]

LEMMA GoMoves ==
  ASSUME BuyTypeOK, NEW cl \in Call, NEW place \in Place, NEW q \in Quote \cup {NoQuote},
         GoWith(cl, place, q)
  PROVE  /\ pc' \in [Call -> Place] /\ at' \in [Call -> Quote \cup {NoQuote}]
         /\ Moves(cl, place, q)
BY DEF BuyTypeOK, GoWith, Moves, Place

LEMMA StopMoves ==
  ASSUME BuyTypeOK, NEW cl \in Call, Stop(cl)
  PROVE  /\ pc' \in [Call -> Place] /\ at' \in [Call -> Quote \cup {NoQuote}]
         /\ Moves(cl, "idle", NoQuote)
BY GoMoves DEF Stop, Place

LEMMA PlaceMoves ==
  ASSUME BuyTypeOK, NEW cl \in Call, NEW place \in Place, Go(cl, place)
  PROVE  /\ pc' \in [Call -> Place] /\ at' \in [Call -> Quote \cup {NoQuote}]
         /\ Moves(cl, place, at[cl])
BY DEF BuyTypeOK, Go, Moves, Place

-----------------------------------------------------------------------------
(* Types *)

\* The payments a call finds owed or shown are quotes.
LEMMA OwedType == ASSUME BuyTypeOK, Owed # {} PROVE Max(Owed) \in Owed /\ Max(Owed) \in Quote
BY MaxIsOne DEF Owed

LEMMA ShownType == ASSUME BuyTypeOK, shown # {} PROVE Max(shown) \in shown /\ Max(shown) \in Quote
<1>1. shown \in SUBSET Quote
  BY DEF BuyTypeOK
<1> QED
  BY <1>1, MaxIsOne

\* What a row becomes is a status, and a row that was written stays written.
LEMMA RowType ==
  ASSUME BuyTypeOK, NEW q, NEW status \in {"quoted", "abandoned", "paid", "settled"},
         row' = [row EXCEPT ![q] = status]
  PROVE  /\ row' \in [Quote -> {"none", "quoted", "abandoned", "paid", "settled"}]
         /\ \A p \in Quote : row[p] # "none" => row'[p] # "none"
BY DEF BuyTypeOK

LEMMA BuyTypedStep == BuyTypeOK /\ RowFacts /\ [BuyNext]_buyVars => BuyTypeOK'
<1> SUFFICES ASSUME BuyTypeOK, RowFacts, [BuyNext]_buyVars PROVE BuyTypeOK'
  OBVIOUS
<1> USE DEF ledger, goods
<1> DEFINE CallsTyped == pc' \in [Call -> Place] /\ at' \in [Call -> Quote \cup {NoQuote}]
<1>0. /\ pc \in [Call -> Place] /\ at \in [Call -> Quote \cup {NoQuote}]
      /\ \A q \in Quote : q \in Quote \cup {NoQuote}
  BY DEF BuyTypeOK, Place
<1>1. ASSUME NEW cl \in Call, NEW again \in {"no", "yes"}, Buy(cl, again) PROVE BuyTypeOK'
  <2>1. CallsTyped
    BY <1>1, GoMoves DEF Buy, Place, Paying
  <2> QED
    BY <1>1, <2>1 DEF Buy, BuyTypeOK, Place, Overlap
<1>2. ASSUME NEW cl \in Call, Recall(cl) PROVE BuyTypeOK'
  <2>1. CASE Owed # {}
    <3>1. GoWith(cl, "recalling", Max(Owed)) /\ Max(Owed) \in Quote /\ UNCHANGED mishap
          /\ presented' = presented \cup {Max(Owed)}
      BY <1>2, <2>1, OwedType DEF Recall
    <3>2. CallsTyped
      BY <3>1, GoMoves DEF Place, Paying
    <3> QED
      BY <1>2, <3>1, <3>2 DEF Recall, BuyTypeOK, Place
  <2>2. CASE Owed = {}
    <3>1. CallsTyped
      BY <1>2, <2>2, PlaceMoves DEF Recall, Place, Paying
    <3>2. /\ mishap' \in SUBSET {"again", "overlap", "unanswered", "unseen", "cut"}
          /\ UNCHANGED presented
      BY <1>2, <2>2 DEF Recall, BuyTypeOK
    <3> QED
      BY <1>2, <3>1, <3>2 DEF Recall, BuyTypeOK, Place
  <2> QED
    BY <2>1, <2>2
<1>3. ASSUME NEW cl \in Call, Quoted(cl) PROVE BuyTypeOK'
  <2>1. PICK q \in Quote :
          IF kind = "ain"
            THEN /\ row' = [row EXCEPT ![q] = "quoted"]
                 /\ sent' = sent \cup {q}
                 /\ GoWith(cl, "transferring", q)
                 /\ UNCHANGED presented
            ELSE /\ row' = [row EXCEPT ![q] = "paid"]
                 /\ presented' = presented \cup {q}
                 /\ GoWith(cl, "presenting", q)
                 /\ UNCHANGED sent
    BY <1>3 DEF Quoted
  <2>2. /\ row' \in [Quote -> {"none", "quoted", "abandoned", "paid", "settled"}]
        /\ \A p \in Quote : row[p] # "none" => row'[p] # "none"
    BY <2>1, RowType
  <2>3. CallsTyped
    BY <2>1, GoMoves DEF Place, Paying
  <2>4. presented' \in SUBSET Quote /\ sent' \in SUBSET Quote /\ sent \subseteq sent'
        /\ presented \subseteq presented'
    BY <2>1 DEF BuyTypeOK
  <2> QED
    BY <1>3, <2>2, <2>3, <2>4 DEF Quoted, BuyTypeOK, Place
<1>4. ASSUME NEW cl \in Call, Overpriced(cl) PROVE BuyTypeOK'
  <2>1. /\ row' \in [Quote -> {"none", "quoted", "abandoned", "paid", "settled"}]
        /\ \A p \in Quote : row[p] # "none" => row'[p] # "none"
    BY <1>4, RowType DEF Overpriced
  <2>2. CallsTyped
    BY <1>4, StopMoves DEF Overpriced
  <2> QED
    BY <1>4, <2>1, <2>2 DEF Overpriced, BuyTypeOK, Place
<1>5. ASSUME NEW cl \in Call, Unreachable(cl) \/ NoBody(cl) PROVE BuyTypeOK'
  <2>1. CallsTyped
    BY <1>5, StopMoves DEF Unreachable, NoBody
  <2> QED
    BY <1>5, <2>1 DEF Unreachable, NoBody, BuyTypeOK, Place
<1>6. ASSUME NEW cl \in Call, Transferred(cl) PROVE BuyTypeOK'
  <2>1. /\ row' \in [Quote -> {"none", "quoted", "abandoned", "paid", "settled"}]
        /\ \A p \in Quote : row[p] # "none" => row'[p] # "none"
    BY <1>6, RowType DEF Transferred
  <2>2. CallsTyped
    BY <1>6, PlaceMoves DEF Transferred, Place, Paying
  <2>3. presented' \in SUBSET Quote /\ presented \subseteq presented'
    BY <1>6 DEF Transferred, BuyTypeOK
  <2> QED
    BY <1>6, <2>1, <2>2, <2>3 DEF Transferred, BuyTypeOK, Place
<1>7. ASSUME NEW cl \in Call, NotTransferred(cl) PROVE BuyTypeOK'
  <2>1. /\ row' \in [Quote -> {"none", "quoted", "abandoned", "paid", "settled"}]
        /\ \A p \in Quote : row[p] # "none" => row'[p] # "none"
    BY <1>7, RowType DEF NotTransferred
  <2>2. CallsTyped
    BY <1>7, StopMoves DEF NotTransferred
  <2>3. at[cl] \in sent \ cut
    BY <1>7 DEF NotTransferred, RowFacts, Carries
  <2>4. /\ sent' \in SUBSET Quote /\ moved' \in SUBSET sent' /\ cut' \in SUBSET sent'
        /\ mishap' \in SUBSET {"again", "overlap", "unanswered", "unseen", "cut"}
    <3>1. /\ sent \in SUBSET Quote /\ moved \in SUBSET sent /\ cut \in SUBSET sent
          /\ mishap \in SUBSET {"again", "overlap", "unanswered", "unseen", "cut"}
          /\ moved' = moved
      BY <1>7 DEF NotTransferred, BuyTypeOK
    <3>2. CASE FaithfulErrors
      <4>1. at[cl] \notin moved /\ sent' = sent \ {at[cl]} /\ mishap' = mishap /\ cut' = cut
        BY <1>7, <3>2 DEF NotTransferred
      <4> QED
        BY <2>3, <3>1, <4>1
    <3>3. CASE ~FaithfulErrors
      <4>1. mishap' = mishap \cup {"cut"} /\ cut' = cut \cup {at[cl]} /\ sent' = sent
        BY <1>7, <3>3 DEF NotTransferred
      <4> QED
        BY <2>3, <3>1, <4>1
    <3> QED
      BY <3>2, <3>3
  <2> QED
    BY <1>7, <2>1, <2>2, <2>4 DEF NotTransferred, BuyTypeOK, Place
<1>8. ASSUME NEW cl \in Call, Answered(cl) PROVE BuyTypeOK'
  <2>1. /\ row' \in [Quote -> {"none", "quoted", "abandoned", "paid", "settled"}]
        /\ \A p \in Quote : row[p] # "none" => row'[p] # "none"
    BY <1>8, RowType DEF Answered
  <2>2. CallsTyped
    BY <1>8, PlaceMoves DEF Answered, Place, Paying
  <2> QED
    BY <1>8, <2>1, <2>2 DEF Answered, BuyTypeOK, Place
<1>9. ASSUME NEW cl \in Call, Rejected(cl) PROVE BuyTypeOK'
  <2>1. /\ row' \in [Quote -> {"none", "quoted", "abandoned", "paid", "settled"}]
        /\ \A p \in Quote : row[p] # "none" => row'[p] # "none"
    BY <1>9, RowType DEF Rejected
  <2>2. CallsTyped
    BY <1>9, StopMoves DEF Rejected
  <2> QED
    BY <1>9, <2>1, <2>2 DEF Rejected, BuyTypeOK, Place
<1>10. ASSUME NEW cl \in Call, RecallFails(cl) PROVE BuyTypeOK'
  <2>1. CallsTyped
    BY <1>10, GoMoves DEF RecallFails, Place, Paying
  <2> QED
    BY <1>10, <2>1 DEF RecallFails, BuyTypeOK, Place
<1>11. ASSUME NEW cl \in Call, Download(cl) PROVE BuyTypeOK'
  <2>1. CallsTyped
    BY <1>11, PlaceMoves DEF Download, Place, Paying
  <2> QED
    BY <1>11, <2>1 DEF Download, BuyTypeOK, Place
<1>12. ASSUME NEW cl \in Call, Book(cl) \/ Fetch(cl) PROVE BuyTypeOK'
  <2>1. CallsTyped
    BY <1>12, StopMoves DEF Book, Fetch
  <2>2. receipt' \in sold \cup {NoQuote} /\ body' \in {"no", "yes"}
    BY <1>12 DEF Book, Fetch, RowFacts, Carries, BuyTypeOK
  <2> QED
    BY <1>12, <2>1, <2>2 DEF Book, Fetch, BuyTypeOK, Place
<1>13. ASSUME NEW cl \in Call, Collect(cl) PROVE BuyTypeOK'
  <2>1. CASE Owed # {} /\ GoWith(cl, "redeeming", Max(Owed)) /\ presented' = presented \cup {Max(Owed)}
    <3>1. CallsTyped /\ presented' \in SUBSET Quote /\ presented \subseteq presented'
      BY <2>1, OwedType, GoMoves DEF Place, Collecting, BuyTypeOK
    <3> QED
      BY <1>13, <3>1 DEF Collect, BuyTypeOK, Place, Overlap
  <2>2. CASE shown # {} /\ GoWith(cl, "fetching", Max(shown)) /\ UNCHANGED presented
    <3>1. CallsTyped
      BY <2>2, ShownType, GoMoves DEF Place, Collecting
    <3> QED
      BY <1>13, <2>2, <3>1 DEF Collect, BuyTypeOK, Place, Overlap
  <2> QED
    BY <1>13, <2>1, <2>2 DEF Collect
<1>14. ASSUME NEW q \in Quote, Execute(q) PROVE BuyTypeOK'
  BY <1>14 DEF Execute, BuyTypeOK
<1>15. ASSUME NEW q \in Quote, Settle(q) PROVE BuyTypeOK'
  BY <1>15 DEF Settle, BuyTypeOK
<1>16. ASSUME NEW q \in Quote, Show(q) PROVE BuyTypeOK'
  BY <1>16 DEF Show, BuyTypeOK
<1>17. ASSUME NEW q \in Quote, Expire(q) PROVE BuyTypeOK'
  BY <1>17 DEF Expire, BuyTypeOK
<1>18. CASE ForgetBody
  BY <1>18 DEF ForgetBody, BuyTypeOK
<1>19. CASE Crash
  <2>1. CallsTyped
    BY <1>19 DEF Crash, Place
  <2>2. crashes' \in 0 .. MaxCrashes
    BY <1>19, PurchaseAssumption DEF PurchaseAssumption, Crash, BuyTypeOK
  <2>3. /\ cut' \in SUBSET sent
        /\ mishap' \in SUBSET {"again", "overlap", "unanswered", "unseen", "cut"}
    BY <1>19 DEF Crash, BuyTypeOK, RowFacts, Carries
  <2> QED
    BY <1>19, <2>1, <2>2, <2>3 DEF Crash, BuyTypeOK, Place
<1>20. CASE UNCHANGED buyVars
  BY <1>20 DEF buyVars, BuyTypeOK
<1> QED
  BY <1>1, <1>2, <1>3, <1>4, <1>5, <1>6, <1>7, <1>8, <1>9, <1>10, <1>11, <1>12, <1>13,
     <1>14, <1>15, <1>16, <1>17, <1>18, <1>19, <1>20 DEF BuyNext

-----------------------------------------------------------------------------
(* The facts about rows, step by step *)

\* A call that neither comes from a transfer nor begins one, and that holds what its
\* place asks for, keeps the facts.
LEMMA RowMoves ==
  ASSUME BuyTypeOK, RowFacts, NEW cl \in Call, NEW place, NEW q, Moves(cl, place, q),
         UNCHANGED <<row, sent, cut, sold>>, presented \subseteq presented',
         \A p \in presented' : p \in presented \/ row[p] = "paid",
         pc[cl] # "transferring", place # "transferring",
         place \in {"presenting", "recalling", "redeeming"} => q \in presented',
         place \in {"finishing", "booking", "fetching"} => q \in sold
  PROVE  RowFacts'
<1>1. ASSUME NEW o \in Call
      PROVE  \/ o # cl /\ pc'[o] = pc[o] /\ at'[o] = at[o]
             \/ o = cl /\ pc'[o] = place /\ at'[o] = q
  BY DEF Moves
<1>2. Carries'
  BY <1>1 DEF RowFacts, Carries
<1>3. OneCarrier'
  BY <1>1 DEF RowFacts, OneCarrier
<1>4. RowsKnow'
  BY DEF RowFacts, RowsKnow
<1>5. Traced'
  BY <1>1 DEF RowFacts, Traced
<1> QED
  BY <1>2, <1>3, <1>4, <1>5 DEF RowFacts

\* The row of a payment is written as paid or settled by the call that holds it.
LEMMA RowPaid ==
  ASSUME BuyTypeOK, RowFacts, NEW cl \in Call, NEW place, NEW q, Moves(cl, place, q),
         \/ row' = [row EXCEPT ![at[cl]] = "paid"]
         \/ row' = [row EXCEPT ![at[cl]] = "settled"] /\ at[cl] \in sold,
         UNCHANGED <<sent, cut, sold, presented>>,
         pc[cl] \in {"presenting", "recalling", "redeeming"},
         place \in {"idle", "finishing"}, place = "finishing" => q \in sold
  PROVE  RowFacts'
<1>1. at[cl] \in presented /\ row[at[cl]] \in {"paid", "settled"} /\ at[cl] \in Quote
  BY DEF RowFacts, Carries, RowsKnow, BuyTypeOK
<1>2. DOMAIN row = Quote
  BY DEF BuyTypeOK
<1>3. /\ row'[at[cl]] = "paid" \/ (row'[at[cl]] = "settled" /\ at[cl] \in sold)
      /\ \A p \in Quote : p # at[cl] => row'[p] = row[p]
  <2>1. CASE row' = [row EXCEPT ![at[cl]] = "paid"]
    BY <1>1, <1>2, <2>1
  <2>2. CASE row' = [row EXCEPT ![at[cl]] = "settled"] /\ at[cl] \in sold
    BY <1>1, <1>2, <2>2
  <2> QED
    BY <2>1, <2>2
<1>4. ASSUME NEW o \in Call
      PROVE  \/ o # cl /\ pc'[o] = pc[o] /\ at'[o] = at[o]
             \/ o = cl /\ pc'[o] = place /\ at'[o] = q
  BY DEF Moves
<1>5. Carries'
  <2> SUFFICES ASSUME NEW o \in Call
      PROVE  /\ pc'[o] = "transferring" => at'[o] \in sent \ cut /\ row'[at'[o]] = "quoted"
             /\ pc'[o] \in {"presenting", "recalling", "redeeming"} => at'[o] \in presented
             /\ pc'[o] \in {"finishing", "booking", "fetching"} => at'[o] \in sold
    BY DEF Carries
  <2>1. pc'[o] = "transferring" => at'[o] \in sent \ cut /\ row'[at'[o]] = "quoted"
    <3> SUFFICES ASSUME pc'[o] = "transferring"
        PROVE  at'[o] \in sent \ cut /\ row'[at'[o]] = "quoted"
      OBVIOUS
    <3>1. pc[o] = "transferring" /\ at'[o] = at[o]
      BY <1>4
    <3>2. at[o] \in sent \ cut /\ row[at[o]] = "quoted" /\ at[o] \in Quote
      BY <3>1 DEF RowFacts, Carries, BuyTypeOK
    <3> QED
      BY <1>1, <1>3, <3>1, <3>2
  <2>2. /\ pc'[o] \in {"presenting", "recalling", "redeeming"} => at'[o] \in presented
        /\ pc'[o] \in {"finishing", "booking", "fetching"} => at'[o] \in sold
    BY <1>4 DEF RowFacts, Carries
  <2> QED
    BY <2>1, <2>2
<1>6. OneCarrier'
  BY <1>4 DEF RowFacts, OneCarrier
<1>7. RowsKnow'
  BY <1>1, <1>3 DEF RowFacts, RowsKnow, BuyTypeOK
<1>8. Traced'
  <2> SUFFICES ASSUME NEW p \in Quote, row'[p] = "quoted" \/ p \in sent
      PROVE  \/ row'[p] \in {"paid", "settled"}
             \/ \E o \in Call : pc'[o] = "transferring" /\ at'[o] = p
             \/ p \in cut
    BY DEF Traced
  <2>1. CASE p = at[cl]
    BY <1>3, <2>1
  <2>2. CASE p # at[cl]
    <3>1. row'[p] = row[p]
      BY <1>3, <2>2
    <3>2. CASE \E o \in Call : pc[o] = "transferring" /\ at[o] = p
      BY <1>4, <3>2
    <3> QED
      BY <3>1, <3>2 DEF RowFacts, Traced
  <2> QED
    BY <2>1, <2>2
<1> QED
  BY <1>5, <1>6, <1>7, <1>8 DEF RowFacts

\* A new quote: its row is written, and on AIN its transfer handed to the chain.
LEMMA RowQuoted ==
  ASSUME BuyTypeOK, RowFacts, NEW cl \in Call, Quoted(cl)
  PROVE  RowFacts'
<1>1. PICK q \in Quote :
        /\ row[q] = "none"
        /\ IF kind = "ain"
            THEN /\ row' = [row EXCEPT ![q] = "quoted"]
                 /\ sent' = sent \cup {q}
                 /\ GoWith(cl, "transferring", q)
                 /\ UNCHANGED presented
            ELSE /\ row' = [row EXCEPT ![q] = "paid"]
                 /\ presented' = presented \cup {q}
                 /\ GoWith(cl, "presenting", q)
                 /\ UNCHANGED sent
  BY DEF Quoted
<1>2. pc[cl] = "asking" /\ UNCHANGED <<cut, sold>>
  BY DEF Quoted, ledger
<1>3. \A p \in Quote : p # q => row'[p] = row[p]
  BY <1>1 DEF BuyTypeOK
<1>4. /\ q \notin presented /\ q \notin sold
      /\ \A o \in Call : pc[o] = "transferring" => at[o] # q
  BY <1>1 DEF RowFacts, RowsKnow, Carries, BuyTypeOK
<1>5. q \notin sent /\ q \notin cut
  BY <1>1 DEF RowFacts, RowsKnow, BuyTypeOK
<1>6. CASE kind = "ain"
  <2>1. /\ row'[q] = "quoted" /\ sent' = sent \cup {q} /\ presented' = presented
        /\ Moves(cl, "transferring", q)
    BY <1>1, <1>6, GoMoves DEF Place, Paying, BuyTypeOK
  <2>2. ASSUME NEW o \in Call
        PROVE  \/ o # cl /\ pc'[o] = pc[o] /\ at'[o] = at[o]
               \/ o = cl /\ pc'[o] = "transferring" /\ at'[o] = q
    BY <2>1 DEF Moves
  <2>3. Carries'
    <3> SUFFICES ASSUME NEW o \in Call
        PROVE  /\ pc'[o] = "transferring" => at'[o] \in sent' \ cut /\ row'[at'[o]] = "quoted"
               /\ pc'[o] \in {"presenting", "recalling", "redeeming"} => at'[o] \in presented
               /\ pc'[o] \in {"finishing", "booking", "fetching"} => at'[o] \in sold
      BY <1>2, <2>1 DEF Carries
    <3>1. CASE o = cl
      BY <1>5, <2>1, <2>2, <3>1
    <3>2. CASE o # cl
      <4>1. pc'[o] = pc[o] /\ at'[o] = at[o]
        BY <2>2, <3>2
      <4>2. pc[o] = "transferring" => at[o] \in Quote /\ at[o] # q
        BY <1>4 DEF RowFacts, Carries, BuyTypeOK
      <4> QED
        BY <1>3, <2>1, <4>1, <4>2 DEF RowFacts, Carries
    <3> QED
      BY <3>1, <3>2
  <2>4. OneCarrier'
    BY <1>4, <2>2 DEF RowFacts, OneCarrier
  <2>5. RowsKnow'
    BY <1>2, <1>3, <1>4, <2>1 DEF RowFacts, RowsKnow, BuyTypeOK
  <2>6. Traced'
    <3> SUFFICES ASSUME NEW p \in Quote, row'[p] = "quoted" \/ p \in sent'
        PROVE  \/ row'[p] \in {"paid", "settled"}
               \/ \E o \in Call : pc'[o] = "transferring" /\ at'[o] = p
               \/ p \in cut
      BY <1>2 DEF Traced
    <3>1. CASE p = q
      BY <2>2, <3>1
    <3>2. CASE p # q
      <4>1. row'[p] = row[p] /\ (row[p] = "quoted" \/ p \in sent)
        BY <1>3, <2>1, <3>2
      <4>2. CASE \E o \in Call : pc[o] = "transferring" /\ at[o] = p
        BY <1>2, <2>2, <4>2
      <4> QED
        BY <4>1, <4>2 DEF RowFacts, Traced
    <3> QED
      BY <3>1, <3>2
  <2> QED
    BY <2>3, <2>4, <2>5, <2>6 DEF RowFacts
<1>7. CASE kind # "ain"
  <2>1. /\ row'[q] = "paid" /\ presented' = presented \cup {q} /\ sent' = sent
        /\ Moves(cl, "presenting", q)
    BY <1>1, <1>7, GoMoves DEF Place, Paying, BuyTypeOK
  <2>2. ASSUME NEW o \in Call
        PROVE  \/ o # cl /\ pc'[o] = pc[o] /\ at'[o] = at[o]
               \/ o = cl /\ pc'[o] = "presenting" /\ at'[o] = q
    BY <2>1 DEF Moves
  <2>3. Carries'
    <3> SUFFICES ASSUME NEW o \in Call
        PROVE  /\ pc'[o] = "transferring" => at'[o] \in sent \ cut /\ row'[at'[o]] = "quoted"
               /\ pc'[o] \in {"presenting", "recalling", "redeeming"} => at'[o] \in presented'
               /\ pc'[o] \in {"finishing", "booking", "fetching"} => at'[o] \in sold
      BY <1>2, <2>1 DEF Carries
    <3>1. CASE o = cl
      BY <2>1, <2>2, <3>1
    <3>2. CASE o # cl
      <4>1. pc'[o] = pc[o] /\ at'[o] = at[o]
        BY <2>2, <3>2
      <4>2. pc[o] = "transferring" => at[o] \in Quote /\ at[o] # q
        BY <1>4 DEF RowFacts, Carries, BuyTypeOK
      <4> QED
        BY <1>3, <2>1, <4>1, <4>2 DEF RowFacts, Carries
    <3> QED
      BY <3>1, <3>2
  <2>4. OneCarrier'
    BY <2>2 DEF RowFacts, OneCarrier
  <2>5. RowsKnow'
    BY <1>2, <1>3, <1>4, <1>5, <2>1 DEF RowFacts, RowsKnow, BuyTypeOK
  <2>6. Traced'
    <3> SUFFICES ASSUME NEW p \in Quote, row'[p] = "quoted" \/ p \in sent
        PROVE  \/ row'[p] \in {"paid", "settled"}
               \/ \E o \in Call : pc'[o] = "transferring" /\ at'[o] = p
               \/ p \in cut
      BY <1>2, <2>1 DEF Traced
    <3>1. CASE p = q
      BY <2>1, <3>1
    <3>2. CASE p # q
      <4>1. row'[p] = row[p]
        BY <1>3, <3>2
      <4>2. CASE \E o \in Call : pc[o] = "transferring" /\ at[o] = p
        BY <1>2, <2>2, <4>2
      <4> QED
        BY <4>1, <4>2 DEF RowFacts, Traced
    <3> QED
      BY <3>1, <3>2
  <2> QED
    BY <2>3, <2>4, <2>5, <2>6 DEF RowFacts
<1> QED
  BY <1>6, <1>7

\* The transfer came to its end: the row of the call is written, the others stay.
LEMMA RowWritten ==
  ASSUME BuyTypeOK, RowFacts, NEW cl \in Call, pc[cl] = "transferring",
         NEW status \in {"paid", "abandoned"}, row' = [row EXCEPT ![at[cl]] = status]
  PROVE  /\ at[cl] \in Quote /\ row'[at[cl]] = status
         /\ row[at[cl]] = "quoted" /\ at[cl] \in sent \ cut /\ at[cl] \notin presented
         /\ \A p \in Quote : p # at[cl] => row'[p] = row[p]
         /\ \A o \in Call : o # cl /\ pc[o] = "transferring" =>
              at[o] \in Quote /\ at[o] # at[cl] /\ row'[at[o]] = "quoted"
<1>1. at[cl] \in sent \ cut /\ row[at[cl]] = "quoted" /\ at[cl] \in Quote
  BY DEF RowFacts, Carries, BuyTypeOK
<1>2. row'[at[cl]] = status /\ \A p \in Quote : p # at[cl] => row'[p] = row[p]
  BY <1>1 DEF BuyTypeOK
<1>3. at[cl] \notin presented
  BY <1>1 DEF RowFacts, RowsKnow
<1>4. ASSUME NEW o \in Call, o # cl, pc[o] = "transferring"
      PROVE  at[o] \in Quote /\ at[o] # at[cl] /\ row'[at[o]] = "quoted"
  <2>1. at[o] \in Quote /\ row[at[o]] = "quoted" /\ at[o] # at[cl]
    BY <1>4 DEF RowFacts, Carries, OneCarrier, BuyTypeOK
  <2> QED
    BY <1>2, <2>1
<1> QED
  BY <1>1, <1>2, <1>3, <1>4

LEMMA RowTransferred ==
  ASSUME BuyTypeOK, RowFacts, NEW cl \in Call, Transferred(cl)
  PROVE  RowFacts'
<1>1. /\ pc[cl] = "transferring" /\ row' = [row EXCEPT ![at[cl]] = "paid"]
      /\ presented' = presented \cup {at[cl]} /\ UNCHANGED <<sent, cut, sold>>
      /\ Go(cl, "presenting")
  BY DEF Transferred, ledger
<1>2. Moves(cl, "presenting", at[cl])
  BY <1>1, PlaceMoves DEF Place, Paying
<1>3. /\ at[cl] \in Quote /\ row'[at[cl]] = "paid"
      /\ \A p \in Quote : p # at[cl] => row'[p] = row[p]
      /\ \A o \in Call : o # cl /\ pc[o] = "transferring" =>
              at[o] \in Quote /\ at[o] # at[cl] /\ row'[at[o]] = "quoted"
  BY <1>1, RowWritten
<1>4. ASSUME NEW o \in Call
      PROVE  \/ o # cl /\ pc'[o] = pc[o] /\ at'[o] = at[o]
             \/ o = cl /\ pc'[o] = "presenting" /\ at'[o] = at[cl]
  BY <1>2 DEF Moves
<1>5. Carries'
  BY <1>1, <1>3, <1>4 DEF RowFacts, Carries
<1>6. OneCarrier'
  BY <1>4 DEF RowFacts, OneCarrier
<1>7. RowsKnow'
  <2>1. \A p \in Quote : row'[p] = row[p] \/ row'[p] = "paid"
    BY <1>3
  <2> QED
    BY <1>1, <1>3, <2>1 DEF RowFacts, RowsKnow, BuyTypeOK
<1>8. Traced'
  <2> SUFFICES ASSUME NEW p \in Quote, row'[p] = "quoted" \/ p \in sent
      PROVE  \/ row'[p] \in {"paid", "settled"}
             \/ \E o \in Call : pc'[o] = "transferring" /\ at'[o] = p
             \/ p \in cut
    BY <1>1 DEF Traced
  <2>1. CASE p = at[cl]
    BY <1>3, <2>1
  <2>2. CASE p # at[cl]
    <3>1. row'[p] = row[p]
      BY <1>3, <2>2
    <3>2. CASE \E o \in Call : pc[o] = "transferring" /\ at[o] = p
      BY <1>4, <2>2, <3>2
    <3> QED
      BY <3>1, <3>2 DEF RowFacts, Traced
  <2> QED
    BY <2>1, <2>2
<1> QED
  BY <1>5, <1>6, <1>7, <1>8 DEF RowFacts

LEMMA RowNotTransferred ==
  ASSUME BuyTypeOK, RowFacts, NEW cl \in Call, NotTransferred(cl)
  PROVE  RowFacts'
<1>1. /\ pc[cl] = "transferring" /\ row' = [row EXCEPT ![at[cl]] = "abandoned"]
      /\ UNCHANGED <<presented, sold>> /\ Stop(cl)
  BY DEF NotTransferred, ledger
<1>2. \/ sent' = sent \ {at[cl]} /\ cut' = cut
      \/ sent' = sent /\ cut' = cut \cup {at[cl]}
  BY DEF NotTransferred
<1>3. Moves(cl, "idle", NoQuote)
  BY <1>1, StopMoves
<1>4. /\ at[cl] \in Quote /\ row'[at[cl]] = "abandoned" /\ row[at[cl]] = "quoted"
      /\ at[cl] \notin presented
      /\ \A p \in Quote : p # at[cl] => row'[p] = row[p]
      /\ \A o \in Call : o # cl /\ pc[o] = "transferring" =>
              at[o] \in Quote /\ at[o] # at[cl] /\ row'[at[o]] = "quoted"
  BY <1>1, RowWritten
<1>5. ASSUME NEW o \in Call
      PROVE  \/ o # cl /\ pc'[o] = pc[o] /\ at'[o] = at[o]
             \/ o = cl /\ pc'[o] = "idle"
  BY <1>3 DEF Moves
<1>6. Carries'
  <2> SUFFICES ASSUME NEW o \in Call
      PROVE  /\ pc'[o] = "transferring" => at'[o] \in sent' \ cut' /\ row'[at'[o]] = "quoted"
             /\ pc'[o] \in {"presenting", "recalling", "redeeming"} => at'[o] \in presented
             /\ pc'[o] \in {"finishing", "booking", "fetching"} => at'[o] \in sold
    BY <1>1 DEF Carries
  <2>1. pc'[o] = "transferring" => at'[o] \in sent' \ cut' /\ row'[at'[o]] = "quoted"
    <3> SUFFICES ASSUME pc'[o] = "transferring"
        PROVE  at'[o] \in sent' \ cut' /\ row'[at'[o]] = "quoted"
      OBVIOUS
    <3>1. o # cl /\ pc[o] = "transferring" /\ at'[o] = at[o]
      BY <1>5
    <3>2. at[o] # at[cl] /\ row'[at[o]] = "quoted" /\ at[o] \in sent \ cut
      BY <1>4, <3>1 DEF RowFacts, Carries
    <3> QED
      BY <1>2, <3>1, <3>2
  <2>2. /\ pc'[o] \in {"presenting", "recalling", "redeeming"} => at'[o] \in presented
        /\ pc'[o] \in {"finishing", "booking", "fetching"} => at'[o] \in sold
    BY <1>5 DEF RowFacts, Carries
  <2> QED
    BY <2>1, <2>2
<1>7. OneCarrier'
  BY <1>5 DEF RowFacts, OneCarrier
<1>8. RowsKnow'
  <2>1. ASSUME NEW p \in Quote PROVE row'[p] = row[p] \/ (p = at[cl] /\ row'[p] = "abandoned")
    <3>1. CASE p = at[cl]
      BY <1>4, <3>1
    <3>2. CASE p # at[cl]
      BY <1>4, <3>2
    <3> QED
      BY <3>1, <3>2
  <2>2. sent' \subseteq sent
    BY <1>2
  <2> QED
    BY <1>1, <1>4, <2>1, <2>2 DEF RowFacts, RowsKnow, BuyTypeOK
<1>9. Traced'
  <2> SUFFICES ASSUME NEW p \in Quote, row'[p] = "quoted" \/ p \in sent'
      PROVE  \/ row'[p] \in {"paid", "settled"}
             \/ \E o \in Call : pc'[o] = "transferring" /\ at'[o] = p
             \/ p \in cut'
    BY DEF Traced
  <2>1. CASE p = at[cl]
    BY <1>2, <1>4, <2>1
  <2>2. CASE p # at[cl]
    <3>1. row'[p] = row[p] /\ (row[p] = "quoted" \/ p \in sent)
      BY <1>2, <1>4, <2>2
    <3>2. CASE \E o \in Call : pc[o] = "transferring" /\ at[o] = p
      BY <1>5, <2>2, <3>2
    <3> QED
      BY <1>2, <3>1, <3>2 DEF RowFacts, Traced
  <2> QED
    BY <2>1, <2>2
<1> QED
  BY <1>6, <1>7, <1>8, <1>9 DEF RowFacts

LEMMA RowOverpriced ==
  ASSUME BuyTypeOK, RowFacts, NEW cl \in Call, Overpriced(cl)
  PROVE  RowFacts'
<1>1. PICK q \in Quote : row[q] = "none" /\ row' = [row EXCEPT ![q] = "abandoned"]
  BY DEF Overpriced
<1>2. pc[cl] = "asking" /\ Moves(cl, "idle", NoQuote) /\ UNCHANGED <<sent, cut, sold, presented>>
  BY StopMoves DEF Overpriced, ledger
<1>3. row'[q] = "abandoned" /\ \A p \in Quote : p # q => row'[p] = row[p]
  BY <1>1 DEF BuyTypeOK
<1>4. ASSUME NEW o \in Call
      PROVE  \/ o # cl /\ pc'[o] = pc[o] /\ at'[o] = at[o]
             \/ o = cl /\ pc'[o] = "idle"
  BY <1>2 DEF Moves
<1>5. \A o \in Call : pc[o] = "transferring" => at[o] \in Quote /\ at[o] # q
  BY <1>1 DEF RowFacts, Carries, BuyTypeOK
<1>6. q \notin sent /\ q \notin presented
  BY <1>1 DEF RowFacts, RowsKnow
<1>7. Carries'
  BY <1>2, <1>3, <1>4, <1>5 DEF RowFacts, Carries
<1>8. OneCarrier'
  BY <1>4 DEF RowFacts, OneCarrier
<1>9. RowsKnow'
  BY <1>2, <1>3, <1>6 DEF RowFacts, RowsKnow, BuyTypeOK
<1>10. Traced'
  <2> SUFFICES ASSUME NEW p \in Quote, row'[p] = "quoted" \/ p \in sent
      PROVE  \/ row'[p] \in {"paid", "settled"}
             \/ \E o \in Call : pc'[o] = "transferring" /\ at'[o] = p
             \/ p \in cut
    BY <1>2 DEF Traced
  <2>1. p # q /\ row'[p] = row[p]
    BY <1>3, <1>6
  <2>2. CASE \E o \in Call : pc[o] = "transferring" /\ at[o] = p
    BY <1>2, <1>4, <2>2
  <2> QED
    BY <2>1, <2>2 DEF RowFacts, Traced
<1> QED
  BY <1>7, <1>8, <1>9, <1>10 DEF RowFacts

LEMMA RowStep == BuyTypeOK /\ RowFacts /\ [BuyNext]_buyVars => RowFacts'
<1> SUFFICES ASSUME BuyTypeOK, RowFacts, [BuyNext]_buyVars PROVE RowFacts'
  OBVIOUS
<1> USE DEF ledger, goods
<1>1. ASSUME NEW cl \in Call, NEW again \in {"no", "yes"}, Buy(cl, again) PROVE RowFacts'
  <2>1. /\ pc[cl] = "idle" /\ GoWith(cl, "pricing", NoQuote)
        /\ UNCHANGED <<row, sent, cut, sold, presented>>
    BY <1>1 DEF Buy
  <2>2. Moves(cl, "pricing", NoQuote)
    BY <2>1, GoMoves DEF Place, Paying
  <2> QED
    BY <2>1, <2>2, RowMoves
<1>2. ASSUME NEW cl \in Call, Recall(cl) PROVE RowFacts'
  <2>1. pc[cl] = "pricing" /\ UNCHANGED <<row, sent, cut, sold>>
    BY <1>2 DEF Recall
  <2>2. CASE Owed # {}
    <3>1. /\ GoWith(cl, "recalling", Max(Owed)) /\ presented' = presented \cup {Max(Owed)}
          /\ Max(Owed) \in Quote /\ row[Max(Owed)] = "paid"
      BY <1>2, <2>2, OwedType DEF Recall, Owed
    <3>2. Moves(cl, "recalling", Max(Owed))
      BY <3>1, GoMoves DEF Place, Paying
    <3> QED
      BY <2>1, <3>1, <3>2, RowMoves
  <2>3. CASE Owed = {}
    <3>1. Moves(cl, "asking", at[cl]) /\ presented' = presented
      BY <1>2, <2>3, PlaceMoves DEF Recall, Place, Paying
    <3> QED
      BY <2>1, <3>1, RowMoves
  <2> QED
    BY <2>2, <2>3
<1>3. ASSUME NEW cl \in Call, Quoted(cl) PROVE RowFacts'
  BY <1>3, RowQuoted
<1>4. ASSUME NEW cl \in Call, Overpriced(cl) PROVE RowFacts'
  BY <1>4, RowOverpriced
<1>5. ASSUME NEW cl \in Call, Unreachable(cl) \/ NoBody(cl) PROVE RowFacts'
  <2>1. pc[cl] # "transferring" /\ Stop(cl) /\ UNCHANGED <<row, sent, cut, sold, presented>>
    BY <1>5 DEF Unreachable, NoBody
  <2> QED
    BY <2>1, StopMoves, RowMoves
<1>6. ASSUME NEW cl \in Call, Transferred(cl) PROVE RowFacts'
  BY <1>6, RowTransferred
<1>7. ASSUME NEW cl \in Call, NotTransferred(cl) PROVE RowFacts'
  BY <1>7, RowNotTransferred
<1>8. ASSUME NEW cl \in Call, Answered(cl) PROVE RowFacts'
  <2>1. /\ pc[cl] \in {"presenting", "recalling", "redeeming"} /\ at[cl] \in sold
        /\ row' = [row EXCEPT ![at[cl]] = "settled"] /\ Go(cl, "finishing")
        /\ UNCHANGED <<sent, cut, sold, presented>>
    BY <1>8 DEF Answered
  <2>2. Moves(cl, "finishing", at[cl])
    BY <2>1, PlaceMoves DEF Place, Paying
  <2> QED
    BY <2>1, <2>2, RowPaid
<1>9. ASSUME NEW cl \in Call, Rejected(cl) PROVE RowFacts'
  <2>1. /\ pc[cl] \in {"presenting", "recalling", "redeeming"}
        /\ row' = [row EXCEPT ![at[cl]] = "paid"] /\ Stop(cl)
        /\ sent' = sent /\ cut' = cut /\ sold' = sold /\ presented' = presented
    BY <1>9 DEF Rejected
  <2>2. Moves(cl, "idle", NoQuote)
    BY <2>1, StopMoves
  <2> QED
    BY <2>1, <2>2, RowPaid
<1>10. ASSUME NEW cl \in Call, RecallFails(cl) PROVE RowFacts'
  <2>1. /\ pc[cl] = "recalling" /\ GoWith(cl, "asking", NoQuote)
        /\ UNCHANGED <<row, sent, cut, sold, presented>>
    BY <1>10 DEF RecallFails
  <2>2. Moves(cl, "asking", NoQuote)
    BY <2>1, GoMoves DEF Place, Paying
  <2> QED
    BY <2>1, <2>2, RowMoves
<1>11. ASSUME NEW cl \in Call, Download(cl) PROVE RowFacts'
  <2>1. /\ pc[cl] = "finishing" /\ Go(cl, "booking")
        /\ UNCHANGED <<row, sent, cut, sold, presented>> /\ at[cl] \in sold
    BY <1>11 DEF Download, RowFacts, Carries
  <2>2. Moves(cl, "booking", at[cl])
    BY <2>1, PlaceMoves DEF Place, Paying
  <2> QED
    BY <2>1, <2>2, RowMoves
<1>12. ASSUME NEW cl \in Call, Book(cl) \/ Fetch(cl) PROVE RowFacts'
  <2>1. pc[cl] # "transferring" /\ Stop(cl) /\ UNCHANGED <<row, sent, cut, sold, presented>>
    BY <1>12 DEF Book, Fetch
  <2> QED
    BY <2>1, StopMoves, RowMoves
<1>13. ASSUME NEW cl \in Call, Collect(cl) PROVE RowFacts'
  <2>1. pc[cl] = "idle" /\ UNCHANGED <<row, sent, cut, sold>>
    BY <1>13 DEF Collect
  <2>2. CASE Owed # {} /\ GoWith(cl, "redeeming", Max(Owed)) /\ presented' = presented \cup {Max(Owed)}
    <3>1. Max(Owed) \in Quote /\ row[Max(Owed)] = "paid"
      BY <2>2, OwedType DEF Owed
    <3>2. Moves(cl, "redeeming", Max(Owed))
      BY <2>2, <3>1, GoMoves DEF Place, Collecting
    <3> QED
      BY <2>1, <2>2, <3>1, <3>2, RowMoves
  <2>3. CASE shown # {} /\ GoWith(cl, "fetching", Max(shown)) /\ UNCHANGED presented
    <3>1. Max(shown) \in Quote /\ Max(shown) \in sold
      BY <2>3, ShownType DEF BuyTypeOK
    <3>2. Moves(cl, "fetching", Max(shown))
      BY <2>3, <3>1, GoMoves DEF Place, Collecting
    <3> QED
      BY <2>1, <2>3, <3>1, <3>2, RowMoves
  <2> QED
    BY <1>13, <2>2, <2>3 DEF Collect
<1>14. ASSUME NEW q \in Quote, Execute(q) PROVE RowFacts'
  BY <1>14 DEF Execute, RowFacts, Carries, OneCarrier, RowsKnow, Traced
<1>15. ASSUME NEW q \in Quote, Settle(q) PROVE RowFacts'
  BY <1>15 DEF Settle, RowFacts, Carries, OneCarrier, RowsKnow, Traced
<1>16. ASSUME NEW q \in Quote, Show(q) \/ Expire(q) PROVE RowFacts'
  BY <1>16 DEF Show, Expire, RowFacts, Carries, OneCarrier, RowsKnow, Traced
<1>17. CASE ForgetBody
  BY <1>17 DEF ForgetBody, RowFacts, Carries, OneCarrier, RowsKnow, Traced
<1>18. CASE Crash
  <2>1. /\ pc' = [cl \in Call |-> "idle"] /\ UNCHANGED <<row, sent, sold, presented>>
        /\ cut' = cut \cup {at[cl] : cl \in {o \in Call : pc[o] = "transferring"}}
    BY <1>18 DEF Crash
  <2>2. Traced'
    <3> SUFFICES ASSUME NEW p \in Quote, row[p] = "quoted" \/ p \in sent
        PROVE  row[p] \in {"paid", "settled"} \/ p \in cut'
      BY <2>1 DEF Traced
    <3>1. CASE \E cl \in Call : pc[cl] = "transferring" /\ at[cl] = p
      BY <2>1, <3>1
    <3> QED
      BY <2>1, <3>1 DEF RowFacts, Traced
  <2>3. Carries' /\ OneCarrier'
    BY <2>1 DEF Carries, OneCarrier
  <2>4. RowsKnow'
    BY <2>1 DEF RowFacts, RowsKnow
  <2> QED
    BY <2>2, <2>3, <2>4 DEF RowFacts
<1>19. CASE UNCHANGED buyVars
  BY <1>19 DEF buyVars, RowFacts, Carries, OneCarrier, RowsKnow, Traced
<1> QED
  BY <1>1, <1>2, <1>3, <1>4, <1>5, <1>6, <1>7, <1>8, <1>9, <1>10, <1>11, <1>12, <1>13,
     <1>14, <1>15, <1>16, <1>17, <1>18, <1>19 DEF BuyNext

-----------------------------------------------------------------------------
(* One payment, while nothing goes wrong *)

\* The rows of payments that left this node, or are about to.
Committed == {q \in Quote : row[q] \in {"quoted", "paid", "settled"}}

\* One call at a time, one payment, and none when a quote is asked for.
OneAtATime == \A cl, o \in Call : pc[cl] # "idle" /\ pc[o] # "idle" => cl = o
OnePayment == \A p, q \in Committed : p = q
NoneBefore == (\E cl \in Call : pc[cl] = "asking") => Committed = {}

Clean == /\ cut # {} => mishap # {}
         /\ mishap = {} => OneAtATime /\ OnePayment /\ NoneBefore

\* A call under way goes on, and commits the node to nothing new.
LEMMA CleanMoves ==
  ASSUME Clean, NEW cl \in Call, NEW place, NEW q, Moves(cl, place, q), pc[cl] # "idle",
         Committed' \subseteq Committed, mishap \subseteq mishap', cut' = cut \/ mishap' # {},
         mishap' = {} /\ place = "asking" => Committed = {}
  PROVE  Clean'
<1>1. cut' # {} => mishap' # {}
  BY DEF Clean
<1>2. ASSUME mishap' = {} PROVE OneAtATime' /\ OnePayment' /\ NoneBefore'
  <2>1. OneAtATime /\ OnePayment /\ NoneBefore
    BY <1>2 DEF Clean
  <2>2. ASSUME NEW o \in Call
        PROVE  \/ o # cl /\ pc'[o] = pc[o]
               \/ o = cl /\ pc'[o] = place
    BY DEF Moves
  <2>3. OneAtATime'
    BY <2>1, <2>2 DEF OneAtATime
  <2>4. OnePayment'
    BY <2>1 DEF OnePayment
  <2>5. NoneBefore'
    BY <1>2, <2>1, <2>2 DEF NoneBefore
  <2> QED
    BY <2>3, <2>4, <2>5
<1> QED
  BY <1>1, <1>2 DEF Clean

\* A call that begins is alone, or the overlap is on record.
LEMMA CleanBegins ==
  ASSUME Clean, NEW cl \in Call, NEW place, NEW q, Moves(cl, place, q), place # "asking",
         UNCHANGED <<row, cut>>, mishap \cup Overlap(cl) \subseteq mishap'
  PROVE  Clean'
<1>1. cut' # {} => mishap' # {}
  BY DEF Clean
<1>2. ASSUME mishap' = {} PROVE OneAtATime' /\ OnePayment' /\ NoneBefore'
  <2>1. mishap = {} /\ Overlap(cl) = {}
    BY <1>2
  <2>2. OneAtATime /\ OnePayment /\ NoneBefore
    BY <2>1 DEF Clean
  <2>3. \A o \in Call : o # cl => pc'[o] = "idle"
    BY <2>1 DEF Overlap, Moves
  <2>4. Committed' = Committed
    BY DEF Committed
  <2>5. pc'[cl] = place
    BY DEF Moves
  <2> QED
    BY <2>2, <2>3, <2>4, <2>5 DEF OneAtATime, OnePayment, NoneBefore
<1> QED
  BY <1>1, <1>2 DEF Clean

\* The chain, the seller and time change none of it.
LEMMA CleanQuiet == ASSUME Clean, UNCHANGED <<row, cut, mishap, pc>> PROVE Clean'
BY DEF Clean, OneAtATime, OnePayment, NoneBefore, Committed

LEMMA CleanStep == BuyTypeOK /\ RowFacts /\ Clean /\ [BuyNext]_buyVars => Clean'
<1> SUFFICES ASSUME BuyTypeOK, RowFacts, Clean, [BuyNext]_buyVars PROVE Clean'
  OBVIOUS
<1> USE DEF ledger, goods
<1>0. row' = row => Committed' \subseteq Committed
  BY DEF Committed
<1>1. ASSUME NEW cl \in Call, NEW again \in {"no", "yes"}, Buy(cl, again) PROVE Clean'
  <2>1. /\ GoWith(cl, "pricing", NoQuote) /\ UNCHANGED <<row, cut>>
        /\ mishap \cup Overlap(cl) \subseteq mishap'
    BY <1>1 DEF Buy
  <2>2. Moves(cl, "pricing", NoQuote)
    BY <2>1, GoMoves DEF Place, Paying
  <2> QED
    BY <2>1, <2>2, CleanBegins
<1>2. ASSUME NEW cl \in Call, Recall(cl) PROVE Clean'
  <2>1. pc[cl] = "pricing" /\ pc[cl] # "idle" /\ row' = row /\ cut' = cut
    BY <1>2 DEF Recall
  <2>2. CASE Owed # {}
    <3>1. GoWith(cl, "recalling", Max(Owed)) /\ Max(Owed) \in Quote /\ mishap' = mishap
      BY <1>2, <2>2, OwedType DEF Recall
    <3>2. Moves(cl, "recalling", Max(Owed))
      BY <3>1, GoMoves DEF Place, Paying
    <3> QED
      BY <1>0, <2>1, <3>1, <3>2, CleanMoves
  <2>3. CASE Owed = {}
    <3>1. Moves(cl, "asking", at[cl])
      BY <1>2, <2>3, PlaceMoves DEF Recall, Place, Paying
    <3>2. mishap' = IF sold # {} /\ "again" \notin mishap THEN mishap \cup {"unseen"} ELSE mishap
      BY <1>2, <2>3 DEF Recall
    <3>3. mishap \subseteq mishap'
      BY <3>2
    <3>4. ASSUME mishap' = {} PROVE Committed = {}
      <4>1. mishap = {} /\ sold = {} /\ cut = {}
        BY <3>2, <3>4 DEF Clean
      <4>2. OneAtATime
        BY <4>1 DEF Clean
      <4>3. \A o \in Call : pc[o] # "transferring"
        BY <2>1, <4>2 DEF OneAtATime
      <4>4. \A p \in Quote : row[p] # "settled"
        BY <4>1 DEF RowFacts, RowsKnow
      <4>5. \A p \in Quote : row[p] # "paid"
        BY <2>3 DEF Owed
      <4>6. \A p \in Quote : row[p] # "quoted"
        BY <4>1, <4>3 DEF RowFacts, Traced
      <4> QED
        BY <4>4, <4>5, <4>6 DEF Committed
    <3> QED
      BY <1>0, <2>1, <3>1, <3>3, <3>4, CleanMoves
  <2> QED
    BY <2>2, <2>3
<1>3. ASSUME NEW cl \in Call, Quoted(cl) PROVE Clean'
  <2>1. pc[cl] = "asking" /\ UNCHANGED <<mishap, cut>>
    BY <1>3 DEF Quoted
  <2>2. PICK q \in Quote :
          \/ row' = [row EXCEPT ![q] = "quoted"] /\ GoWith(cl, "transferring", q)
          \/ row' = [row EXCEPT ![q] = "paid"] /\ GoWith(cl, "presenting", q)
    BY <1>3 DEF Quoted
  <2>3. Moves(cl, "transferring", q) \/ Moves(cl, "presenting", q)
    BY <2>2, GoMoves DEF Place, Paying
  <2>4. \A p \in Quote : p # q => row'[p] = row[p]
    BY <2>2 DEF BuyTypeOK
  <2>5. ASSUME mishap = {} PROVE OneAtATime' /\ OnePayment' /\ NoneBefore'
    <3>1. OneAtATime /\ Committed = {}
      BY <2>1, <2>5 DEF Clean, NoneBefore
    <3>2. \A o \in Call : o # cl => pc[o] = "idle" /\ pc'[o] = "idle"
      BY <2>1, <2>3, <3>1 DEF OneAtATime, Moves
    <3>3. pc'[cl] # "asking"
      BY <2>3 DEF Moves
    <3>4. \A p \in Committed' : p = q
      BY <2>4, <3>1 DEF Committed
    <3>5. OneAtATime' /\ NoneBefore'
      BY <3>2, <3>3 DEF OneAtATime, NoneBefore
    <3>6. OnePayment'
      BY <3>4 DEF OnePayment
    <3> QED
      BY <3>5, <3>6
  <2> QED
    BY <2>1, <2>5 DEF Clean
<1>4. ASSUME NEW cl \in Call, Overpriced(cl) PROVE Clean'
  <2>1. /\ pc[cl] = "asking" /\ pc[cl] # "idle" /\ Moves(cl, "idle", NoQuote)
        /\ cut' = cut /\ mishap' = mishap
    BY <1>4, StopMoves DEF Overpriced
  <2>2. Committed' \subseteq Committed
    <3>1. PICK q \in Quote : row' = [row EXCEPT ![q] = "abandoned"]
      BY <1>4 DEF Overpriced
    <3> QED
      BY <3>1 DEF Committed, BuyTypeOK
  <2> QED
    BY <2>1, <2>2, CleanMoves
<1>5. ASSUME NEW cl \in Call, Unreachable(cl) \/ NoBody(cl) PROVE Clean'
  <2>1. pc[cl] # "idle" /\ Moves(cl, "idle", NoQuote) /\ row' = row /\ cut' = cut /\ mishap' = mishap
    BY <1>5, StopMoves DEF Unreachable, NoBody
  <2> QED
    BY <1>0, <2>1, CleanMoves
<1>6. ASSUME NEW cl \in Call, Transferred(cl) PROVE Clean'
  <2>1. /\ pc[cl] = "transferring" /\ pc[cl] # "idle" /\ row' = [row EXCEPT ![at[cl]] = "paid"]
        /\ Moves(cl, "presenting", at[cl]) /\ cut' = cut /\ mishap' = mishap
    BY <1>6, PlaceMoves DEF Transferred, Place, Paying
  <2>2. Committed' \subseteq Committed
    BY <2>1, RowWritten DEF Committed
  <2> QED
    BY <2>1, <2>2, CleanMoves
<1>7. ASSUME NEW cl \in Call, NotTransferred(cl) PROVE Clean'
  <2>1. /\ pc[cl] = "transferring" /\ pc[cl] # "idle" /\ row' = [row EXCEPT ![at[cl]] = "abandoned"]
        /\ Moves(cl, "idle", NoQuote)
    BY <1>7, StopMoves DEF NotTransferred
  <2>2. mishap \subseteq mishap' /\ (cut' = cut \/ mishap' # {})
    BY <1>7 DEF NotTransferred
  <2>3. Committed' \subseteq Committed
    BY <2>1, RowWritten DEF Committed
  <2> QED
    BY <2>1, <2>2, <2>3, CleanMoves
<1>8. ASSUME NEW cl \in Call, Answered(cl) \/ Rejected(cl) PROVE Clean'
  <2>1. /\ pc[cl] \in {"presenting", "recalling", "redeeming"} /\ pc[cl] # "idle"
        /\ cut' = cut /\ mishap' = mishap
        /\ \/ row' = [row EXCEPT ![at[cl]] = "settled"]
           \/ row' = [row EXCEPT ![at[cl]] = "paid"]
    BY <1>8 DEF Answered, Rejected
  <2>2. Moves(cl, "finishing", at[cl]) \/ Moves(cl, "idle", NoQuote)
    BY <1>8, PlaceMoves, StopMoves DEF Answered, Rejected, Place, Paying
  <2>3. row[at[cl]] \in {"paid", "settled"} /\ at[cl] \in Quote
    BY <2>1 DEF RowFacts, Carries, RowsKnow, BuyTypeOK
  <2>4. Committed' \subseteq Committed
    BY <2>1, <2>3 DEF Committed, BuyTypeOK
  <2> QED
    BY <2>1, <2>2, <2>4, CleanMoves
<1>10. ASSUME NEW cl \in Call, RecallFails(cl) PROVE Clean'
  <2>1. /\ pc[cl] = "recalling" /\ pc[cl] # "idle" /\ GoWith(cl, "asking", NoQuote)
        /\ row' = row /\ cut' = cut /\ mishap' = mishap \cup {"unanswered"}
    BY <1>10 DEF RecallFails
  <2>2. Moves(cl, "asking", NoQuote)
    BY <2>1, GoMoves DEF Place, Paying
  <2>3. mishap \subseteq mishap' /\ mishap' # {}
    BY <2>1
  <2> QED
    BY <1>0, <2>1, <2>2, <2>3, CleanMoves
<1>11. ASSUME NEW cl \in Call, Download(cl) PROVE Clean'
  <2>1. /\ pc[cl] # "idle" /\ Moves(cl, "booking", at[cl]) /\ row' = row /\ cut' = cut
        /\ mishap' = mishap
    BY <1>11, PlaceMoves DEF Download, Place, Paying
  <2> QED
    BY <1>0, <2>1, CleanMoves
<1>12. ASSUME NEW cl \in Call, Book(cl) \/ Fetch(cl) PROVE Clean'
  <2>1. pc[cl] # "idle" /\ Moves(cl, "idle", NoQuote) /\ row' = row /\ cut' = cut /\ mishap' = mishap
    BY <1>12, StopMoves DEF Book, Fetch
  <2> QED
    BY <1>0, <2>1, CleanMoves
<1>13. ASSUME NEW cl \in Call, Collect(cl) PROVE Clean'
  <2>1. UNCHANGED <<row, cut>> /\ mishap \cup Overlap(cl) \subseteq mishap'
    BY <1>13 DEF Collect
  <2>2. CASE Owed # {} /\ GoWith(cl, "redeeming", Max(Owed))
    <3>1. Moves(cl, "redeeming", Max(Owed))
      BY <2>2, OwedType, GoMoves DEF Place, Collecting
    <3> QED
      BY <2>1, <3>1, CleanBegins
  <2>3. CASE shown # {} /\ GoWith(cl, "fetching", Max(shown))
    <3>1. Moves(cl, "fetching", Max(shown))
      BY <2>3, ShownType, GoMoves DEF Place, Collecting
    <3> QED
      BY <2>1, <3>1, CleanBegins
  <2> QED
    BY <1>13, <2>2, <2>3 DEF Collect
<1>14. ASSUME NEW q \in Quote, Execute(q) \/ Settle(q) \/ Show(q) \/ Expire(q) PROVE Clean'
  BY <1>14, CleanQuiet DEF Execute, Settle, Show, Expire
<1>15. CASE ForgetBody
  BY <1>15, CleanQuiet DEF ForgetBody
<1>16. CASE Crash
  <2> DEFINE left == {at[cl] : cl \in {o \in Call : pc[o] = "transferring"}}
  <2>1. /\ cut' = cut \cup left
        /\ mishap' = IF left # {} THEN mishap \cup {"cut"} ELSE mishap
        /\ row' = row /\ \A cl \in Call : pc'[cl] = "idle"
    BY <1>16 DEF Crash
  <2> HIDE DEF left
  <2>2. cut' # {} => mishap' # {}
    BY <2>1 DEF Clean
  <2>3. ASSUME mishap' = {} PROVE OnePayment
    <3>1. mishap = {}
      BY <2>1, <2>3
    <3> QED
      BY <3>1 DEF Clean
  <2>4. Committed' = Committed
    BY <2>1 DEF Committed
  <2> QED
    BY <2>1, <2>2, <2>3, <2>4 DEF Clean, OneAtATime, OnePayment, NoneBefore
<1>17. CASE UNCHANGED buyVars
  BY <1>17, CleanQuiet DEF buyVars
<1> QED
  BY <1>1, <1>2, <1>3, <1>4, <1>5, <1>6, <1>7, <1>8, <1>10, <1>11, <1>12, <1>13,
     <1>14, <1>15, <1>16, <1>17 DEF BuyNext

-----------------------------------------------------------------------------
BuyInv == BuyTypeOK /\ RowFacts /\ Clean

LEMMA BuyInvariant == BuySpec => []BuyInv
<1>1. BuyInit => BuyTypeOK
  BY PurchaseAssumption DEF PurchaseAssumption, BuyInit, BuyTypeOK
<1>2. BuyInit => RowFacts
  BY DEF BuyInit, RowFacts, Carries, OneCarrier, RowsKnow, Traced
<1>3. BuyInit => Clean
  BY DEF BuyInit, Clean, OneAtATime, OnePayment, NoneBefore, Committed
<1>4. BuyInv /\ [BuyNext]_buyVars => BuyInv'
  BY BuyTypedStep, RowStep, CleanStep DEF BuyInv
<1>5. BuyInit => BuyInv
  BY <1>1, <1>2, <1>3 DEF BuyInv
<1> QED
  BY <1>4, <1>5, PTL DEF BuySpec

\* Every reachable state of the buyer is well-typed.
THEOREM BuyTyping == BuySpec => []BuyTypeOK
<1>1. BuyInv => BuyTypeOK
  BY DEF BuyInv
<1> QED
  BY <1>1, BuyInvariant, PTL

\* Money that has moved is on record as paid or settled, or a call is about to write it
\* down, or the node never learnt of it: whatever overlaps and wherever the node stops.
THEOREM MoneyStaysOnRecord == BuySpec => []MoneyIsOnRecord
<1>1. BuyInv => MoneyIsOnRecord
  BY DEF BuyInv, BuyTypeOK, RowFacts, Traced, MoneyIsOnRecord
<1> QED
  BY <1>1, BuyInvariant, PTL

\* A row is settled, and a purchase booked, only for a payment the seller settled.
THEOREM SettledWasSold == BuySpec => []SettledIsSold
<1>1. BuyInv => SettledIsSold
  BY DEF BuyInv, BuyTypeOK, RowFacts, RowsKnow, SettledIsSold
<1> QED
  BY <1>1, BuyInvariant, PTL

\* The price is paid once (buyOne and quote, market.ts), unless one of five things has
\* happened: two calls overlapped, a caller asked to pay again, a payment that was not
\* answered was not taken a second time either, a call looked for the record of the sale
\* before the node had it, or the outcome of a transfer was lost.
THEOREM PaysOnce == BuySpec => []NeverPaidTwice
<1>1. BuyInv => NeverPaidTwice
  <2> SUFFICES ASSUME BuyInv, mishap = {} PROVE Cardinality(Charged) <= 1
    BY DEF NeverPaidTwice
  <2>1. cut = {} /\ OnePayment
    BY DEF BuyInv, Clean
  <2>2. sent \subseteq Committed
    BY <2>1 DEF BuyInv, BuyTypeOK, RowFacts, Traced, Carries, Committed
  <2>3. sold \subseteq Committed
    BY DEF BuyInv, BuyTypeOK, RowFacts, RowsKnow, Committed
  <2>4. Charged \subseteq Committed
    BY <2>2, <2>3 DEF Charged, BuyInv, BuyTypeOK
  <2>5. \A p, q \in Charged : p = q
    BY <2>1, <2>4 DEF OnePayment
  <2>6. Charged = {} \/ \E x : Charged = {x}
    BY <2>5
  <2>7. Cardinality(Charged) = 0 \/ Cardinality(Charged) = 1
    BY <2>6, FS_EmptySet, FS_Singleton
  <2> QED
    BY <2>7
<1> QED
  BY <1>1, BuyInvariant, PTL

-----------------------------------------------------------------------------
(* The watcher (DepositWatcher). *)

\* The bounds are numbers.
LEMMA Bounds ==
  /\ Len(Chains) \in Nat /\ MaxHead \in Nat /\ MaxFaults \in Nat /\ MaxRestarts \in Nat
  /\ MinSpan \in Nat /\ MaxSpan \in Nat
  /\ MinSpan > 0 /\ MaxSpan > 0
BY SpanAssumption DEF SpanAssumption

\* A refused range is never narrowed below the smallest span, nor widened.
LEMMA NarrowerWidth ==
  ASSUME NEW m \in Nat, NEW w \in Nat, w > m
  PROVE  Max({m, w \div 2}) \in m .. w
<1>1. w \div 2 \in Nat /\ w \div 2 <= w
  OBVIOUS
<1>2. \E x \in {m, w \div 2} : \A y \in {m, w \div 2} : x >= y
  BY <1>1
<1>3. /\ Max({m, w \div 2}) \in {m, w \div 2}
      /\ \A y \in {m, w \div 2} : Max({m, w \div 2}) >= y
  BY <1>2 DEF Max
<1> QED
  BY <1>1, <1>3

\* A pass that is left leaves nothing to credit and no range behind.
LEMMA LeaveType ==
  ASSUME WatchTypeOK, Leave
  PROVE  /\ phase' \in {"idle", "saving"} /\ turn' = 1 /\ credited' = 0
         /\ safe' = 0 /\ width' = 0 /\ todo' = {} /\ new' = 0
BY DEF Leave, Drop

\* The chain at which the pass is has a head, a finished block and a span.
LEMMA AtChain ==
  ASSUME WatchTypeOK, turn <= Len(Chains)
  PROVE  /\ c \in Chain
         /\ scanned[c] \in 0 .. MaxHead /\ head[c] \in 0 .. MaxHead /\ span[c] \in 1 .. MaxSpan
         /\ Confirmations[c] \in Nat /\ RpcWidth[c] \in Nat
<1>1. turn \in 1 .. Len(Chains)
  BY SpanAssumption DEF SpanAssumption, WatchTypeOK
<1>2. c \in Chain
  BY <1>1, SpanAssumption DEF SpanAssumption, c
<1> QED
  BY <1>2, SpanAssumption DEF SpanAssumption, WatchTypeOK

\* The last block of a range lies above the finished block when the range is
\* not empty, and never above the safe head.
LEMMA RangeEnd ==
  ASSUME WatchTypeOK, turn <= Len(Chains), scanned[c] < safe, width > 0
  PROVE  To \in scanned[c] + 1 .. safe
<1>1. scanned[c] \in Nat /\ width \in Nat /\ safe \in Nat
  BY AtChain, Bounds DEF WatchTypeOK
<1> QED
  BY <1>1 DEF To

\* In any case it is a block.
LEMMA RangeType == ASSUME WatchTypeOK, turn <= Len(Chains) PROVE To \in 0 .. MaxHead
<1>1. scanned[c] \in Nat /\ width \in Nat /\ safe \in 0 .. MaxHead /\ MaxHead \in Nat
  BY AtChain, Bounds DEF WatchTypeOK
<1> QED
  BY <1>1 DEF To

\* The safe head is as deep as the confirmations ask, when there is one.
LEMMA DeepEnough ==
  ASSUME WatchTypeOK, NEW x \in Chain
  PROVE  /\ Deep(x) \in 0 .. MaxHead
         /\ Deep(x) > 0 => Deep(x) + Confirmations[x] <= head[x]
<1>1. head[x] \in 0 .. MaxHead /\ Confirmations[x] \in Nat /\ MaxHead \in Nat
  BY SpanAssumption, Bounds DEF SpanAssumption, WatchTypeOK
<1> QED
  BY <1>1 DEF Deep

-----------------------------------------------------------------------------
(* Types *)

\* A pass that reads or credits a range is at a chain, and the range is not empty.
AtRange == phase \in {"reading", "crediting"} => turn <= Len(Chains) /\ width > 0

WatchTyped == WatchTypeOK /\ AtRange

\* A failure is counted within its bound, and leaves the pass.
LEMMA RaiseType ==
  ASSUME WatchTypeOK, NEW why, Raise(why)
  PROVE  /\ phase' \in {"idle", "saving"} /\ turn' = 1 /\ credited' = 0
         /\ safe' = 0 /\ width' = 0 /\ todo' = {} /\ new' = 0
         /\ faulty' = faulty /\ restarts' = restarts /\ faults' \in 0 .. MaxFaults
<1>1. Leave
  BY DEF Raise
<1>2. faults' \in 0 .. MaxFaults
  BY Bounds DEF Raise, WatchTypeOK
<1> QED
  BY <1>1, <1>2, LeaveType DEF Raise

\* A left pass is well-typed when the rest is untouched.
LEMMA LeftType ==
  ASSUME WatchTypeOK,
         phase' \in {"idle", "saving"}, turn' = 1, credited' = 0,
         safe' = 0, width' = 0, todo' = {}, new' = 0,
         UNCHANGED blocks, UNCHANGED mem, UNCHANGED files, UNCHANGED span, UNCHANGED lost,
         scanned' \in [Chain -> 0 .. MaxHead],
         faulty' = faulty, faults' \in 0 .. MaxFaults, UNCHANGED restarts
  PROVE  WatchTypeOK' /\ AtRange'
<1>1. turn' \in 1 .. Len(Chains) + 1 /\ safe' \in 0 .. MaxHead /\ width' \in 0 .. MaxSpan
      /\ new' \in Nat /\ credited' \in Nat
  BY Bounds
<1> QED
  BY <1>1 DEF WatchTypeOK, AtRange, blocks, files

\* The variables of the watcher keep their types.
LEMMA WatchTypedStep == WatchTyped /\ [WatchNext]_watchVars => WatchTyped'
<1> SUFFICES ASSUME WatchTypeOK, AtRange, [WatchNext]_watchVars PROVE WatchTypeOK' /\ AtRange'
  BY DEF WatchTyped
<1> USE DEF files, locals, pass, bounds, blocks
<1>1. ASSUME NEW x \in Chain, Grow(x) PROVE WatchTypeOK' /\ AtRange'
  <2>1. head' \in [Chain -> 0 .. MaxHead] /\ head[x] + 1 \in 0 .. MaxHead
    BY <1>1, Bounds DEF Grow, WatchTypeOK
  <2>2. blockOf' \in [Deposit -> 0 .. MaxHead]
    BY <1>1, <2>1 DEF Grow, WatchTypeOK
  <2> QED
    BY <1>1, <2>1, <2>2 DEF Grow, WatchTypeOK, AtRange
<1>2. ASSUME NEW d \in Deposit, Reorg(d) PROVE WatchTypeOK' /\ AtRange'
  <2>1. blockOf' \in [Deposit -> 0 .. MaxHead]
    BY <1>2, Bounds DEF Reorg, WatchTypeOK
  <2> QED
    BY <1>2, <2>1 DEF Reorg, WatchTypeOK, AtRange
<1>3. CASE Tick
  BY <1>3, Bounds DEF Tick, WatchTypeOK, AtRange
<1>4. CASE ReadHead
  <2>1. turn + 1 \in 1 .. Len(Chains) + 1 /\ turn <= Len(Chains)
    BY <1>4, Bounds DEF ReadHead, WatchTypeOK
  <2>2. Deep(c) \in 0 .. MaxHead /\ span[c] \in 1 .. MaxSpan
    BY <2>1, AtChain, DeepEnough
  <2>3. span[c] \in 0 .. MaxSpan /\ span[c] > 0
    BY <2>2, Bounds
  <2>4. CASE Deep(c) <= scanned[c]
    BY <1>4, <2>1, <2>4 DEF ReadHead, WatchTypeOK, AtRange
  <2>5. CASE ~(Deep(c) <= scanned[c])
    BY <1>4, <2>1, <2>2, <2>3, <2>5 DEF ReadHead, WatchTypeOK, AtRange
  <2> QED
    BY <2>4, <2>5
<1>5. CASE ReadLogs
  <2>1. turn <= Len(Chains) /\ width \in 1 .. MaxSpan
    BY <1>5 DEF ReadLogs, AtRange, WatchTypeOK
  <2>2. span' \in [Chain -> 1 .. MaxSpan] /\ todo' \in SUBSET Deposit
    BY <1>5, <2>1 DEF ReadLogs, WatchTypeOK
  <2>3. /\ phase' = "crediting" /\ turn' = turn /\ safe' = safe /\ width' = width /\ new' = new
        /\ UNCHANGED <<blocks, mem, scanned, files, credited, lost, bounds>>
    BY <1>5 DEF ReadLogs
  <2> QED
    BY <2>1, <2>2, <2>3, Bounds DEF WatchTypeOK, AtRange
<1>6. CASE Narrow
  <2>1. width' \in MinSpan .. width
    <3>1. width \in Nat /\ width > MinSpan /\ width' = Max({MinSpan, width \div 2})
      BY <1>6, Bounds DEF Narrow, WatchTypeOK
    <3> QED
      BY <3>1, NarrowerWidth, Bounds
  <2>2. width' \in 0 .. MaxSpan /\ width' > 0
    BY <2>1, Bounds DEF WatchTypeOK
  <2>3. faults' \in 0 .. MaxFaults
    BY <1>6, Bounds DEF Narrow, WatchTypeOK
  <2>4. /\ phase' = "reading" /\ turn' = turn /\ phase = "reading"
        /\ UNCHANGED <<blocks, mem, scanned, span, files, safe, todo, new, credited, lost,
                       faulty, restarts>>
    BY <1>6 DEF Narrow
  <2> QED
    BY <2>2, <2>3, <2>4, Bounds DEF WatchTypeOK, AtRange
<1>7. CASE CreditOne
  BY <1>7 DEF CreditOne, WatchTypeOK, AtRange
<1>8. CASE Persist
  <2>1. turn <= Len(Chains) /\ turn + 1 \in 1 .. Len(Chains) + 1
    BY <1>8, Bounds DEF Persist, AtRange, WatchTypeOK
  <2>2. To \in 0 .. MaxHead
    BY <2>1, RangeType
  <2>3. scanned' \in [Chain -> 0 .. MaxHead] /\ journal' \in [Chain -> 0 .. MaxHead]
    BY <1>8, <2>2 DEF Persist, WatchTypeOK
  <2>4. safe' \in 0 .. MaxHead /\ width' \in 0 .. MaxSpan /\ new' \in Nat /\ credited' \in Nat
        /\ todo' = {}
    BY <1>8, Bounds DEF Persist, Drop, WatchTypeOK
  <2> QED
    BY <1>8, <2>1, <2>3, <2>4 DEF Persist, WatchTypeOK, AtRange
<1>9. CASE Finish
  BY <1>9, LeaveType, LeftType DEF Finish, WatchTypeOK
<1>10. CASE Save
  BY <1>10 DEF Save, WatchTypeOK, AtRange
<1>11. CASE ReadHeadFails
  BY <1>11, RaiseType, LeftType DEF ReadHeadFails, WatchTypeOK
<1>12. CASE ReadLogsFails
  <2>1. CASE Raise("read")
    BY <1>12, <2>1, RaiseType, LeftType DEF ReadLogsFails, WatchTypeOK
  <2>2. CASE Leave /\ UNCHANGED bounds
    BY <1>12, <2>2, LeaveType, LeftType DEF ReadLogsFails, WatchTypeOK
  <2> QED
    BY <1>12, <2>1, <2>2 DEF ReadLogsFails
<1>13. CASE SharesFail
  BY <1>13, RaiseType, LeftType DEF SharesFail, WatchTypeOK
<1>14. CASE PersistFails
  <2>1. turn <= Len(Chains)
    BY <1>14 DEF PersistFails, AtRange
  <2>2. To \in 0 .. MaxHead
    BY <2>1, RangeType
  <2>3. scanned' \in [Chain -> 0 .. MaxHead]
    BY <1>14, <2>2 DEF PersistFails, WatchTypeOK
  <2>4. Raise("journal") /\ UNCHANGED <<blocks, mem, span, files, lost>>
    BY <1>14 DEF PersistFails
  <2>5. /\ phase' \in {"idle", "saving"} /\ turn' = 1 /\ credited' = 0
        /\ safe' = 0 /\ width' = 0 /\ todo' = {} /\ new' = 0
        /\ faulty' = faulty /\ restarts' = restarts /\ faults' \in 0 .. MaxFaults
    BY <2>4, RaiseType
  <2> QED
    BY <2>3, <2>4, <2>5, LeftType
<1>15. CASE SaveFails
  <2>1. faults' \in 0 .. MaxFaults
    BY <1>15, Bounds DEF SaveFails, WatchTypeOK
  <2> QED
    BY <1>15, <2>1 DEF SaveFails, WatchTypeOK, AtRange
<1>16. CASE WatcherRestarts
  <2>1. restarts' \in 0 .. MaxRestarts /\ span' \in [Chain -> 1 .. MaxSpan]
        /\ turn' \in 1 .. Len(Chains) + 1
    BY <1>16, Bounds DEF WatcherRestarts, WatchTypeOK
  <2>2. safe' \in 0 .. MaxHead /\ width' \in 0 .. MaxSpan /\ new' \in Nat /\ credited' \in Nat
        /\ todo' \in SUBSET Deposit
    BY <1>16, Bounds DEF WatcherRestarts, Drop
  <2>3. mem' \in SUBSET Deposit /\ disk' \in SUBSET mem' /\ lost' \in SUBSET Deposit
    BY <1>16 DEF WatcherRestarts, WatchTypeOK
  <2> QED
    BY <1>16, <2>1, <2>2, <2>3 DEF WatcherRestarts, WatchTypeOK, AtRange
<1>17. CASE UNCHANGED watchVars
  BY <1>17 DEF watchVars, WatchTypeOK, AtRange
<1> QED
  BY <1>1, <1>2, <1>3, <1>4, <1>5, <1>6, <1>7, <1>8, <1>9, <1>10, <1>11, <1>12, <1>13,
     <1>14, <1>15, <1>16, <1>17 DEF WatchNext, Scan

\* Every reachable state of the watcher is well-typed.
THEOREM WatchTyping == WatchSpec => []WatchTypeOK
<1>1. WatchInit => WatchTyped
  BY Bounds DEF WatchInit, WatchTypeOK, WatchTyped, AtRange
<1> QED
  BY <1>1, WatchTypedStep, PTL DEF WatchSpec, WatchTyped

-----------------------------------------------------------------------------
(* What a pass knows: what is behind it is finished, what it reads is deep      *)
(* enough.                                                                       *)

\* No chain is finished beyond the depth the confirmations ask, and the journal
\* is never ahead of the memory.
FinishedIsDeep ==
  \A x \in Chain :
    /\ journal[x] <= scanned[x]
    /\ scanned[x] > 0 => scanned[x] + Confirmations[x] <= head[x]

\* The range a pass reads ends above what is finished and at a safe block.
RangeIsDeep ==
  phase \in {"reading", "crediting"} =>
    scanned[c] < safe /\ safe + Confirmations[c] <= head[c]

DeepInv == FinishedIsDeep /\ RangeIsDeep

\* A step that moves no block and enters no range keeps both.
LEMMA DeepQuiet ==
  ASSUME DeepInv, head' = head, scanned' = scanned, journal' = journal,
         phase' \in {"reading", "crediting"} =>
           phase \in {"reading", "crediting"} /\ turn' = turn /\ safe' = safe
  PROVE  DeepInv'
<1>1. FinishedIsDeep'
  BY DEF DeepInv, FinishedIsDeep
<1>2. RangeIsDeep'
  BY DEF DeepInv, RangeIsDeep, c
<1> QED
  BY <1>1, <1>2 DEF DeepInv

\* The range that is finished ends at the safe head, above what was finished before.
LEMMA DeepMovedOn ==
  ASSUME WatchTyped, DeepInv, phase = "crediting",
         scanned' = [scanned EXCEPT ![c] = To], head' = head,
         journal' = journal \/ journal' = scanned',
         phase' \notin {"reading", "crediting"}
  PROVE  DeepInv'
<1>1. /\ turn <= Len(Chains) /\ width > 0 /\ scanned[c] < safe
      /\ safe + Confirmations[c] <= head[c]
  BY DEF WatchTyped, AtRange, DeepInv, RangeIsDeep
<1>2. To \in scanned[c] + 1 .. safe
  BY <1>1, RangeEnd DEF WatchTyped
<1>3. c \in Chain /\ scanned[c] \in Nat /\ safe \in Nat /\ Confirmations[c] \in Nat /\ head[c] \in Nat
  BY SMTT(30), <1>1, AtChain, Bounds DEF WatchTyped, WatchTypeOK
<1>4. scanned[c] < To /\ To + Confirmations[c] <= head[c] /\ To \in Nat
  BY <1>1, <1>2, <1>3
<1>5. scanned \in [Chain -> 0 .. MaxHead] /\ journal \in [Chain -> 0 .. MaxHead]
  BY DEF WatchTyped, WatchTypeOK
<1>6. ASSUME NEW x \in Chain
      PROVE  /\ journal'[x] <= scanned'[x]
             /\ scanned'[x] > 0 => scanned'[x] + Confirmations[x] <= head'[x]
  <2>1. journal[x] <= scanned[x] /\ (scanned[x] > 0 => scanned[x] + Confirmations[x] <= head[x])
    BY DEF DeepInv, FinishedIsDeep
  <2>2. journal[x] \in Nat /\ scanned[x] \in Nat
    BY <1>5, Bounds
  <2>3. CASE x = c
    <3>1. scanned'[c] = To /\ (journal'[c] = journal[c] \/ journal'[c] = To)
      BY <1>3, <1>5
    <3> QED
      BY <1>4, <2>1, <2>2, <2>3, <3>1
  <2>4. CASE x # c
    <3>1. scanned'[x] = scanned[x] /\ (journal'[x] = journal[x] \/ journal'[x] = scanned[x])
      BY <1>3, <1>5, <2>4
    <3> QED
      BY <2>1, <2>2, <3>1
  <2> QED
    BY <2>3, <2>4
<1> QED
  BY <1>6 DEF DeepInv, FinishedIsDeep, RangeIsDeep

\* A deeper chain keeps what is deep enough.
LEMMA DeepGrow ==
  ASSUME WatchTyped, DeepInv, NEW y \in Chain, Grow(y)
  PROVE  DeepInv'
<1>1. \A x \in Chain : head[x] \in Nat /\ head'[x] \in Nat /\ head[x] <= head'[x]
  BY Bounds DEF Grow, WatchTyped, WatchTypeOK
<1>2. \A x \in Chain : scanned[x] \in Nat /\ Confirmations[x] \in Nat
  BY Bounds, SpanAssumption DEF WatchTyped, WatchTypeOK, SpanAssumption
<1>3. /\ scanned' = scanned /\ journal' = journal /\ phase' = phase
      /\ turn' = turn /\ safe' = safe
  BY DEF Grow, files, pass, locals
<1>4. FinishedIsDeep'
  BY <1>1, <1>2, <1>3 DEF DeepInv, FinishedIsDeep
<1>5. RangeIsDeep'
  <2> SUFFICES ASSUME phase \in {"reading", "crediting"}
               PROVE  scanned[c] < safe /\ safe + Confirmations[c] <= head'[c]
    BY <1>3 DEF RangeIsDeep, c
  <2>1. c \in Chain /\ scanned[c] < safe /\ safe + Confirmations[c] <= head[c]
    BY AtChain DEF WatchTyped, AtRange, DeepInv, RangeIsDeep
  <2>2. safe \in Nat
    BY Bounds DEF WatchTyped, WatchTypeOK
  <2> QED
    BY <1>1, <1>2, <2>1, <2>2
<1> QED
  BY <1>4, <1>5 DEF DeepInv

LEMMA DeepStep == WatchTyped /\ DeepInv /\ [WatchNext]_watchVars => DeepInv'
<1> SUFFICES ASSUME WatchTyped, DeepInv, [WatchNext]_watchVars PROVE DeepInv'
  OBVIOUS
<1> USE DEF files, locals, pass, blocks
<1>1. ASSUME NEW x \in Chain, Grow(x) PROVE DeepInv'
  BY <1>1, DeepGrow
<1>2. ASSUME NEW d \in Deposit, Reorg(d) PROVE DeepInv'
  BY <1>2, DeepQuiet DEF Reorg
<1>3. CASE Tick
  BY <1>3, DeepQuiet DEF Tick
<1>4. CASE ReadHead
  <2>1. CASE Deep(c) <= scanned[c]
    BY <1>4, <2>1, DeepQuiet DEF ReadHead
  <2>2. CASE ~(Deep(c) <= scanned[c])
    <3>1. c \in Chain /\ scanned[c] \in Nat /\ Deep(c) \in Nat
          /\ (Deep(c) > 0 => Deep(c) + Confirmations[c] <= head[c])
      BY <1>4, AtChain, DeepEnough, Bounds DEF ReadHead, WatchTyped
    <3>2. scanned[c] < Deep(c) /\ Deep(c) + Confirmations[c] <= head[c]
      BY <2>2, <3>1
    <3>3. /\ safe' = Deep(c) /\ turn' = turn /\ head' = head /\ scanned' = scanned
          /\ journal' = journal
      BY <1>4, <2>2 DEF ReadHead
    <3>4. RangeIsDeep'
      BY <3>2, <3>3 DEF RangeIsDeep, c
    <3>5. FinishedIsDeep'
      BY <3>3 DEF DeepInv, FinishedIsDeep
    <3> QED
      BY <3>4, <3>5 DEF DeepInv
  <2> QED
    BY <2>1, <2>2
<1>5. CASE ReadLogs
  BY <1>5, DeepQuiet DEF ReadLogs
<1>6. CASE Narrow
  BY <1>6, DeepQuiet DEF Narrow
<1>7. CASE CreditOne
  BY <1>7, DeepQuiet DEF CreditOne
<1>8. CASE Persist
  <2>1. /\ phase = "crediting" /\ scanned' = [scanned EXCEPT ![c] = To] /\ head' = head
        /\ journal' = scanned' /\ phase' = "head"
    BY <1>8 DEF Persist
  <2> QED
    BY <2>1, DeepMovedOn
<1>9. CASE Finish
  BY <1>9, LeaveType, DeepQuiet DEF Finish, WatchTyped
<1>10. CASE Save
  BY <1>10, DeepQuiet DEF Save
<1>11. CASE ReadHeadFails
  BY <1>11, RaiseType, DeepQuiet DEF ReadHeadFails, WatchTyped
<1>12. CASE ReadLogsFails
  <2>1. CASE Raise("read")
    BY <1>12, <2>1, RaiseType, DeepQuiet DEF ReadLogsFails, WatchTyped
  <2>2. CASE Leave
    BY <1>12, <2>2, LeaveType, DeepQuiet DEF ReadLogsFails, WatchTyped
  <2> QED
    BY <1>12, <2>1, <2>2 DEF ReadLogsFails
<1>13. CASE SharesFail
  BY <1>13, RaiseType, DeepQuiet DEF SharesFail, WatchTyped
<1>14. CASE PersistFails
  <2>1. /\ phase = "crediting" /\ scanned' = [scanned EXCEPT ![c] = To] /\ head' = head
        /\ journal' = journal
    BY <1>14 DEF PersistFails
  <2>2. phase' \in {"idle", "saving"}
    BY <1>14, RaiseType DEF PersistFails, WatchTyped
  <2> QED
    BY <2>1, <2>2, DeepMovedOn
<1>15. CASE SaveFails
  BY <1>15, DeepQuiet DEF SaveFails
<1>16. CASE WatcherRestarts
  <2>1. /\ scanned' = journal /\ journal' = journal /\ head' = head /\ phase' = "idle"
    BY <1>16 DEF WatcherRestarts
  <2>2. \A x \in Chain : /\ scanned[x] \in Nat /\ journal[x] \in Nat
                         /\ head[x] \in Nat /\ Confirmations[x] \in Nat
    BY Bounds, SpanAssumption DEF WatchTyped, WatchTypeOK, SpanAssumption
  <2> QED
    BY <2>1, <2>2 DEF DeepInv, FinishedIsDeep, RangeIsDeep
<1>17. CASE UNCHANGED watchVars
  BY <1>17, DeepQuiet DEF watchVars
<1> QED
  BY <1>1, <1>2, <1>3, <1>4, <1>5, <1>6, <1>7, <1>8, <1>9, <1>10, <1>11, <1>12, <1>13,
     <1>14, <1>15, <1>16, <1>17 DEF WatchNext, Scan

-----------------------------------------------------------------------------
(* What is credited.                                                             *)

\* What was read of the range is credited or still to be credited, and it is final.
ReadIsKept ==
  /\ \A d \in todo : Final(d)
  /\ phase = "crediting" =>
       \A d \in Deposit :
         ChainOf[d] = c /\ blockOf[d] \in scanned[c] + 1 .. To => d \in mem \cup todo

CreditInv == ReadIsKept /\ FinishedIsCredited /\ OnlyFinalIsCredited

\* The numbers of a deposit and of its chain.
LEMMA DepositType ==
  ASSUME WatchTypeOK, NEW d \in Deposit
  PROVE  /\ ChainOf[d] \in Chain
         /\ blockOf[d] \in Nat /\ head[ChainOf[d]] \in Nat /\ Confirmations[ChainOf[d]] \in Nat
         /\ scanned[ChainOf[d]] \in Nat /\ journal[ChainOf[d]] \in Nat
<1>1. ChainOf[d] \in Chain
  BY DepositAssumption DEF DepositAssumption
<1> QED
  BY <1>1, SpanAssumption, Bounds DEF SpanAssumption, WatchTypeOK

\* A step that moves no block, credits nothing and enters no range keeps it.
LEMMA CreditQuiet ==
  ASSUME CreditInv, UNCHANGED <<head, blockOf, mem, scanned, lost>>,
         todo' \subseteq todo,
         phase' = "crediting" =>
           phase = "crediting" /\ todo' = todo /\ turn' = turn /\ safe' = safe /\ width' = width
  PROVE  CreditInv'
<1>1. ReadIsKept'
  BY DEF CreditInv, ReadIsKept, Final, To, c
<1>2. FinishedIsCredited' /\ OnlyFinalIsCredited'
  BY DEF CreditInv, FinishedIsCredited, OnlyFinalIsCredited, Final
<1> QED
  BY <1>1, <1>2 DEF CreditInv

\* Deposits enter above everything finished and read, and a final one stays final.
LEMMA CreditGrow ==
  ASSUME WatchTyped, DeepInv, CreditInv, NEW y \in Chain, Grow(y)
  PROVE  CreditInv'
<1>1. UNCHANGED <<mem, scanned, lost, todo, phase, turn, safe, width>>
  BY DEF Grow, pass, locals
<1>2. \A x \in Chain : head[x] \in Nat /\ head'[x] \in Nat /\ head[x] <= head'[x]
  BY Bounds DEF Grow, WatchTyped, WatchTypeOK
<1>3. ASSUME NEW d \in Deposit
      PROVE  \/ blockOf'[d] = blockOf[d]
             \/ /\ blockOf[d] = 0 /\ ChainOf[d] = y /\ blockOf'[d] = head[y] + 1
  BY DEF Grow, WatchTyped, WatchTypeOK
<1>4. ASSUME NEW d \in Deposit, Final(d) PROVE Final(d)'
  <2>1. ChainOf[d] \in Chain /\ blockOf[d] \in Nat /\ Confirmations[ChainOf[d]] \in Nat
    BY DepositType DEF WatchTyped
  <2>2. blockOf[d] > 0 /\ blockOf[d] + Confirmations[ChainOf[d]] <= head[ChainOf[d]]
    BY <1>4 DEF Final
  <2>3. blockOf'[d] = blockOf[d]
    BY <1>3, <2>2
  <2>4. blockOf[d] + Confirmations[ChainOf[d]] <= head'[ChainOf[d]]
    BY <1>2, <2>1, <2>2
  <2> QED
    BY <2>2, <2>3, <2>4 DEF Final
<1>5. ASSUME NEW d \in Deposit, blockOf'[d] # blockOf[d]
      PROVE  /\ ~(blockOf'[d] \in 1 .. scanned[ChainOf[d]])
             /\ phase = "crediting" /\ ChainOf[d] = c => ~(blockOf'[d] \in scanned[c] + 1 .. To)
  <2>1. /\ blockOf'[d] = head[y] + 1 /\ ChainOf[d] = y
    BY <1>3, <1>5
  <2>2. scanned[y] > 0 => scanned[y] + Confirmations[y] <= head[y]
    BY DEF DeepInv, FinishedIsDeep
  <2>3. scanned[y] \in Nat /\ Confirmations[y] \in Nat /\ head[y] \in Nat
    BY <2>1, DepositType DEF WatchTyped
  <2>4. ~(blockOf'[d] \in 1 .. scanned[y])
    BY <2>1, <2>2, <2>3
  <2>5. ASSUME phase = "crediting", y = c PROVE ~(blockOf'[d] \in scanned[c] + 1 .. To)
    <3>1. /\ turn <= Len(Chains) /\ width > 0 /\ scanned[c] < safe
          /\ safe + Confirmations[c] <= head[c]
      BY <2>5 DEF WatchTyped, AtRange, DeepInv, RangeIsDeep
    <3>2. To \in scanned[c] + 1 .. safe /\ safe \in Nat
      BY <3>1, RangeEnd, Bounds DEF WatchTyped, WatchTypeOK
    <3> QED
      BY <2>1, <2>3, <2>5, <3>1, <3>2
  <2> QED
    BY <2>1, <2>4, <2>5
<1>6. To' = To /\ c' = c
  BY <1>1 DEF To, c
<1>7. ReadIsKept'
  <2>1. \A d \in todo' : Final(d)'
    BY <1>1, <1>4 DEF CreditInv, ReadIsKept, WatchTyped, WatchTypeOK
  <2>2. ASSUME phase' = "crediting", NEW d \in Deposit, ChainOf[d] = c',
               blockOf'[d] \in scanned'[c'] + 1 .. To'
        PROVE  d \in mem' \cup todo'
    <3>1. blockOf'[d] = blockOf[d]
      BY <1>1, <1>5, <1>6, <2>2
    <3> QED
      BY <1>1, <1>6, <2>2, <3>1 DEF CreditInv, ReadIsKept
  <2> QED
    BY <2>1, <2>2 DEF ReadIsKept
<1>8. FinishedIsCredited'
  <2> SUFFICES ASSUME NEW d \in Deposit, blockOf'[d] \in 1 .. scanned[ChainOf[d]]
               PROVE  d \in mem \cup lost
    BY <1>1 DEF FinishedIsCredited
  <2>1. blockOf'[d] = blockOf[d]
    BY <1>5
  <2> QED
    BY <2>1 DEF CreditInv, FinishedIsCredited
<1>9. OnlyFinalIsCredited'
  BY <1>1, <1>4 DEF CreditInv, OnlyFinalIsCredited, WatchTyped, WatchTypeOK
<1> QED
  BY <1>7, <1>8, <1>9 DEF CreditInv

\* A reorganisation drops only what is neither credited nor to be credited.
LEMMA CreditReorg ==
  ASSUME WatchTyped, CreditInv, NEW e \in Deposit, Reorg(e)
  PROVE  CreditInv'
<1>1. UNCHANGED <<head, mem, scanned, lost, todo, phase, turn, safe, width>>
  BY DEF Reorg, pass, locals
<1>2. blockOf' = [blockOf EXCEPT ![e] = 0] /\ ~Final(e) /\ blockOf \in [Deposit -> 0 .. MaxHead]
  BY DEF Reorg, WatchTyped, WatchTypeOK
<1>3. ASSUME NEW d \in Deposit, Final(d) PROVE Final(d)'
  <2>1. blockOf'[d] = blockOf[d]
    BY <1>2, <1>3
  <2> QED
    BY <1>1, <1>3, <2>1 DEF Final
<1>4. To' = To /\ c' = c
  BY <1>1 DEF To, c
<1>5. \A d \in Deposit : blockOf'[d] = blockOf[d] \/ blockOf'[d] = 0
  BY <1>2
<1>6. ReadIsKept'
  <2>1. \A d \in todo' : Final(d)'
    BY <1>1, <1>3 DEF CreditInv, ReadIsKept, WatchTyped, WatchTypeOK
  <2>2. ASSUME phase' = "crediting", NEW d \in Deposit, ChainOf[d] = c',
               blockOf'[d] \in scanned'[c'] + 1 .. To'
        PROVE  d \in mem' \cup todo'
    <3>1. scanned[c] \in Nat
      BY <1>4, <2>2, DepositType DEF WatchTyped
    <3>2. blockOf'[d] = blockOf[d]
      BY <1>1, <1>4, <1>5, <2>2, <3>1
    <3> QED
      BY <1>1, <1>4, <2>2, <3>2 DEF CreditInv, ReadIsKept
  <2> QED
    BY <2>1, <2>2 DEF ReadIsKept
<1>7. FinishedIsCredited'
  BY <1>1, <1>5 DEF CreditInv, FinishedIsCredited
<1>8. OnlyFinalIsCredited'
  BY <1>1, <1>3 DEF CreditInv, OnlyFinalIsCredited, WatchTyped, WatchTypeOK
<1> QED
  BY <1>6, <1>7, <1>8 DEF CreditInv

\* A range may be finished when nothing of it is left to credit.
LEMMA CreditMovedOn ==
  ASSUME WatchTyped, CreditInv, phase = "crediting", todo = {},
         scanned' = [scanned EXCEPT ![c] = To], UNCHANGED <<head, blockOf, mem, lost>>,
         todo' = {}, phase' # "crediting"
  PROVE  CreditInv'
<1>1. ReadIsKept'
  BY DEF ReadIsKept
<1>2. OnlyFinalIsCredited'
  BY DEF CreditInv, OnlyFinalIsCredited, Final
<1>3. ASSUME NEW d \in Deposit, blockOf[d] \in 1 .. scanned'[ChainOf[d]]
      PROVE  d \in mem \cup lost
  <2>1. scanned \in [Chain -> 0 .. MaxHead] /\ ChainOf[d] \in Chain /\ blockOf[d] \in Nat
        /\ scanned[ChainOf[d]] \in Nat
    BY DepositType DEF WatchTyped, WatchTypeOK
  <2>2. CASE blockOf[d] \in 1 .. scanned[ChainOf[d]]
    BY <2>2 DEF CreditInv, FinishedIsCredited
  <2>3. CASE ~(blockOf[d] \in 1 .. scanned[ChainOf[d]])
    <3>1. ChainOf[d] = c /\ scanned'[c] = To
      BY <1>3, <2>1, <2>3
    <3>2. To \in Nat
      BY <3>1, RangeType, Bounds DEF WatchTyped, AtRange
    <3>3. blockOf[d] \in scanned[c] + 1 .. To
      BY <1>3, <2>1, <2>3, <3>1, <3>2
    <3> QED
      BY <3>1, <3>3 DEF CreditInv, ReadIsKept
  <2> QED
    BY <2>2, <2>3
<1>4. FinishedIsCredited'
  BY <1>3 DEF FinishedIsCredited
<1> QED
  BY <1>1, <1>2, <1>4 DEF CreditInv

\* What is read of a range is final, and all that it holds.
LEMMA CreditRead ==
  ASSUME WatchTyped, DeepInv, CreditInv, ReadLogs
  PROVE  CreditInv'
<1>1. /\ phase = "reading"
      /\ UNCHANGED <<head, blockOf, mem, scanned, lost, turn, safe, width>>
  BY DEF ReadLogs, blocks
<1>2. todo' = {d \in Deposit : ChainOf[d] = c /\ blockOf[d] \in scanned[c] + 1 .. To}
  BY DEF ReadLogs
<1>3. To' = To /\ c' = c
  BY <1>1 DEF To, c
<1>4. /\ turn <= Len(Chains) /\ width > 0 /\ scanned[c] < safe
      /\ safe + Confirmations[c] <= head[c]
  BY <1>1 DEF WatchTyped, AtRange, DeepInv, RangeIsDeep
<1>5. To \in scanned[c] + 1 .. safe
  BY <1>4, RangeEnd DEF WatchTyped
<1>6. ASSUME NEW d \in todo' PROVE Final(d)'
  <2>1. d \in Deposit /\ ChainOf[d] = c /\ blockOf[d] \in scanned[c] + 1 .. To
    BY <1>2, <1>6
  <2>2. /\ blockOf[d] \in Nat /\ scanned[c] \in Nat /\ Confirmations[c] \in Nat /\ head[c] \in Nat
    BY <2>1, DepositType DEF WatchTyped
  <2>3. safe \in Nat
    BY Bounds DEF WatchTyped, WatchTypeOK
  <2>4. blockOf[d] > 0 /\ blockOf[d] + Confirmations[c] <= head[c]
    BY <1>4, <1>5, <2>1, <2>2, <2>3
  <2> QED
    BY <1>1, <2>1, <2>4 DEF Final
<1>7. ReadIsKept'
  BY <1>1, <1>2, <1>3, <1>6 DEF ReadIsKept
<1>8. FinishedIsCredited' /\ OnlyFinalIsCredited'
  BY <1>1 DEF CreditInv, FinishedIsCredited, OnlyFinalIsCredited, Final
<1> QED
  BY <1>7, <1>8 DEF CreditInv

\* Crediting a transfer takes it from what is left to credit to what is credited.
LEMMA CreditCredit == ASSUME CreditInv, CreditOne PROVE CreditInv'
<1>1. UNCHANGED <<head, blockOf, scanned, lost, phase, turn, safe, width>>
  BY DEF CreditOne, blocks
<1>2. PICK e \in todo : mem' = mem \cup {e} /\ todo' = todo \ {e}
  BY DEF CreditOne
<1>3. To' = To /\ c' = c
  BY <1>1 DEF To, c
<1>4. \A d : Final(d)' <=> Final(d)
  BY <1>1 DEF Final
<1>5. ReadIsKept'
  <2>1. \A d \in todo' : Final(d)'
    BY <1>2, <1>4 DEF CreditInv, ReadIsKept
  <2>2. mem' \cup todo' = mem \cup todo
    BY <1>2
  <2> QED
    BY <1>1, <1>3, <2>1, <2>2 DEF CreditInv, ReadIsKept
<1>6. FinishedIsCredited'
  BY <1>1, <1>2 DEF CreditInv, FinishedIsCredited
<1>7. OnlyFinalIsCredited'
  BY <1>2, <1>4 DEF CreditInv, OnlyFinalIsCredited, ReadIsKept
<1> QED
  BY <1>5, <1>6, <1>7 DEF CreditInv

\* After a restart the finished blocks are those of the journal, and what the ledger
\* file had not is counted as lost.
LEMMA CreditRestart == ASSUME WatchTyped, DeepInv, CreditInv, WatcherRestarts PROVE CreditInv'
<1>1. /\ mem' = disk /\ scanned' = journal /\ todo' = {} /\ phase' = "idle"
      /\ lost' = lost \cup {d \in mem \ disk : blockOf[d] <= journal[ChainOf[d]]}
      /\ UNCHANGED <<head, blockOf>>
  BY DEF WatcherRestarts, Drop, blocks
<1>2. disk \subseteq mem
  BY DEF WatchTyped, WatchTypeOK
<1>3. ASSUME NEW d \in Deposit, blockOf[d] \in 1 .. journal[ChainOf[d]]
      PROVE  d \in disk \cup lost'
  <2>1. ChainOf[d] \in Chain /\ blockOf[d] \in Nat /\ journal[ChainOf[d]] \in Nat
        /\ scanned[ChainOf[d]] \in Nat
    BY DepositType DEF WatchTyped
  <2>2. journal[ChainOf[d]] <= scanned[ChainOf[d]]
    BY <2>1 DEF DeepInv, FinishedIsDeep
  <2>3. blockOf[d] \in 1 .. scanned[ChainOf[d]] /\ blockOf[d] <= journal[ChainOf[d]]
    BY <1>3, <2>1, <2>2
  <2> QED
    BY <1>1, <2>3 DEF CreditInv, FinishedIsCredited
<1>4. ReadIsKept'
  BY <1>1 DEF ReadIsKept
<1>5. FinishedIsCredited'
  BY <1>1, <1>3 DEF FinishedIsCredited
<1>6. OnlyFinalIsCredited'
  BY <1>1, <1>2 DEF CreditInv, OnlyFinalIsCredited, Final
<1> QED
  BY <1>4, <1>5, <1>6 DEF CreditInv

LEMMA CreditStep == WatchTyped /\ DeepInv /\ CreditInv /\ [WatchNext]_watchVars => CreditInv'
<1> SUFFICES ASSUME WatchTyped, DeepInv, CreditInv, [WatchNext]_watchVars PROVE CreditInv'
  OBVIOUS
<1> USE DEF files, locals, pass, blocks
<1>1. ASSUME NEW x \in Chain, Grow(x) PROVE CreditInv'
  BY <1>1, CreditGrow
<1>2. ASSUME NEW d \in Deposit, Reorg(d) PROVE CreditInv'
  BY <1>2, CreditReorg
<1>3. CASE Tick
  BY <1>3, CreditQuiet DEF Tick
<1>4. CASE ReadHead
  <2>1. phase = "head" /\ phase' # "crediting" /\ todo' = todo
        /\ UNCHANGED <<head, blockOf, mem, scanned, lost>>
    BY <1>4 DEF ReadHead
  <2> QED
    BY <2>1, CreditQuiet
<1>5. CASE ReadLogs
  BY <1>5, CreditRead
<1>6. CASE Narrow
  <2>1. phase' = "reading" /\ todo' = todo /\ UNCHANGED <<head, blockOf, mem, scanned, lost>>
    BY <1>6 DEF Narrow
  <2> QED
    BY <2>1, CreditQuiet
<1>7. CASE CreditOne
  BY <1>7, CreditCredit
<1>8. CASE Persist
  <2>1. /\ phase = "crediting" /\ todo = {} /\ scanned' = [scanned EXCEPT ![c] = To]
        /\ UNCHANGED <<head, blockOf, mem, lost>> /\ todo' = {} /\ phase' # "crediting"
    BY <1>8 DEF Persist, Drop
  <2> QED
    BY <2>1, CreditMovedOn
<1>9. CASE Finish
  BY <1>9, LeaveType, CreditQuiet DEF Finish, WatchTyped
<1>10. CASE Save
  BY <1>10, CreditQuiet DEF Save
<1>11. CASE ReadHeadFails
  BY <1>11, RaiseType, CreditQuiet DEF ReadHeadFails, WatchTyped
<1>12. CASE ReadLogsFails
  <2>1. CASE Raise("read")
    BY <1>12, <2>1, RaiseType, CreditQuiet DEF ReadLogsFails, WatchTyped
  <2>2. CASE Leave
    BY <1>12, <2>2, LeaveType, CreditQuiet DEF ReadLogsFails, WatchTyped
  <2> QED
    BY <1>12, <2>1, <2>2 DEF ReadLogsFails
<1>13. CASE SharesFail
  BY <1>13, RaiseType, CreditQuiet DEF SharesFail, WatchTyped
<1>14. CASE PersistFails
  <2>1. /\ phase = "crediting" /\ todo = {} /\ scanned' = [scanned EXCEPT ![c] = To]
        /\ UNCHANGED <<head, blockOf, mem, lost>>
    BY <1>14 DEF PersistFails
  <2>2. todo' = {} /\ phase' \in {"idle", "saving"}
    BY <1>14, RaiseType DEF PersistFails, WatchTyped
  <2> QED
    BY <2>1, <2>2, CreditMovedOn
<1>15. CASE SaveFails
  BY <1>15, CreditQuiet DEF SaveFails
<1>16. CASE WatcherRestarts
  BY <1>16, CreditRestart
<1>17. CASE UNCHANGED watchVars
  BY <1>17, CreditQuiet DEF watchVars
<1> QED
  BY <1>1, <1>2, <1>3, <1>4, <1>5, <1>6, <1>7, <1>8, <1>9, <1>10, <1>11, <1>12, <1>13,
     <1>14, <1>15, <1>16, <1>17 DEF WatchNext, Scan

-----------------------------------------------------------------------------
WatchInv == WatchTyped /\ DeepInv /\ CreditInv

LEMMA WatchInvariant == WatchSpec => []WatchInv
<1>1. WatchInit => WatchTyped
  BY Bounds DEF WatchInit, WatchTypeOK, WatchTyped, AtRange
<1>2. WatchInit => DeepInv
  BY DEF WatchInit, DeepInv, FinishedIsDeep, RangeIsDeep
<1>3. WatchInit => CreditInv
  BY DepositAssumption
     DEF DepositAssumption, WatchInit, CreditInv, ReadIsKept, FinishedIsCredited, OnlyFinalIsCredited
<1>4. WatchInit => WatchInv
  BY <1>1, <1>2, <1>3 DEF WatchInv
<1>5. WatchInv /\ [WatchNext]_watchVars => WatchInv'
  BY WatchTypedStep, DeepStep, CreditStep DEF WatchInv
<1> QED
  BY <1>4, <1>5, PTL DEF WatchSpec

\* The journal of finished blocks never runs past a deposit that is not credited, but for
\* what a restart lost of the ledger; whatever calls fail, and wherever the node stops.
THEOREM FinishedStaysCredited == WatchSpec => []FinishedIsCredited
<1>1. WatchInv => FinishedIsCredited
  BY DEF WatchInv, CreditInv
<1> QED
  BY <1>1, WatchInvariant, PTL

\* Nothing is credited that a reorganisation the confirmations allow could drop, in memory
\* or on disk.
THEOREM NeverTooEarly == WatchSpec => []OnlyFinalIsCredited
<1>1. WatchInv => OnlyFinalIsCredited
  BY DEF WatchInv, CreditInv
<1> QED
  BY <1>1, WatchInvariant, PTL

\* "Only ever advances": the journal of a chain never goes back, over restarts too.
THEOREM JournalAdvances == WatchSpec => [][\A x \in Chain : journal[x] <= journal'[x]]_watchVars
<1>1. ASSUME WatchInv, WatchInv', [WatchNext]_watchVars
      PROVE  \A x \in Chain : journal[x] <= journal'[x]
  <2>1. \A x \in Chain : journal[x] \in Nat /\ scanned[x] \in Nat /\ scanned'[x] \in Nat
    BY <1>1, Bounds DEF WatchInv, WatchTyped, WatchTypeOK
  <2>2. CASE Persist
    <3>1. phase = "crediting" /\ scanned' = [scanned EXCEPT ![c] = To] /\ journal' = scanned'
      BY <2>2 DEF Persist
    <3>2. turn <= Len(Chains) /\ width > 0 /\ scanned[c] < safe
      BY <1>1, <3>1 DEF WatchInv, WatchTyped, AtRange, DeepInv, RangeIsDeep
    <3>3. To \in scanned[c] + 1 .. safe /\ c \in Chain /\ safe \in Nat
      <4>1. WatchTypeOK
        BY <1>1 DEF WatchInv, WatchTyped
      <4>2. safe \in Nat
        BY <4>1, Bounds DEF WatchTypeOK
      <4> QED
        BY <3>2, <4>1, <4>2, RangeEnd, AtChain
    <3>4. scanned \in [Chain -> 0 .. MaxHead]
      BY <1>1 DEF WatchInv, WatchTyped, WatchTypeOK
    <3>5. \A x \in Chain : scanned[x] <= scanned'[x]
      BY <2>1, <3>1, <3>3, <3>4
    <3> QED
      BY <1>1, <2>1, <3>1, <3>5 DEF WatchInv, DeepInv, FinishedIsDeep
  <2>3. CASE ~Persist
    <3>1. journal' = journal
      BY <1>1, <2>3
         DEF WatchNext, Scan, watchVars, files, Grow, Reorg, Tick, ReadHead, ReadLogs, Narrow,
             CreditOne, Finish, Save, ReadHeadFails, ReadLogsFails, SharesFail, PersistFails,
             SaveFails, WatcherRestarts
    <3> QED
      BY <2>1, <3>1
  <2> QED
    BY <2>2, <2>3
<1> QED
  BY <1>1, WatchInvariant, PTL DEF WatchSpec

-----------------------------------------------------------------------------
(* The queue (StakeQueue). *)

Places == {"new", "polling", "busy", "waiting", "leasing", "running", "done"}

QueueTyped ==
  /\ line \in Lines /\ staked \in BOOLEAN
  /\ st \in [Req -> Places]
  /\ seq \in [Req -> Nat] /\ tag \in [Req -> Nat]
  /\ last \in [Caller -> Nat] /\ virtualTime \in Nat
  /\ fresh \in SUBSET Req /\ passed \in [Req -> SUBSET Req]

\* The facts below are about requests at places s, with tags t and numbers n, so that
\* they also speak of the middle of a step: after a request came or left, before the pump.

\* Those who wait have different numbers.
Numbered(s, n) ==
  \A r, o \in Req : s[r] = "waiting" /\ s[o] = "waiting" /\ r # o => n[r] # n[o]

\* No queue runs more than it has slots for, and none with a free slot lets one wait.
Loaded(s, q) ==
  /\ Cardinality(Active(s, q)) <= Slots[q]
  /\ Waiting(s, q) # {} => Cardinality(Active(s, q)) = Slots[q]

\* The same before the pump: one request may start, no two.
Startable(s, q) ==
  /\ Cardinality(Active(s, q)) <= Slots[q]
  /\ \A r, o \in Waiting(s, q) : r # o => Cardinality(Active(s, q)) + 1 >= Slots[q]

-----------------------------------------------------------------------------
(* Types *)

LEMMA RequestTypes ==
  /\ IsFiniteSet(Req)
  /\ \A r \in Req : Work[r] \in Nat /\ Work[r] > 0 /\ CallerOf[r] \in Caller
  /\ \A q \in Queue : Slots[q] \in Nat /\ Slots[q] > 0
  /\ line \in Lines => \A r \in Req : line[r].queue \in Queue /\ line[r].priority \in Nat
<1>1. IsFiniteSet(Req) /\ \A r \in Req : Work[r] \in Nat /\ Work[r] > 0 /\ CallerOf[r] \in Caller
  BY RequestAssumption DEF RequestAssumption, Caller
<1>2. \A q \in Queue : Slots[q] \in Nat /\ Slots[q] > 0
  BY QueueAssumption DEF QueueAssumption
<1>3. line \in Lines => \A r \in Req : line[r].queue \in Queue /\ line[r].priority \in Nat
  BY LineAssumption DEF LineAssumption
<1> QED
  BY <1>1, <1>2, <1>3

LEMMA SetsAreFinite ==
  \A s, q : /\ IsFiniteSet(Waiting(s, q)) /\ Waiting(s, q) \subseteq Req
            /\ IsFiniteSet(Active(s, q)) /\ Active(s, q) \subseteq Req
            /\ Cardinality(Active(s, q)) \in Nat
<1> TAKE s, q
<1>1. Waiting(s, q) \in SUBSET Req /\ Active(s, q) \in SUBSET Req
  BY DEF Waiting, Active
<1>2. IsFiniteSet(Waiting(s, q)) /\ IsFiniteSet(Active(s, q))
  BY <1>1, RequestTypes, FS_Subset
<1> QED
  BY <1>1, <1>2, FS_CardinalityType

-----------------------------------------------------------------------------
(* Who is first *)

\* take orders those who wait: by class, virtual finish time and arrival.
LEMMA BeforeIsOrder ==
  ASSUME line \in Lines, NEW s, NEW t \in [Req -> Nat], NEW n \in [Req -> Nat], Numbered(s, n),
         NEW a \in Req, NEW b \in Req, NEW d \in Req,
         s[a] = "waiting", s[b] = "waiting", s[d] = "waiting"
  PROVE  /\ a # b => Before(a, b, t, n) \/ Before(b, a, t, n)
         /\ ~ (Before(a, b, t, n) /\ Before(b, a, t, n))
         /\ Before(a, b, t, n) /\ Before(b, d, t, n) => Before(a, d, t, n)
<1>1. /\ line[a].priority \in Nat /\ line[b].priority \in Nat /\ line[d].priority \in Nat
      /\ t[a] \in Nat /\ t[b] \in Nat /\ t[d] \in Nat
      /\ n[a] \in Nat /\ n[b] \in Nat /\ n[d] \in Nat
  BY RequestTypes
<1>2. a # b => n[a] # n[b]
  BY DEF Numbered
<1>3. a # b => Before(a, b, t, n) \/ Before(b, a, t, n)
  BY <1>1, <1>2 DEF Before
<1>4. ~ (Before(a, b, t, n) /\ Before(b, a, t, n))
  BY <1>1 DEF Before
<1>5. Before(a, b, t, n) /\ Before(b, d, t, n) => Before(a, d, t, n)
  BY <1>1 DEF Before
<1> QED
  BY <1>3, <1>4, <1>5

\* Of those who wait, one is first.
LEMMA OneIsFirst ==
  ASSUME line \in Lines, NEW s, NEW t \in [Req -> Nat], NEW n \in [Req -> Nat], Numbered(s, n),
         NEW q, Waiting(s, q) # {}
  PROVE  \E b \in Waiting(s, q) :
           /\ First(Waiting(s, q), t, n) = {b}
           /\ \A o \in Waiting(s, q) \ {b} : Before(b, o, t, n)
<1> DEFINE W == Waiting(s, q)
           Good == {T \in SUBSET W : T # {} => \E b \in T : \A o \in T \ {b} : Before(b, o, t, n)}
<1>1. \A r \in W : r \in Req /\ s[r] = "waiting"
  BY DEF Waiting
<1>2. ASSUME NEW T \in SUBSET W, \A x \in T : T \ {x} \in Good PROVE T \in Good
  <2> SUFFICES ASSUME T # {} PROVE \E b \in T : \A o \in T \ {b} : Before(b, o, t, n)
    OBVIOUS
  <2>1. PICK z \in T : TRUE
    OBVIOUS
  <2>2. CASE T \ {z} = {}
    BY <2>1, <2>2
  <2>3. CASE T \ {z} # {}
    <3>1. PICK b \in T \ {z} : \A o \in (T \ {z}) \ {b} : Before(b, o, t, n)
      BY <1>2, <2>3
    <3>2. b # z /\ b \in W /\ z \in W
      BY <3>1
    <3>3. Before(b, z, t, n) \/ Before(z, b, t, n)
      BY <1>1, <3>2, BeforeIsOrder
    <3>4. CASE Before(b, z, t, n)
      <4>1. \A o \in T \ {b} : Before(b, o, t, n)
        BY <3>1, <3>4
      <4> QED
        BY <4>1
    <3>5. CASE Before(z, b, t, n)
      <4>1. ASSUME NEW o \in T \ {z} PROVE Before(z, o, t, n)
        <5>1. CASE o = b
          BY <3>5, <5>1
        <5>2. CASE o # b
          <6>1. Before(b, o, t, n) /\ o \in W
            BY <3>1, <5>2
          <6> QED
            BY <1>1, <3>2, <3>5, <6>1, BeforeIsOrder
        <5> QED
          BY <5>1, <5>2
      <4> QED
        BY <2>1, <4>1
    <3> QED
      BY <3>3, <3>4, <3>5
  <2> QED
    BY <2>2, <2>3
<1>3. IsFiniteSet(W)
  BY SetsAreFinite
<1>4. \A T \in SUBSET W : T \in Good
  <2> HIDE DEF Good, W
  <2> QED
    BY <1>2, <1>3, SmallerSets
<1>5. PICK b \in W : \A o \in W \ {b} : Before(b, o, t, n)
  <2>1. W \in Good
    BY <1>4
  <2> QED
    BY <2>1
<1>6. ASSUME NEW x \in First(W, t, n) PROVE x = b
  <2>1. x \in W /\ (b # x => Before(x, b, t, n))
    BY <1>6 DEF First
  <2> QED
    BY <1>1, <1>5, <2>1, BeforeIsOrder
<1>7. b \in First(W, t, n)
  BY <1>5 DEF First
<1> QED
  BY <1>5, <1>6, <1>7

-----------------------------------------------------------------------------
(* What the pump does: nothing, or it starts the first *)

PumpsNone(s, f, q) ==
  /\ Waiting(s, q) = {} \/ ~ (Cardinality(Active(s, q)) < Slots[q])
  /\ st' = s /\ fresh' = f /\ passed' = passed /\ virtualTime' = virtualTime

PumpsOne(s, t, n, f, q, b) ==
  /\ b \in Waiting(s, q) /\ Cardinality(Active(s, q)) < Slots[q]
  /\ \A o \in Waiting(s, q) \ {b} : Before(b, o, t, n)
  /\ st'[b] \in Running /\ \A r \in Req \ {b} : st'[r] = s[r]
  /\ fresh' = f \ {b}
  /\ virtualTime' = IF staked THEN t[b] ELSE virtualTime
  /\ passed'[b] = {}
  /\ \A r \in Req \ {b} : passed'[r] = IF r \in Waiting(s, q) THEN passed[r] \cup {b} ELSE passed[r]

LEMMA MaxOfOne == ASSUME NEW i \in Nat PROVE Max({i}) = i
<1>1. \E x \in {i} : \A y \in {i} : x >= y
  OBVIOUS
<1> QED
  BY <1>1 DEF Max

LEMMA PumpCases ==
  ASSUME line \in Lines, passed \in [Req -> SUBSET Req],
         NEW s \in [Req -> Places], NEW t \in [Req -> Nat], NEW n \in [Req -> Nat],
         NEW f \in SUBSET Req, NEW q \in Queue, Numbered(s, n), Pump(s, t, n, f, q)
  PROVE  /\ PumpsNone(s, f, q) \/ \E b \in Req : PumpsOne(s, t, n, f, q, b)
         /\ st' \in [Req -> Places] /\ fresh' \in SUBSET Req /\ passed' \in [Req -> SUBSET Req]
<1> DEFINE W == Waiting(s, q)
           starts == IF Cardinality(Active(s, q)) < Slots[q] THEN First(W, t, n) ELSE {}
<1>1. /\ st' = [r \in Req |-> IF r \notin starts THEN s[r]
                              ELSE IF q \in Leased THEN "leasing" ELSE "running"]
      /\ Advance(t, starts)
      /\ fresh' = f \ starts
      /\ passed' = [r \in Req |->
                      IF r \in starts THEN {}
                      ELSE IF r \in W THEN passed[r] \cup starts ELSE passed[r]]
  BY DEF Pump
<1>2. starts \subseteq W /\ W \subseteq Req
  BY SetsAreFinite DEF First
<1>3. CASE W = {} \/ ~ (Cardinality(Active(s, q)) < Slots[q])
  <2>1. starts = {}
    BY <1>2, <1>3
  <2> HIDE DEF starts
  <2>2. st' = s /\ fresh' = f /\ virtualTime' = virtualTime
    BY <1>1, <2>1 DEF Advance
  <2>3. passed' = passed
    BY <1>1, <2>1
  <2>4. PumpsNone(s, f, q)
    BY <1>3, <2>2, <2>3 DEF PumpsNone
  <2> QED
    BY <2>2, <2>3, <2>4
<1>4. CASE W # {} /\ Cardinality(Active(s, q)) < Slots[q]
  <2>1. PICK b \in W : First(W, t, n) = {b} /\ \A o \in W \ {b} : Before(b, o, t, n)
    BY <1>4, OneIsFirst
  <2>2. starts = {b} /\ b \in Req
    BY <1>2, <1>4, <2>1
  <2> HIDE DEF starts, W
  <2>3. virtualTime' = IF staked THEN t[b] ELSE virtualTime
    <3>1. {t[r] : r \in starts} = {t[b]} /\ starts # {}
      BY <2>2
    <3> QED
      BY <1>1, <2>2, <3>1, MaxOfOne DEF Advance
  <2>4. st'[b] \in Running /\ \A r \in Req \ {b} : st'[r] = s[r]
    BY <1>1, <2>2 DEF Running
  <2>5. /\ fresh' = f \ {b} /\ passed'[b] = {}
        /\ \A r \in Req \ {b} : passed'[r] = IF r \in W THEN passed[r] \cup {b} ELSE passed[r]
    BY <1>1, <2>2
  <2>6. PumpsOne(s, t, n, f, q, b)
    BY <1>4, <2>1, <2>3, <2>4, <2>5 DEF PumpsOne, W
  <2>7. st' \in [Req -> Places] /\ fresh' \in SUBSET Req /\ passed' \in [Req -> SUBSET Req]
    BY <1>1, <2>2 DEF Places
  <2> QED
    BY <2>2, <2>6, <2>7
<1> QED
  BY <1>3, <1>4

\* The other queues are left alone.
LEMMA PumpLeaves ==
  ASSUME NEW s, NEW t, NEW n, NEW f, NEW q, NEW b \in Req, PumpsOne(s, t, n, f, q, b)
  PROVE  /\ Waiting(st', q) = Waiting(s, q) \ {b}
         /\ Active(st', q) = Active(s, q) \cup {b} /\ b \notin Active(s, q)
         /\ \A p : p # q => Waiting(st', p) = Waiting(s, p) /\ Active(st', p) = Active(s, p)
<1>1. /\ line[b].queue = q /\ s[b] = "waiting"
      /\ st'[b] \in Running /\ \A r \in Req \ {b} : st'[r] = s[r]
  BY DEF PumpsOne, Waiting
<1>2. st'[b] # "waiting" /\ s[b] \notin Running
  BY <1>1 DEF Running
<1> QED
  BY <1>1, <1>2 DEF Waiting, Active

\* The pump fills the slots.
LEMMA PumpLoads ==
  ASSUME line \in Lines, NEW s, NEW t, NEW n, NEW f, NEW q \in Queue,
         Startable(s, q), \A p \in Queue \ {q} : Loaded(s, p),
         PumpsNone(s, f, q) \/ \E b \in Req : PumpsOne(s, t, n, f, q, b)
  PROVE  \A p \in Queue : Loaded(st', p)
<1>1. Slots[q] \in Nat /\ Cardinality(Active(s, q)) \in Nat /\ IsFiniteSet(Active(s, q))
  BY RequestTypes, SetsAreFinite
<1>2. CASE PumpsNone(s, f, q)
  <2>1. st' = s /\ (Waiting(s, q) = {} \/ ~ (Cardinality(Active(s, q)) < Slots[q]))
    BY <1>2 DEF PumpsNone
  <2>2. Loaded(s, q)
    BY <1>1, <2>1 DEF Startable, Loaded
  <2> QED
    BY <2>1, <2>2
<1>3. ASSUME NEW b \in Req, PumpsOne(s, t, n, f, q, b) PROVE \A p \in Queue : Loaded(st', p)
  <2>1. \A p \in Queue \ {q} : Loaded(st', p)
    BY <1>3, PumpLeaves DEF Loaded
  <2>2. Cardinality(Active(st', q)) = Cardinality(Active(s, q)) + 1
    BY <1>1, <1>3, PumpLeaves, FS_AddElement
  <2>3. Cardinality(Active(s, q)) < Slots[q] /\ b \in Waiting(s, q)
    BY <1>3 DEF PumpsOne
  <2>4. Waiting(st', q) # {} => Cardinality(Active(s, q)) + 1 >= Slots[q]
    BY <1>3, <2>3, PumpLeaves DEF Startable
  <2>5. Loaded(st', q)
    BY <1>1, <2>2, <2>3, <2>4 DEF Loaded
  <2> QED
    BY <2>1, <2>5
<1> QED
  BY <1>2, <1>3

-----------------------------------------------------------------------------
(* A request comes *)

\* Enter without its pump: the request waits, with the newest number and its tag.
Admits(r, s, f) ==
  /\ s = [st EXCEPT ![r] = "waiting"]
  /\ f = fresh \cup {o \in {r} : last[CallerOf[o]] <= virtualTime}
  /\ seq' = [seq EXCEPT ![r] = Max({seq[o] : o \in Req}) + 1]
  /\ tag' = Tagged(r)
  /\ last' = IF staked THEN [last EXCEPT ![CallerOf[r]] = tag'[r]] ELSE last
  /\ UNCHANGED <<line, staked>>

LEMMA EnterParts ==
  ASSUME NEW r \in Req, Enter(r)
  PROVE  \E s, f : Admits(r, s, f) /\ Pump(s, tag', seq', f, line[r].queue)
<1> DEFINE s == [st EXCEPT ![r] = "waiting"]
           f == fresh \cup {o \in {r} : last[CallerOf[o]] <= virtualTime}
<1>1. Pump(s, tag', seq', f, line[r].queue)
  BY DEF Enter
<1>2. Admits(r, s, f)
  BY DEF Enter, Admits
<1> QED
  BY <1>1, <1>2

\* The start of a request: the clock, or the end of its caller's last.
LEMMA StartType ==
  ASSUME QueueTyped, NEW a \in Caller
  PROVE  /\ StartTag(a) \in Nat /\ virtualTime <= StartTag(a) /\ last[a] <= StartTag(a)
         /\ last[a] <= virtualTime => StartTag(a) = virtualTime
<1>1. virtualTime \in Nat /\ last[a] \in Nat
  BY DEF QueueTyped
<1> DEFINE P == {virtualTime, last[a]}
<1>2. \E x \in P : \A y \in P : x >= y
  BY <1>1
<1>3. Max(P) \in P /\ \A y \in P : Max(P) >= y
  BY <1>2 DEF Max
<1> QED
  BY <1>1, <1>3 DEF StartTag

LEMMA AdmitsTyped ==
  ASSUME QueueTyped, NEW r \in Req, NEW s, NEW f, Admits(r, s, f), st[r] # "waiting",
         Numbered(st, seq)
  PROVE  /\ s \in [Req -> Places] /\ f \in SUBSET Req
         /\ seq' \in [Req -> Nat] /\ tag' \in [Req -> Nat] /\ last' \in [Caller -> Nat]
         /\ Numbered(s, seq')
<1>1. s \in [Req -> Places]
  BY DEF Admits, QueueTyped, Places
<1>2. f \in SUBSET Req
  BY DEF Admits, QueueTyped
<1> DEFINE top == Max({seq[o] : o \in Req})
<1>3. top \in Nat /\ \A o \in Req : seq[o] <= top
  BY Largest, RequestTypes DEF QueueTyped
<1>4. seq' = [seq EXCEPT ![r] = top + 1]
  BY DEF Admits
<1> HIDE DEF top
<1>5. seq' \in [Req -> Nat]
  BY <1>3, <1>4 DEF QueueTyped
<1>6. tag' \in [Req -> Nat]
  <2>1. StartTag(CallerOf[r]) \in Nat /\ Work[r] \in Nat
    BY StartType, RequestTypes
  <2>2. StartTag(CallerOf[r]) + Work[r] \in Nat
    BY <2>1
  <2> QED
    BY <2>2 DEF Admits, Tagged, QueueTyped
<1>7. last' \in [Caller -> Nat]
  <2>1. tag'[r] \in Nat
    BY <1>6
  <2> QED
    BY <2>1, RequestTypes DEF Admits, QueueTyped
<1>8. Numbered(s, seq')
  <2>1. seq'[r] = top + 1 /\ \A o \in Req : o # r => seq'[o] = seq[o]
    BY <1>4 DEF QueueTyped
  <2>2. \A o \in Req : seq[o] \in Nat /\ seq[o] <= top
    BY <1>3 DEF QueueTyped
  <2>3. \A o \in Req : o # r => s[o] = st[o]
    BY DEF Admits, QueueTyped
  <2>4. \A o \in Req : o # r => seq'[o] # seq'[r]
    BY <1>3, <2>1, <2>2
  <2> QED
    BY <2>1, <2>3, <2>4 DEF Numbered
<1> QED
  BY <1>1, <1>2, <1>5, <1>6, <1>7, <1>8

\* One more waits, and the slots were full if others did.
LEMMA AdmitsStartable ==
  ASSUME QueueTyped, NEW r \in Req, NEW s, NEW f, Admits(r, s, f),
         st[r] \in {"new", "polling"}, \A p \in Queue : Loaded(st, p)
  PROVE  Startable(s, line[r].queue) /\ \A p \in Queue \ {line[r].queue} : Loaded(s, p)
<1> DEFINE q == line[r].queue
<1>1. q \in Queue /\ Slots[q] \in Nat
  BY RequestTypes DEF QueueTyped
<1>2. s[r] = "waiting" /\ \A o \in Req : o # r => s[o] = st[o]
  BY DEF Admits, QueueTyped
<1>3. \A p : Active(s, p) = Active(st, p)
  BY <1>2 DEF Active, Running
<1>4. \A p : p # q => Waiting(s, p) = Waiting(st, p)
  BY <1>2 DEF Waiting
<1>5. Waiting(s, q) = Waiting(st, q) \cup {r}
  BY <1>2 DEF Waiting
<1>6. Startable(s, q)
  <2>1. Waiting(st, q) # {} => Cardinality(Active(s, q)) = Slots[q]
    BY <1>1, <1>3 DEF Loaded
  <2>2. Waiting(st, q) = {} => \A a, b \in Waiting(s, q) : a = b
    BY <1>5
  <2>3. Cardinality(Active(s, q)) <= Slots[q]
    BY <1>1, <1>3 DEF Loaded
  <2>4. Cardinality(Active(s, q)) \in Nat
    BY SetsAreFinite
  <2> QED
    BY <1>1, <2>1, <2>2, <2>3, <2>4 DEF Startable
<1> QED
  BY <1>3, <1>4, <1>6 DEF Loaded

\* One has left a queue: one more may start.
LEMMA EndStartable ==
  ASSUME QueueTyped, NEW r \in Req, st[r] \in Running, NEW s, s = [st EXCEPT ![r] = "done"],
         \A p \in Queue : Loaded(st, p)
  PROVE  Startable(s, line[r].queue) /\ \A p \in Queue \ {line[r].queue} : Loaded(s, p)
<1> DEFINE q == line[r].queue
<1>1. q \in Queue /\ Slots[q] \in Nat
  BY RequestTypes DEF QueueTyped
<1>2. s[r] = "done" /\ \A o \in Req : o # r => s[o] = st[o]
  BY DEF QueueTyped
<1>3. \A p : Waiting(s, p) = Waiting(st, p)
  BY <1>2 DEF Waiting, Running
<1>4. \A p : p # q => Active(s, p) = Active(st, p)
  BY <1>2 DEF Active
<1>5. Active(s, q) = Active(st, q) \ {r} /\ r \in Active(st, q)
  BY <1>2 DEF Active, Running
<1>6. IsFiniteSet(Active(st, q)) /\ Cardinality(Active(st, q)) \in Nat
  BY SetsAreFinite
<1>7. Cardinality(Active(s, q)) = Cardinality(Active(st, q)) - 1
  BY <1>5, <1>6, FS_RemoveElement
<1>8. Startable(s, q)
  <2>1. /\ Cardinality(Active(st, q)) <= Slots[q]
        /\ Waiting(s, q) # {} => Cardinality(Active(st, q)) = Slots[q]
    BY <1>1, <1>3 DEF Loaded
  <2>2. Cardinality(Active(s, q)) <= Slots[q]
    BY <1>1, <1>6, <1>7, <2>1
  <2>3. ASSUME Waiting(s, q) # {} PROVE Cardinality(Active(s, q)) + 1 >= Slots[q]
    <3>1. Cardinality(Active(s, q)) = Slots[q] - 1
      BY <1>7, <2>1, <2>3
    <3> QED
      BY <1>1, <3>1
  <2> QED
    BY <2>2, <2>3 DEF Startable
<1> QED
  BY <1>3, <1>4, <1>8 DEF Loaded

-----------------------------------------------------------------------------
(* Shares *)

\* What requests a caller had started while r waited.
Theirs(p, r, a) == {o \in p[r] : CallerOf[o] = a}

\* Nobody waits with a finish time before the clock, or behind its caller's last.
Clocked(s, t, l, v) ==
  \A r \in Req : s[r] = "waiting" => v <= t[r] /\ t[r] <= l[CallerOf[r]]

\* The waiting requests of one caller follow each other, each by its own cost.
Spaced(s, t) ==
  \A r, o \in Req :
    s[r] = "waiting" /\ s[o] = "waiting" /\ r # o /\ CallerOf[r] = CallerOf[o] =>
      t[r] + Work[o] <= t[o] \/ t[o] + Work[r] <= t[r]

\* A request without a claim waits, and its start is no later than the clock.
FreshWaits(s, t, v, f) == \A r \in f : r \in Req /\ s[r] = "waiting" /\ t[r] <= v + Work[r]

\* Only a waiting request sees others served, and those have been started.
PassedRan(s, p) ==
  \A r \in Req : /\ \A o \in p[r] : o \in Req /\ s[o] \in Running \cup {"done"}
                 /\ s[r] # "waiting" => p[r] = {}

\* But for one of its requests, what a caller was served while a fresh r waited fits
\* between the start of r and the clock, and its requests that wait come after that.
Shares(s, t, v, f, p) ==
  \A r \in f : \A a \in Caller \ {CallerOf[r]} :
    Theirs(p, r, a) # {} =>
      \E m \in Theirs(p, r, a), n \in Nat :
        /\ n = SumFunctionOnSet(Work, Theirs(p, r, a) \ {m})
        /\ n + t[r] <= v + Work[r]
        /\ \A o \in Req : s[o] = "waiting" /\ CallerOf[o] = a => n + t[r] + Work[o] <= t[o] + Work[r]

FairFacts(s, t, l, v, f, p) ==
  Clocked(s, t, l, v) /\ Spaced(s, t) /\ FreshWaits(s, t, v, f) /\ PassedRan(s, p)
    /\ Shares(s, t, v, f, p)

\* All requests are of one queue and class.
OneLine == \A r, o \in Req : line[r] = line[o]

LEMMA MixedIsNotOne == line \in Lines /\ ~ Mixed => OneLine
<1> SUFFICES ASSUME line \in Lines, ~ Mixed, NEW r \in Req, NEW o \in Req PROVE line[r] = line[o]
  BY DEF OneLine
<1> DEFINE L == {line[x] : x \in Req}
<1>1. line \in [Req -> L]
  BY LineAssumption DEF LineAssumption
<1>2. line \in Surjection(Req, L)
  BY <1>1 DEF Surjection
<1>3. IsFiniteSet(L) /\ Cardinality(L) \in Nat
  BY <1>2, RequestTypes, FS_Surjection, FS_CardinalityType
<1>4. line[r] \in L /\ line[o] \in L
  OBVIOUS
<1>5. ~ (Cardinality(L) > 1)
  BY DEF Mixed
<1> HIDE DEF L
<1>6. Cardinality(L) = 1
  BY <1>3, <1>4, <1>5, FS_EmptySet
<1> QED
  BY <1>3, <1>4, <1>6, FS_Singleton

\* A request is admitted.
LEMMA FairAdmits ==
  ASSUME QueueTyped, staked, NEW r \in Req, NEW s, NEW f, Admits(r, s, f),
         st[r] \in {"new", "polling"}, tag' \in [Req -> Nat],
         FairFacts(st, tag, last, virtualTime, fresh, passed)
  PROVE  FairFacts(s, tag', last', virtualTime, f, passed)
<1> DEFINE a == CallerOf[r]
           start == StartTag(a)
<1>1. /\ s[r] = "waiting" /\ \A o \in Req : o # r => s[o] = st[o]
      /\ tag'[r] = start + Work[r] /\ \A o \in Req : o # r => tag'[o] = tag[o]
  BY DEF Admits, QueueTyped, Tagged
<1>2. a \in Caller /\ last'[a] = tag'[r] /\ \A b \in Caller : b # a => last'[b] = last[b]
  BY RequestTypes DEF Admits, QueueTyped
<1>3. /\ start \in Nat /\ virtualTime \in Nat /\ last[a] \in Nat
      /\ virtualTime <= start /\ last[a] <= start /\ (last[a] <= virtualTime => start = virtualTime)
  BY <1>2, StartType DEF QueueTyped
<1>4. /\ \A o \in Req : /\ Work[o] \in Nat /\ tag[o] \in Nat /\ tag'[o] \in Nat
                        /\ CallerOf[o] \in Caller
      /\ \A b \in Caller : last[b] \in Nat
  BY RequestTypes DEF QueueTyped
<1> HIDE DEF start
<1>5. Clocked(s, tag', last', virtualTime)
  <2> SUFFICES ASSUME NEW o \in Req, s[o] = "waiting"
               PROVE  virtualTime <= tag'[o] /\ tag'[o] <= last'[CallerOf[o]]
    BY DEF Clocked
  <2>1. CASE o = r
    <3>1. tag'[r] \in Nat /\ Work[r] \in Nat
      BY <1>4
    <3> QED
      BY <1>1, <1>2, <1>3, <2>1, <3>1
  <2>2. CASE o # r
    <3>1. tag'[o] = tag[o] /\ virtualTime <= tag[o] /\ tag[o] <= last[CallerOf[o]]
      BY <1>1, <2>2 DEF FairFacts, Clocked
    <3>2. CASE CallerOf[o] = a
      <4>1. tag[o] \in Nat /\ tag'[r] \in Nat /\ Work[r] \in Nat /\ tag[o] <= last[a]
        BY <1>4, <3>1, <3>2
      <4>2. tag[o] <= tag'[r]
        BY <1>1, <1>3, <4>1
      <4> QED
        BY <1>2, <3>1, <3>2, <4>2
    <3>3. CASE CallerOf[o] # a
      BY <1>2, <1>4, <3>1, <3>3
    <3> QED
      BY <3>2, <3>3
  <2> QED
    BY <2>1, <2>2
<1>6. ASSUME NEW o \in Req, o # r, s[o] = "waiting", CallerOf[o] = a
      PROVE  tag'[o] + Work[r] <= tag'[r]
  <2>1. tag'[o] = tag[o] /\ tag[o] <= last[a]
    BY <1>1, <1>6 DEF FairFacts, Clocked
  <2>2. tag[o] \in Nat /\ Work[r] \in Nat
    BY <1>4
  <2> QED
    BY <1>1, <1>3, <2>1, <2>2
<1>7. Spaced(s, tag')
  <2> SUFFICES ASSUME NEW o \in Req, NEW x \in Req, s[o] = "waiting", s[x] = "waiting",
                      o # x, CallerOf[o] = CallerOf[x]
               PROVE  tag'[o] + Work[x] <= tag'[x] \/ tag'[x] + Work[o] <= tag'[o]
    BY DEF Spaced
  <2>1. CASE o = r
    BY <1>6, <2>1
  <2>2. CASE x = r
    BY <1>6, <2>2
  <2>3. CASE o # r /\ x # r
    BY <1>1, <2>3 DEF FairFacts, Spaced
  <2> QED
    BY <2>1, <2>2, <2>3
<1>8. f \subseteq fresh \cup {r} /\ (r \in f => r \in fresh \/ last[a] <= virtualTime)
  BY DEF Admits
<1>9. \A x \in fresh : x \in Req /\ x # r /\ st[x] = "waiting" /\ tag[x] <= virtualTime + Work[x]
  BY DEF FairFacts, FreshWaits
<1>10. FreshWaits(s, tag', virtualTime, f)
  <2> SUFFICES ASSUME NEW x \in f
               PROVE  x \in Req /\ s[x] = "waiting" /\ tag'[x] <= virtualTime + Work[x]
    BY DEF FreshWaits
  <2>1. CASE x = r
    <3>1. start = virtualTime
      BY <1>3, <1>8, <1>9, <2>1
    <3>2. virtualTime + Work[r] \in Nat
      BY <1>3, <1>4
    <3> QED
      BY <1>1, <2>1, <3>1, <3>2
  <2>2. CASE x # r
    BY <1>1, <1>8, <1>9, <2>2
  <2> QED
    BY <2>1, <2>2
<1>11. passed[r] = {} /\ \A x \in Req : r \notin passed[x]
  BY DEF FairFacts, PassedRan, Running
<1>12. PassedRan(s, passed)
  <2> SUFFICES ASSUME NEW x \in Req
               PROVE  /\ \A o \in passed[x] : o \in Req /\ s[o] \in Running \cup {"done"}
                      /\ s[x] # "waiting" => passed[x] = {}
    BY DEF PassedRan
  <2>1. \A o \in passed[x] : o # r /\ o \in Req /\ st[o] \in Running \cup {"done"}
    BY <1>11 DEF FairFacts, PassedRan
  <2>2. \A o \in passed[x] : s[o] = st[o]
    BY <1>1, <2>1
  <2>3. s[x] # "waiting" => passed[x] = {}
    BY <1>1, <1>11 DEF FairFacts, PassedRan
  <2> QED
    BY <2>1, <2>2, <2>3
<1>13. Shares(s, tag', virtualTime, f, passed)
  <2> SUFFICES ASSUME NEW x \in f, NEW b \in Caller \ {CallerOf[x]}, Theirs(passed, x, b) # {}
               PROVE  \E m \in Theirs(passed, x, b), n \in Nat :
                        /\ n = SumFunctionOnSet(Work, Theirs(passed, x, b) \ {m})
                        /\ n + tag'[x] <= virtualTime + Work[x]
                        /\ \A o \in Req : s[o] = "waiting" /\ CallerOf[o] = b =>
                             n + tag'[x] + Work[o] <= tag'[o] + Work[x]
    BY DEF Shares
  <2>1. x # r /\ x \in fresh
    BY <1>8, <1>11 DEF Theirs
  <2>2. PICK m \in Theirs(passed, x, b), n \in Nat :
          /\ n = SumFunctionOnSet(Work, Theirs(passed, x, b) \ {m})
          /\ n + tag[x] <= virtualTime + Work[x]
          /\ \A o \in Req : st[o] = "waiting" /\ CallerOf[o] = b =>
               n + tag[x] + Work[o] <= tag[o] + Work[x]
    BY <2>1 DEF FairFacts, Shares
  <2>3. x \in Req /\ tag'[x] = tag[x]
    BY <1>1, <1>9, <2>1
  <2>4. ASSUME NEW o \in Req, s[o] = "waiting", CallerOf[o] = b
        PROVE  n + tag[x] + Work[o] <= tag'[o] + Work[x]
    <3>1. CASE o = r
      <4>1. tag[x] \in Nat /\ Work[x] \in Nat /\ Work[r] \in Nat /\ tag'[r] \in Nat
        BY <1>4, <2>3
      <4>2. virtualTime + Work[r] <= tag'[r]
        BY <1>1, <1>3, <4>1
      <4>3. n + tag[x] + Work[r] <= tag'[r] + Work[x]
        BY <1>3, <2>2, <4>1, <4>2
      <4> QED
        BY <3>1, <4>3
    <3>2. CASE o # r
      BY <1>1, <2>2, <2>4, <3>2
    <3> QED
      BY <3>1, <3>2
  <2> QED
    BY <2>2, <2>3, <2>4
<1> QED
  BY <1>5, <1>7, <1>10, <1>12, <1>13 DEF FairFacts

\* Only the tags of those who wait count.
LEMMA FairSame ==
  ASSUME NEW s, NEW t, NEW u, NEW l, NEW v, NEW f, NEW p, FairFacts(s, t, l, v, f, p),
         \A r \in Req : s[r] = "waiting" => u[r] = t[r]
  PROVE  FairFacts(s, u, l, v, f, p)
<1>1. \A r \in f : r \in Req /\ u[r] = t[r]
  BY DEF FairFacts, FreshWaits
<1>2. Shares(s, u, v, f, p)
  <2> SUFFICES ASSUME NEW r \in f, NEW a \in Caller \ {CallerOf[r]}, Theirs(p, r, a) # {}
               PROVE  \E m \in Theirs(p, r, a), n \in Nat :
                        /\ n = SumFunctionOnSet(Work, Theirs(p, r, a) \ {m})
                        /\ n + u[r] <= v + Work[r]
                        /\ \A o \in Req : s[o] = "waiting" /\ CallerOf[o] = a =>
                             n + u[r] + Work[o] <= u[o] + Work[r]
    BY DEF Shares
  <2>1. PICK m \in Theirs(p, r, a), n \in Nat :
          /\ n = SumFunctionOnSet(Work, Theirs(p, r, a) \ {m})
          /\ n + t[r] <= v + Work[r]
          /\ \A o \in Req : s[o] = "waiting" /\ CallerOf[o] = a =>
               n + t[r] + Work[o] <= t[o] + Work[r]
    BY DEF FairFacts, Shares
  <2> QED
    BY <1>1, <2>1
<1> QED
  BY <1>1, <1>2 DEF FairFacts, Clocked, Spaced, FreshWaits

\* A request that did not wait moves on, and ran.
LEMMA FairMoves ==
  ASSUME QueueTyped, NEW r \in Req, NEW place, place # "waiting", st[r] # "waiting",
         st[r] \in Running => place \in Running \cup {"done"}, NEW s, s = [st EXCEPT ![r] = place],
         FairFacts(st, tag, last, virtualTime, fresh, passed), st[r] # "done"
  PROVE  FairFacts(s, tag, last, virtualTime, fresh, passed)
<1>1. s[r] = place /\ \A o \in Req : o # r => s[o] = st[o]
  BY DEF QueueTyped
<1>2. \A o \in Req : s[o] = "waiting" <=> st[o] = "waiting"
  BY <1>1
<1>3. \A o \in Req : st[o] \in Running \cup {"done"} => s[o] \in Running \cup {"done"}
  BY <1>1
<1>4. PassedRan(s, passed)
  BY <1>2, <1>3 DEF FairFacts, PassedRan
<1>5. Shares(s, tag, virtualTime, fresh, passed)
  BY <1>2 DEF FairFacts, Shares
<1> QED
  BY <1>2, <1>4, <1>5 DEF FairFacts, Clocked, Spaced, FreshWaits

\* One set of served requests grows.
LEMMA TheirsGrow ==
  ASSUME NEW T \in SUBSET Req, NEW b \in Req, b \notin T, NEW m \in T
  PROVE  SumFunctionOnSet(Work, (T \cup {b}) \ {m}) = Work[b] + SumFunctionOnSet(Work, T \ {m})
<1> DEFINE U == (T \cup {b}) \ {m}
<1>1. U \in SUBSET Req /\ b \in U /\ U \ {b} = T \ {m}
  OBVIOUS
<1>2. IsFiniteSet(U) /\ \A x \in U : Work[x] \in Nat
  BY <1>1, RequestTypes, FS_Subset
<1> HIDE DEF U
<1>3. SumFunctionOnSet(Work, U) = Work[b] + SumFunctionOnSet(Work, U \ {b})
  BY <1>1, <1>2, SumSplit
<1> QED
  BY <1>1, <1>3 DEF U

\* The first of the waiters starts, and the clock moves to its finish time.
LEMMA FairPump ==
  ASSUME line \in Lines, staked, OneLine, passed \in [Req -> SUBSET Req], virtualTime \in Nat,
         NEW s \in [Req -> Places], NEW t \in [Req -> Nat], NEW n \in [Req -> Nat],
         NEW l, NEW f, NEW b \in Req, PumpsOne(s, t, n, f, line[b].queue, b),
         FairFacts(s, t, l, virtualTime, f, passed)
  PROVE  FairFacts(st', t, l, virtualTime', fresh', passed')
<1> DEFINE v == virtualTime
           q == line[b].queue
<1>1. \A o \in Req : s[o] = "waiting" <=> o \in Waiting(s, q)
  BY DEF Waiting, OneLine
<1>2. /\ s[b] = "waiting" /\ virtualTime' = t[b] /\ fresh' = f \ {b} /\ passed'[b] = {}
      /\ st'[b] \in Running /\ \A r \in Req : r # b => st'[r] = s[r]
  BY <1>1 DEF PumpsOne
<1>3. \A r \in Req : r # b => passed'[r] = IF s[r] = "waiting" THEN passed[r] \cup {b} ELSE passed[r]
  BY <1>1 DEF PumpsOne
<1>4. \A o \in Req : o # b /\ s[o] = "waiting" => t[b] <= t[o]
  <2> SUFFICES ASSUME NEW o \in Req, o # b, s[o] = "waiting" PROVE t[b] <= t[o]
    OBVIOUS
  <2>1. Before(b, o, t, n)
    BY <1>1 DEF PumpsOne
  <2>2. line[b].priority = line[o].priority /\ line[b].priority \in Nat
    BY RequestTypes DEF OneLine
  <2>3. t[b] \in Nat /\ t[o] \in Nat
    OBVIOUS
  <2> QED
    BY <2>1, <2>2, <2>3 DEF Before
<1>5. v \in Nat /\ v <= t[b] /\ \A o \in Req : t[o] \in Nat /\ Work[o] \in Nat /\ Work[o] > 0
  BY <1>2, RequestTypes DEF FairFacts, Clocked
<1>6. \A o \in Req : st'[o] = "waiting" <=> o # b /\ s[o] = "waiting"
  BY <1>2 DEF Running
<1>7. Clocked(st', t, l, virtualTime')
  BY <1>2, <1>4, <1>6 DEF FairFacts, Clocked
<1>8. Spaced(st', t)
  BY <1>6 DEF FairFacts, Spaced
<1>9. \A r \in f : r \in Req /\ s[r] = "waiting" /\ t[r] <= v + Work[r]
  BY DEF FairFacts, FreshWaits
<1>10. FreshWaits(st', t, virtualTime', fresh')
  <2> SUFFICES ASSUME NEW r \in f, r # b
               PROVE  r \in Req /\ st'[r] = "waiting" /\ t[r] <= t[b] + Work[r]
    BY <1>2 DEF FreshWaits
  <2>1. t[r] \in Nat /\ Work[r] \in Nat /\ t[b] \in Nat
    BY <1>5, <1>9
  <2>2. t[r] <= t[b] + Work[r]
    BY <1>5, <1>9, <2>1
  <2> QED
    BY <1>6, <1>9, <2>2
<1>11. \A r \in Req : b \notin passed[r] /\ passed[r] \in SUBSET Req
  BY <1>2 DEF FairFacts, PassedRan, Running
<1>12. PassedRan(st', passed')
  <2> SUFFICES ASSUME NEW r \in Req
               PROVE  /\ \A o \in passed'[r] : o \in Req /\ st'[o] \in Running \cup {"done"}
                      /\ st'[r] # "waiting" => passed'[r] = {}
    BY DEF PassedRan
  <2>1. \A o \in passed[r] : o # b /\ o \in Req /\ s[o] \in Running \cup {"done"}
    BY <1>11 DEF FairFacts, PassedRan
  <2>2. \A o \in passed[r] \cup {b} : o \in Req /\ st'[o] \in Running \cup {"done"}
    BY <1>2, <2>1
  <2>3. s[r] # "waiting" => passed[r] = {}
    BY DEF FairFacts, PassedRan
  <2> QED
    BY <1>2, <1>3, <1>6, <2>2, <2>3
<1>13. ASSUME NEW o \in Req, o # b, s[o] = "waiting", CallerOf[o] = CallerOf[b]
       PROVE  t[b] + Work[o] <= t[o]
  <2>1. t[b] <= t[o] /\ (t[b] + Work[o] <= t[o] \/ t[o] + Work[b] <= t[b])
    BY <1>2, <1>4, <1>13 DEF FairFacts, Spaced
  <2>2. t[b] \in Nat /\ t[o] \in Nat /\ Work[o] \in Nat /\ Work[b] \in Nat /\ Work[b] > 0
    BY <1>5
  <2> QED
    BY <2>1, <2>2
<1>14. Shares(st', t, virtualTime', fresh', passed')
  <2> SUFFICES ASSUME NEW r \in f, r # b, NEW a \in Caller \ {CallerOf[r]},
                      Theirs(passed', r, a) # {}
               PROVE  \E m \in Theirs(passed', r, a), k \in Nat :
                        /\ k = SumFunctionOnSet(Work, Theirs(passed', r, a) \ {m})
                        /\ k + t[r] <= t[b] + Work[r]
                        /\ \A o \in Req : o # b /\ s[o] = "waiting" /\ CallerOf[o] = a =>
                             k + t[r] + Work[o] <= t[o] + Work[r]
    BY SMTT(30), <1>2, <1>6 DEF Shares
  <2>1. r \in Req /\ s[r] = "waiting" /\ passed'[r] = passed[r] \cup {b}
    BY <1>3, <1>9
  <2>2. t[r] \in Nat /\ Work[r] \in Nat /\ t[b] \in Nat /\ Work[b] \in Nat
    BY <1>5, <2>1
  <2>3. t[r] <= v + Work[r] /\ v <= t[b] /\ v \in Nat
    BY <1>5, <1>9
  <2> HIDE DEF v
  <2>4. ASSUME Theirs(passed, r, a) # {}
        PROVE  \E m \in Theirs(passed, r, a), k \in Nat :
                 /\ k = SumFunctionOnSet(Work, Theirs(passed, r, a) \ {m})
                 /\ k + t[r] <= v + Work[r]
                 /\ \A o \in Req : s[o] = "waiting" /\ CallerOf[o] = a =>
                      k + t[r] + Work[o] <= t[o] + Work[r]
    BY <2>4 DEF FairFacts, Shares, v
  <2>5. CASE CallerOf[b] # a
    <3>1. Theirs(passed', r, a) = Theirs(passed, r, a)
      BY <2>1, <2>5 DEF Theirs
    <3>2. PICK m \in Theirs(passed, r, a), k \in Nat :
                 /\ k = SumFunctionOnSet(Work, Theirs(passed, r, a) \ {m})
                 /\ k + t[r] <= v + Work[r]
                 /\ \A o \in Req : s[o] = "waiting" /\ CallerOf[o] = a =>
                      k + t[r] + Work[o] <= t[o] + Work[r]
      BY <2>4, <3>1
    <3>3. k + t[r] <= t[b] + Work[r]
      BY <2>2, <2>3, <3>2
    <3> QED
      BY <3>1, <3>2, <3>3
  <2>6. CASE CallerOf[b] = a
    <3>1. Theirs(passed', r, a) = Theirs(passed, r, a) \cup {b}
      BY <2>1, <2>6 DEF Theirs
    <3>2. CASE Theirs(passed, r, a) = {}
      <4>1. Theirs(passed', r, a) = {b} /\ {b} \ {b} = {}
        BY <3>1, <3>2
      <4>2. SumFunctionOnSet(Work, {}) = 0
        BY SumZero, FS_EmptySet
      <4>3. 0 + t[r] <= t[b] + Work[r]
        BY <2>2, <2>3
      <4>4. ASSUME NEW o \in Req, o # b, s[o] = "waiting", CallerOf[o] = a
            PROVE  0 + t[r] + Work[o] <= t[o] + Work[r]
        <5>1. t[b] + Work[o] <= t[o]
          BY <1>13, <2>6, <4>4
        <5>2. t[o] \in Nat /\ Work[o] \in Nat
          BY <1>5
        <5> QED
          BY <2>2, <2>3, <5>1, <5>2
      <4>5. /\ b \in Theirs(passed', r, a)
            /\ SumFunctionOnSet(Work, Theirs(passed', r, a) \ {b}) = 0
        BY <4>1, <4>2
      <4>6. PICK k \in Nat : k = 0
        OBVIOUS
      <4> QED
        BY <4>3, <4>4, <4>5, <4>6
    <3>3. CASE Theirs(passed, r, a) # {}
      <4>1. PICK m \in Theirs(passed, r, a), k \in Nat :
                   /\ k = SumFunctionOnSet(Work, Theirs(passed, r, a) \ {m})
                   /\ k + t[r] <= v + Work[r]
                   /\ \A o \in Req : s[o] = "waiting" /\ CallerOf[o] = a =>
                        k + t[r] + Work[o] <= t[o] + Work[r]
        BY <2>4, <3>3
      <4>2. SumFunctionOnSet(Work, Theirs(passed', r, a) \ {m}) = Work[b] + k
        <5> DEFINE T == Theirs(passed, r, a)
        <5>1. b \notin T /\ T \in SUBSET Req /\ m \in T
          BY <1>11, <2>1, <4>1 DEF Theirs
        <5> HIDE DEF T
        <5>2. SumFunctionOnSet(Work, (T \cup {b}) \ {m}) = Work[b] + SumFunctionOnSet(Work, T \ {m})
          BY <5>1, TheirsGrow
        <5> QED
          BY <3>1, <4>1, <5>2 DEF T
      <4>3. k + t[r] + Work[b] <= t[b] + Work[r]
        BY <1>2, <2>6, <4>1
      <4>4. Work[b] + k \in Nat /\ Work[b] + k + t[r] <= t[b] + Work[r]
        BY <2>2, <4>1, <4>3
      <4>5. ASSUME NEW o \in Req, o # b, s[o] = "waiting", CallerOf[o] = a
            PROVE  Work[b] + k + t[r] + Work[o] <= t[o] + Work[r]
        <5>1. t[b] + Work[o] <= t[o]
          BY <1>13, <2>6, <4>5
        <5>2. t[o] \in Nat /\ Work[o] \in Nat /\ k \in Nat
          BY <1>5
        <5> QED
          BY <2>2, <4>3, <5>1, <5>2
      <4>6. m \in Theirs(passed', r, a)
        BY <3>1
      <4> QED
        BY <4>2, <4>4, <4>5, <4>6
    <3> QED
      BY <3>2, <3>3
  <2> QED
    BY <2>5, <2>6
<1> QED
  BY <1>7, <1>8, <1>10, <1>12, <1>14 DEF FairFacts

-----------------------------------------------------------------------------
(* The invariant *)

Fair(s, t, l, v, f, p) == staked /\ OneLine => FairFacts(s, t, l, v, f, p)

QueueInv ==
  /\ QueueTyped
  /\ Numbered(st, seq)
  /\ \A q \in Queue : Loaded(st, q)
  /\ Fair(st, tag, last, virtualTime, fresh, passed)

\* What holds before the pump of q holds after it.
LEMMA PumpKeeps ==
  ASSUME QueueTyped, NEW s \in [Req -> Places], NEW t \in [Req -> Nat], NEW n \in [Req -> Nat],
         NEW l, NEW f \in SUBSET Req, NEW q \in Queue, Numbered(s, n),
         Startable(s, q), \A p \in Queue \ {q} : Loaded(s, p),
         Fair(s, t, l, virtualTime, f, passed), Pump(s, t, n, f, q)
  PROVE  /\ st' \in [Req -> Places] /\ virtualTime' \in Nat
         /\ fresh' \in SUBSET Req /\ passed' \in [Req -> SUBSET Req]
         /\ Numbered(st', n) /\ \A p \in Queue : Loaded(st', p)
         /\ \A r \in Req : st'[r] = "waiting" => s[r] = "waiting"
         /\ Fair(st', t, l, virtualTime', fresh', passed')
<1>1. line \in Lines /\ passed \in [Req -> SUBSET Req] /\ virtualTime \in Nat
  BY DEF QueueTyped
<1>2. /\ PumpsNone(s, f, q) \/ \E b \in Req : PumpsOne(s, t, n, f, q, b)
      /\ st' \in [Req -> Places] /\ fresh' \in SUBSET Req /\ passed' \in [Req -> SUBSET Req]
  BY <1>1, PumpCases
<1>3. \A p \in Queue : Loaded(st', p)
  BY <1>1, <1>2, PumpLoads
<1>4. CASE PumpsNone(s, f, q)
  <2>1. st' = s /\ fresh' = f /\ passed' = passed /\ virtualTime' = virtualTime
    BY <1>4 DEF PumpsNone
  <2> QED
    BY <1>1, <1>2, <1>3, <2>1
<1>5. ASSUME NEW b \in Req, PumpsOne(s, t, n, f, q, b)
      PROVE  /\ virtualTime' \in Nat
             /\ Numbered(st', n) /\ \A r \in Req : st'[r] = "waiting" => s[r] = "waiting"
             /\ Fair(st', t, l, virtualTime', fresh', passed')
  <2>1. q = line[b].queue
    BY <1>5 DEF PumpsOne, Waiting
  <2>2. virtualTime' \in Nat
    BY <1>1, <1>5 DEF PumpsOne
  <2>3. \A r \in Req : st'[r] = "waiting" => s[r] = "waiting"
    BY <1>5 DEF PumpsOne, Running
  <2>4. Numbered(st', n)
    BY <2>3 DEF Numbered
  <2>5. Fair(st', t, l, virtualTime', fresh', passed')
    BY <1>1, <1>5, <2>1, FairPump DEF Fair
  <2> QED
    BY <2>2, <2>3, <2>4, <2>5
<1> QED
  BY <1>2, <1>3, <1>4, <1>5

LEMMA EnterKeeps ==
  ASSUME QueueInv, NEW r \in Req, st[r] \in {"new", "polling"}, Enter(r)
  PROVE  QueueInv'
<1>1. PICK s, f : Admits(r, s, f) /\ Pump(s, tag', seq', f, line[r].queue)
  BY EnterParts
<1>2. QueueTyped /\ Numbered(st, seq) /\ \A q \in Queue : Loaded(st, q)
  BY DEF QueueInv
<1>3. /\ s \in [Req -> Places] /\ f \in SUBSET Req
      /\ seq' \in [Req -> Nat] /\ tag' \in [Req -> Nat] /\ last' \in [Caller -> Nat]
      /\ Numbered(s, seq')
  BY <1>1, <1>2, AdmitsTyped
<1>4. Startable(s, line[r].queue) /\ \A p \in Queue \ {line[r].queue} : Loaded(s, p)
  BY <1>1, <1>2, AdmitsStartable
<1>5. Fair(s, tag', last', virtualTime, f, passed)
  BY <1>1, <1>2, <1>3, FairAdmits DEF QueueInv, Fair
<1>6. line[r].queue \in Queue
  BY <1>2, RequestTypes DEF QueueTyped
<1>7. /\ st' \in [Req -> Places] /\ virtualTime' \in Nat
      /\ fresh' \in SUBSET Req /\ passed' \in [Req -> SUBSET Req]
      /\ Numbered(st', seq') /\ \A p \in Queue : Loaded(st', p)
      /\ Fair(st', tag', last', virtualTime', fresh', passed')
  BY <1>1, <1>2, <1>3, <1>4, <1>5, <1>6, PumpKeeps
<1>8. line' = line /\ staked' = staked
  BY <1>1 DEF Admits
<1>9. QueueTyped'
  BY <1>2, <1>3, <1>7, <1>8 DEF QueueTyped
<1>10. \A q \in Queue : Loaded(st, q)'
  BY <1>7, <1>8 DEF Loaded, Waiting, Active
<1>11. Fair(st, tag, last, virtualTime, fresh, passed)'
  BY <1>7, <1>8 DEF Fair, OneLine
<1> QED
  BY <1>7, <1>9, <1>10, <1>11 DEF QueueInv

LEMMA EndKeeps ==
  ASSUME QueueInv, NEW r \in Req, End(r)
  PROVE  QueueInv'
<1> DEFINE s == [st EXCEPT ![r] = "done"]
           q == line[r].queue
<1>1. /\ st[r] \in Running /\ Pump(s, tag, seq, fresh, q)
      /\ tag' = [tag EXCEPT ![r] = 0] /\ seq' = [seq EXCEPT ![r] = 0]
      /\ line' = line /\ staked' = staked /\ last' = last
  BY DEF End
<1>2. QueueTyped /\ Numbered(st, seq) /\ \A p \in Queue : Loaded(st, p)
  BY DEF QueueInv
<1>3. /\ s \in [Req -> Places] /\ s[r] = "done" /\ \A o \in Req : o # r => s[o] = st[o]
  BY <1>2 DEF QueueTyped, Places
<1>4. Numbered(s, seq)
  BY <1>2, <1>3 DEF Numbered
<1>5. Startable(s, q) /\ \A p \in Queue \ {q} : Loaded(s, p)
  BY <1>1, <1>2, EndStartable
<1>6. Fair(s, tag, last, virtualTime, fresh, passed)
  BY <1>1, <1>2, FairMoves DEF QueueInv, Fair, Running
<1>7. q \in Queue /\ tag \in [Req -> Nat] /\ seq \in [Req -> Nat] /\ fresh \in SUBSET Req
  BY <1>2, RequestTypes DEF QueueTyped
<1> HIDE DEF s
<1>8. /\ st' \in [Req -> Places] /\ virtualTime' \in Nat
      /\ fresh' \in SUBSET Req /\ passed' \in [Req -> SUBSET Req]
      /\ Numbered(st', seq) /\ \A p \in Queue : Loaded(st', p)
      /\ \A o \in Req : st'[o] = "waiting" => s[o] = "waiting"
      /\ Fair(st', tag, last, virtualTime', fresh', passed')
  BY <1>1, <1>2, <1>3, <1>4, <1>5, <1>6, <1>7, PumpKeeps
<1>9. \A o \in Req : st'[o] = "waiting" => tag'[o] = tag[o] /\ seq'[o] = seq[o]
  BY <1>1, <1>3, <1>7, <1>8
<1>10. QueueTyped'
  BY <1>1, <1>2, <1>7, <1>8 DEF QueueTyped
<1>11. Numbered(st, seq)'
  BY <1>8, <1>9 DEF Numbered
<1>12. \A p \in Queue : Loaded(st, p)'
  BY <1>1, <1>8 DEF Loaded, Waiting, Active
<1>13. Fair(st, tag, last, virtualTime, fresh, passed)'
  <2> SUFFICES ASSUME staked, OneLine
               PROVE  FairFacts(st', tag', last', virtualTime', fresh', passed')
    BY <1>1 DEF Fair, OneLine
  <2>1. FairFacts(st', tag, last', virtualTime', fresh', passed')
    BY <1>1, <1>8 DEF Fair
  <2> QED
    BY <1>9, <2>1, FairSame
<1> QED
  BY <1>10, <1>11, <1>12, <1>13 DEF QueueInv

\* A polite request asks or gives up, or a section gets its lease.
LEMMA MoveKeeps ==
  ASSUME QueueInv, NEW r \in Req, NEW place \in Places, st' = [st EXCEPT ![r] = place],
         UNCHANGED <<line, staked, seq, clock, fresh, passed>>,
         \/ st[r] \in {"new", "polling"} /\ place \in {"polling", "busy"}
         \/ st[r] = "leasing" /\ place = "running"
  PROVE  QueueInv'
<1>1. QueueTyped /\ Numbered(st, seq) /\ \A p \in Queue : Loaded(st, p)
  BY DEF QueueInv
<1>2. /\ line' = line /\ staked' = staked /\ seq' = seq /\ tag' = tag /\ last' = last
      /\ virtualTime' = virtualTime /\ fresh' = fresh /\ passed' = passed
  BY DEF clock
<1>3. st' \in [Req -> Places] /\ st'[r] = place /\ \A o \in Req : o # r => st'[o] = st[o]
  BY <1>1 DEF QueueTyped
<1>4. /\ \A o \in Req : st'[o] = "waiting" <=> st[o] = "waiting"
      /\ \A o \in Req : st'[o] \in Running <=> st[o] \in Running
  BY <1>3 DEF Running
<1>5. QueueTyped'
  BY <1>1, <1>2, <1>3 DEF QueueTyped
<1>6. Numbered(st, seq)'
  BY <1>1, <1>2, <1>4 DEF Numbered
<1>7. \A p : Waiting(st, p)' = Waiting(st, p) /\ Active(st, p)' = Active(st, p)
  BY <1>2, <1>4 DEF Waiting, Active
<1>8. \A p \in Queue : Loaded(st, p)'
  BY <1>1, <1>7 DEF Loaded
<1>9. Fair(st, tag, last, virtualTime, fresh, passed)'
  <2> SUFFICES ASSUME staked, OneLine
               PROVE  FairFacts(st', tag, last, virtualTime, fresh, passed)
    BY <1>2 DEF Fair, OneLine
  <2>1. FairFacts(st, tag, last, virtualTime, fresh, passed)
    BY DEF QueueInv, Fair
  <2>2. /\ place # "waiting" /\ st[r] # "waiting" /\ st[r] # "done"
        /\ st[r] \in Running => place \in Running \cup {"done"}
    BY DEF Running
  <2> QED
    BY <1>1, <2>1, <2>2, FairMoves
<1> QED
  BY <1>5, <1>6, <1>8, <1>9 DEF QueueInv

\* forgetIdle forgets nobody who waits.
LEMMA ForgetKeeps ==
  ASSUME QueueInv, NEW a \in Caller, Forget(a)
  PROVE  QueueInv'
<1>1. /\ \A r \in Req : CallerOf[r] = a => st[r] # "waiting"
      /\ last' = [last EXCEPT ![a] = 0]
      /\ line' = line /\ staked' = staked /\ st' = st /\ seq' = seq /\ tag' = tag
      /\ virtualTime' = virtualTime /\ fresh' = fresh /\ passed' = passed
  BY DEF Forget
<1>2. QueueTyped'
  BY <1>1 DEF QueueInv, QueueTyped
<1>3. Numbered(st, seq)' /\ \A p \in Queue : Loaded(st, p)'
  BY <1>1 DEF QueueInv, Numbered, Loaded, Waiting, Active
<1>4. \A r \in Req : st[r] = "waiting" => last'[CallerOf[r]] = last[CallerOf[r]]
  BY <1>1, RequestTypes DEF QueueInv, QueueTyped
<1>5. Fair(st, tag, last, virtualTime, fresh, passed)'
  <2> SUFFICES ASSUME staked, OneLine
               PROVE  FairFacts(st, tag, last', virtualTime, fresh, passed)
    BY <1>1 DEF Fair, OneLine
  <2>1. FairFacts(st, tag, last, virtualTime, fresh, passed)
    BY DEF QueueInv, Fair
  <2> QED
    BY <1>4, <2>1 DEF FairFacts, Clocked
<1> QED
  BY <1>2, <1>3, <1>5 DEF QueueInv

LEMMA QueueInitInv == QueueInit => QueueInv
<1> SUFFICES ASSUME QueueInit PROVE QueueInv
  OBVIOUS
<1>1. QueueTyped
  BY LineAssumption DEF LineAssumption, QueueInit, QueueTyped, Places
<1>2. \A r \in Req : st[r] = "new" /\ passed[r] = {}
  BY DEF QueueInit
<1>3. Numbered(st, seq)
  BY <1>2 DEF Numbered
<1>4. \A q \in Queue : Loaded(st, q)
  <2> TAKE q \in Queue
  <2>1. Waiting(st, q) = {} /\ Active(st, q) = {}
    BY <1>2 DEF Waiting, Active, Running
  <2> QED
    BY <2>1, RequestTypes, FS_EmptySet DEF Loaded
<1>5. FairFacts(st, tag, last, virtualTime, fresh, passed)
  BY <1>2 DEF QueueInit, FairFacts, Clocked, Spaced, FreshWaits, PassedRan, Shares
<1> QED
  BY <1>1, <1>3, <1>4, <1>5 DEF QueueInv, Fair

LEMMA QueueStep == QueueInv /\ [QueueNext]_queueVars => QueueInv'
<1> SUFFICES ASSUME QueueInv, [QueueNext]_queueVars PROVE QueueInv'
  OBVIOUS
<1>1. ASSUME NEW r \in Req, Ask(r) PROVE QueueInv'
  BY <1>1, EnterKeeps DEF Ask
<1>2. ASSUME NEW r \in Req, AskPolitely(r) PROVE QueueInv'
  BY <1>2, MoveKeeps DEF AskPolitely, Places
<1>3. ASSUME NEW r \in Req, Poll(r) PROVE QueueInv'
  BY <1>3, EnterKeeps DEF Poll
<1>4. ASSUME NEW r \in Req, GiveUp(r) PROVE QueueInv'
  BY <1>4, MoveKeeps DEF GiveUp, Places
<1>5. ASSUME NEW r \in Req, Hold(r) PROVE QueueInv'
  BY <1>5, MoveKeeps DEF Hold, Places
<1>6. ASSUME NEW r \in Req, End(r) PROVE QueueInv'
  BY <1>6, EndKeeps
<1>7. ASSUME NEW a \in Caller, Forget(a) PROVE QueueInv'
  BY <1>7, ForgetKeeps
<1>8. CASE UNCHANGED queueVars
  BY <1>8 DEF queueVars, clock, QueueInv, QueueTyped, Numbered, Loaded, Waiting, Active, Fair, OneLine
<1> QED
  BY <1>1, <1>2, <1>3, <1>4, <1>5, <1>6, <1>7, <1>8 DEF QueueNext, Section

LEMMA QueueInvariant == QueueSpec => []QueueInv
BY QueueInitInv, QueueStep, PTL DEF QueueSpec

-----------------------------------------------------------------------------
(* Theorems *)

\* No queue runs more requests at once than it has slots, be the lease slow, requests
\* polite, or sections failing.
THEOREM SlotsAreKept == QueueSpec => [](\A q \in Queue : Cardinality(Active(st, q)) <= Slots[q])
<1>1. QueueInv => \A q \in Queue : Cardinality(Active(st, q)) <= Slots[q]
  BY DEF QueueInv, Loaded
<1> QED
  BY <1>1, QueueInvariant, PTL

\* No waiter is forgotten: whoever comes, ends or gives up, a queue that lets a request
\* wait has all its slots taken.
THEOREM NobodyForgotten == QueueSpec => []NobodyWaitsForNothing
<1>1. QueueInv => NobodyWaitsForNothing
  BY DEF QueueInv, Loaded, NobodyWaitsForNothing
<1> QED
  BY <1>1, QueueInvariant, PTL

\* While a request waits whose caller had no claim, no other caller is served more than
\* the request's own cost and one request beyond it: for all costs, callers and arrivals.
THEOREM FairToAll == QueueSpec => []FairShare
<1>1. ASSUME QueueInv PROVE FairShare
  <2> SUFFICES ASSUME staked, ~ Mixed, NEW r \in fresh, NEW a \in Caller \ {CallerOf[r]},
                      Theirs(passed, r, a) # {}
               PROVE  SumFunctionOnSet(Work, Theirs(passed, r, a))
                        <= Work[r] + Max({Work[o] : o \in Theirs(passed, r, a)})
    BY DEF FairShare, Theirs
  <2> DEFINE T == Theirs(passed, r, a)
  <2>1. QueueTyped /\ FairFacts(st, tag, last, virtualTime, fresh, passed)
    BY <1>1, MixedIsNotOne DEF QueueInv, Fair, QueueTyped
  <2>2. PICK m \in T, n \in Nat : n = SumFunctionOnSet(Work, T \ {m}) /\ n + tag[r] <= virtualTime + Work[r]
    BY <2>1 DEF FairFacts, Shares
  <2>3. r \in Req /\ virtualTime <= tag[r] /\ virtualTime \in Nat /\ tag[r] \in Nat /\ Work[r] \in Nat
    BY <2>1, RequestTypes DEF FairFacts, FreshWaits, Clocked, QueueTyped
  <2>4. n <= Work[r]
    BY <2>2, <2>3
  <2>5. T \in SUBSET Req
    BY <2>1, <2>3 DEF QueueTyped, Theirs
  <2>6. IsFiniteSet(T) /\ \A x \in T : Work[x] \in Nat
    BY <2>5, RequestTypes, FS_Subset
  <2> HIDE DEF T
  <2>7. SumFunctionOnSet(Work, T) = Work[m] + n
    BY <2>2, <2>6, SumSplit
  <2>8. Max({Work[o] : o \in T}) \in Nat /\ Work[m] <= Max({Work[o] : o \in T})
    BY <2>2, <2>6, Largest
  <2>9. Work[m] \in Nat
    BY <2>6
  <2>10. SumFunctionOnSet(Work, T) <= Work[r] + Max({Work[o] : o \in T})
    BY <2>2, <2>3, <2>4, <2>7, <2>8, <2>9
  <2> QED
    BY <2>10 DEF T
<1> QED
  BY <1>1, QueueInvariant, PTL
==============================================================================
