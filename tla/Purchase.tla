----------------------------- MODULE Purchase -----------------------------
(***************************************************************************)
(* The buyer's side of a sale: buy, buyOne, presentPayment, finishPurchase  *)
(* and collect of src/src/market.ts over the pending_payments, purchases   *)
(* and blobs tables, for one knowledge.                                    *)
(*                                                                         *)
(* Calls (an operator's click, an agent, a subscription) interleave at     *)
(* their awaits, which are the values of pc.  Every quote has one row of   *)
(* pending_payments.  The seller is the environment: it settles a payment  *)
(* presented to it at most once (module Settlement), whoever still waits   *)
(* for the answer, and may always refuse or fail to answer.                *)
(***************************************************************************)
EXTENDS Naturals, FiniteSets, FiniteSetsExt

CONSTANTS
  Call,            \* the calls that may be under way together
  MaxQuotes,       \* bound: how many quotes are asked for
  Kinds,           \* the ledgers to consider: "ain", "local"
  FaithfulErrors,  \* a transfer that reports an error is never executed
  MayRepeat,       \* calls may ask to pay again (again: true)
  MaxCrashes       \* bound: how often the node stops

ASSUME PurchaseAssumption ==
  /\ MaxQuotes \in Nat /\ Kinds \subseteq {"ain", "local"}
  /\ FaithfulErrors \in BOOLEAN /\ MayRepeat \in BOOLEAN /\ MaxCrashes \in Nat

Quote == 1 .. MaxQuotes    \* row ids: later quotes have larger ones
NoQuote == 0

VARIABLES
  kind,      \* the ledger of buyer and seller
  row,       \* the status of each quote's row
  sent,      \* the quotes whose transfer was handed to the chain
  moved,     \* and those whose transfer it executed
  presented, \* the quotes presented to the seller
  expired,   \* the quotes older than ten minutes
  sold,      \* the quotes the seller has a settle record of
  shown,     \* those the buyer's catalogue shows
  receipt,   \* the purchases row: the quote it names
  body,      \* is the body here: "no", "yes"
  pc, at,    \* where each call is, and with which quote
  crashes,
  mishap,    \* history: what could make the node pay twice
  cut        \* history: the transfers whose outcome the node never wrote down

ledger == <<kind, expired, sold, shown>>
goods  == <<receipt, body>>
buyVars   == <<ledger, row, sent, moved, presented, goods, pc, at, crashes, mishap, cut>>

Paying == {"pricing", "recalling", "asking", "transferring", "presenting",
           "finishing", "booking"}
Collecting == {"redeeming", "fetching"}

BuyTypeOK ==
  /\ kind \in Kinds
  /\ row \in [Quote -> {"none", "quoted", "abandoned", "paid", "settled"}]
  /\ sent \in SUBSET Quote /\ moved \in SUBSET sent
  /\ presented \in SUBSET Quote
  /\ expired \in SUBSET {q \in Quote : row[q] # "none"}
  /\ sold \in SUBSET presented /\ shown \in SUBSET sold
  /\ receipt \in sold \cup {NoQuote}
  /\ body \in {"no", "yes"}
  /\ pc \in [Call -> {"idle"} \cup Paying \cup Collecting]
  /\ at \in [Call -> Quote \cup {NoQuote}]
  /\ crashes \in 0 .. MaxCrashes
  /\ mishap \in SUBSET {"again", "overlap", "unanswered", "unseen", "cut"}
  /\ cut \in SUBSET sent

BuyInit ==
  /\ kind \in Kinds
  /\ row = [q \in Quote |-> "none"]
  /\ sent = {} /\ moved = {} /\ presented = {} /\ expired = {}
  /\ sold = {} /\ shown = {}
  /\ receipt = NoQuote /\ body = "no"
  /\ pc = [c \in Call |-> "idle"]
  /\ at = [c \in Call |-> NoQuote]
  /\ crashes = 0 /\ mishap = {} /\ cut = {}

Go(c, place)      == pc' = [pc EXCEPT ![c] = place] /\ UNCHANGED at
GoWith(c, place, q) == pc' = [pc EXCEPT ![c] = place] /\ at' = [at EXCEPT ![c] = q]
Stop(c)           == GoWith(c, "idle", NoQuote)

\* History: a call that begins while another is under way.
Overlap(c) == IF \E o \in Call \ {c} : pc[o] # "idle" THEN {"overlap"} ELSE {}

\* listPending: the payments that left this node unanswered; the newest is taken.
Owed == {q \in Quote : row[q] = "paid"}

\* paidFor: a settlement the catalogue shows, or the purchases row.
PaidFor == shown # {} \/ receipt # NoQuote
-----------------------------------------------------------------------------
(* buy *)

\* The entry is on sale; not paid for yet, or paid again on purpose: the
\* family is priced and the seller's addresses are looked up.
Buy(c, again) ==
  /\ pc[c] = "idle"
  /\ again = "yes" => MayRepeat
  /\ ~PaidFor \/ again = "yes"
  /\ GoWith(c, "pricing", NoQuote)
  /\ mishap' = mishap \cup Overlap(c) \cup (IF again = "yes" THEN {"again"} ELSE {})
  /\ UNCHANGED <<ledger, row, sent, moved, presented, goods, crashes, cut>>

\* Mutant of Recall: the node asks for a new quote at once.
RecallNot(c) ==
  /\ pc[c] = "pricing"
  /\ Go(c, "asking")
  /\ UNCHANGED <<ledger, row, sent, moved, presented, goods, crashes, mishap, cut>>

\* A payment that already left this node is presented first.
Recall(c) ==
  /\ pc[c] = "pricing"
  /\ IF Owed # {}
       THEN /\ GoWith(c, "recalling", Max(Owed))
            /\ presented' = presented \cup {Max(Owed)}
            /\ UNCHANGED mishap
       ELSE /\ Go(c, "asking")
            /\ mishap' = IF sold # {} /\ "again" \notin mishap
                           THEN mishap \cup {"unseen"} ELSE mishap
            /\ UNCHANGED presented
  /\ UNCHANGED <<ledger, row, sent, moved, goods, crashes, cut>>

\* The gateway's 402, at the price the record lists: the row is written, then
\* an AIN transfer is handed to the chain; a credit intent is signed at once.
Quoted(c) ==
  /\ pc[c] = "asking"
  /\ \E q \in Quote :
       /\ row[q] = "none" /\ \A p \in 1 .. q - 1 : row[p] # "none"
       /\ IF kind = "ain"
            THEN /\ row' = [row EXCEPT ![q] = "quoted"]
                 /\ sent' = sent \cup {q}
                 /\ GoWith(c, "transferring", q)
                 /\ UNCHANGED presented
            ELSE /\ row' = [row EXCEPT ![q] = "paid"]
                 /\ presented' = presented \cup {q}
                 /\ GoWith(c, "presenting", q)
                 /\ UNCHANGED sent
  /\ UNCHANGED <<ledger, moved, goods, crashes, mishap, cut>>

\* A quote above the listed price is refused and its row abandoned.
Overpriced(c) ==
  /\ pc[c] = "asking"
  /\ \E q \in Quote :
       /\ row[q] = "none" /\ \A p \in 1 .. q - 1 : row[p] # "none"
       /\ row' = [row EXCEPT ![q] = "abandoned"]
  /\ Stop(c)
  /\ UNCHANGED <<ledger, sent, moved, presented, goods, crashes, mishap, cut>>

\* No gateway answers, or with an error; or the entry is not on sale.
Unreachable(c) ==
  /\ pc[c] \in {"pricing", "asking"}
  /\ Stop(c)
  /\ UNCHANGED <<ledger, row, sent, moved, presented, goods, crashes, mishap, cut>>
-----------------------------------------------------------------------------
(* The transfer *)

\* The chain executes a transfer it was handed, whoever waits for it.
Execute(q) ==
  /\ q \in sent \ moved
  /\ moved' = moved \cup {q}
  /\ UNCHANGED <<ledger, row, sent, presented, goods, pc, at, crashes, mishap, cut>>

\* Mutant of Transferred: the payment is presented before it is written down.
TransferredUnwritten(c) ==
  /\ pc[c] = "transferring" /\ at[c] \in moved
  /\ presented' = presented \cup {at[c]}
  /\ Go(c, "presenting")
  /\ UNCHANGED <<ledger, row, sent, moved, goods, crashes, mishap, cut>>

\* Written down before the payment is presented.
Transferred(c) ==
  /\ pc[c] = "transferring" /\ at[c] \in moved
  /\ row' = [row EXCEPT ![at[c]] = "paid"]
  /\ presented' = presented \cup {at[c]}
  /\ Go(c, "presenting")
  /\ UNCHANGED <<ledger, sent, moved, goods, crashes, mishap, cut>>

\* An error: nothing was executed if errors are faithful.
NotTransferred(c) ==
  LET q == at[c]
  IN  /\ pc[c] = "transferring"
      /\ row' = [row EXCEPT ![q] = "abandoned"]
      /\ IF FaithfulErrors
           THEN q \notin moved /\ sent' = sent \ {q} /\ UNCHANGED <<mishap, cut>>
           ELSE mishap' = mishap \cup {"cut"} /\ cut' = cut \cup {q} /\ UNCHANGED sent
      /\ Stop(c)
      /\ UNCHANGED <<ledger, moved, presented, goods, crashes>>
-----------------------------------------------------------------------------
(* The seller, its record and time *)

\* settlePayment: once per payment, and only for money that is there.
Settle(q) ==
  /\ q \in presented \ (sold \cup expired)
  /\ kind = "ain" => q \in moved
  /\ sold' = sold \cup {q}
  /\ UNCHANGED <<kind, expired, shown, row, sent, moved, presented, goods, pc, at,
                 crashes, mishap, cut>>

\* The settle record reaches this node's catalogue.
Show(q) ==
  /\ q \in sold \ shown
  /\ shown' = shown \cup {q}
  /\ UNCHANGED <<kind, expired, sold, row, sent, moved, presented, goods, pc, at,
                 crashes, mishap, cut>>

Expire(q) ==
  /\ row[q] # "none" /\ q \notin expired
  /\ expired' = expired \cup {q}
  /\ UNCHANGED <<kind, sold, shown, row, sent, moved, presented, goods, pc, at,
                 crashes, mishap, cut>>
-----------------------------------------------------------------------------
(* presentPayment and finishPurchase *)

\* The manifest is in hand: the row is settled.
Answered(c) ==
  /\ pc[c] \in {"presenting", "recalling", "redeeming"}
  /\ at[c] \in sold
  /\ row' = [row EXCEPT ![at[c]] = "settled"]
  /\ Go(c, "finishing")
  /\ UNCHANGED <<ledger, sent, moved, presented, goods, crashes, mishap, cut>>

\* Refused, or never answered: the row stays paid (and is written so, over
\* whatever another call has made of it meanwhile).
Rejected(c) ==
  /\ pc[c] = "presenting"
  /\ row' = [row EXCEPT ![at[c]] = "paid"]
  /\ Stop(c)
  /\ UNCHANGED <<ledger, sent, moved, presented, goods, crashes, mishap, cut>>

\* buyOne goes on to a new quote when an old payment is not taken.
RecallFails(c) ==
  /\ pc[c] = "recalling"
  /\ GoWith(c, "asking", NoQuote)
  /\ mishap' = mishap \cup {"unanswered"}
  /\ UNCHANGED <<ledger, row, sent, moved, presented, goods, crashes, cut>>

\* The body is fetched and is the one the record names, or was here already.
Download(c) ==
  /\ pc[c] = "finishing"
  /\ body' = "yes"
  /\ Go(c, "booking")
  /\ UNCHANGED <<ledger, row, sent, moved, presented, receipt, crashes, mishap, cut>>

\* The payees are named: the purchases row and the licence are written.
Book(c) ==
  /\ pc[c] = "booking"
  /\ receipt' = at[c]
  /\ Stop(c)
  /\ UNCHANGED <<ledger, row, sent, moved, presented, body, crashes, mishap, cut>>

\* Nobody serves the body, or it is another one: the row is settled already.
NoBody(c) ==
  /\ pc[c] \in {"finishing", "fetching", "redeeming"}
  /\ Stop(c)
  /\ UNCHANGED <<ledger, row, sent, moved, presented, goods, crashes, mishap, cut>>
-----------------------------------------------------------------------------
(* collect *)

\* Asked for, or reached by a buy of what is paid for: an owed payment is
\* presented again; else the body is fetched on a settlement the catalogue shows.
Collect(c) ==
  /\ pc[c] = "idle"
  /\ ~(receipt # NoQuote /\ body = "yes")
  /\ \/ /\ Owed # {}
        /\ GoWith(c, "redeeming", Max(Owed))
        /\ presented' = presented \cup {Max(Owed)}
     \/ /\ Owed = {} /\ shown # {}
        /\ GoWith(c, "fetching", Max(shown))
        /\ UNCHANGED presented
  /\ mishap' = mishap \cup Overlap(c)
  /\ UNCHANGED <<ledger, row, sent, moved, goods, crashes, cut>>

Fetch(c) ==
  /\ pc[c] = "fetching"
  /\ body' = "yes" /\ receipt' = at[c]
  /\ Stop(c)
  /\ UNCHANGED <<ledger, row, sent, moved, presented, crashes, mishap, cut>>

\* forgetBody and gc: the body may go, the purchase stays.
ForgetBody ==
  /\ body = "yes" /\ body' = "no"
  /\ UNCHANGED <<ledger, row, sent, moved, presented, receipt, pc, at, crashes,
                 mishap, cut>>
-----------------------------------------------------------------------------
\* The node stops and is started again: the calls are gone, the chain and the
\* seller go on.
Crash ==
  /\ crashes < MaxCrashes
  /\ crashes' = crashes + 1
  /\ LET left == {at[c] : c \in {o \in Call : pc[o] = "transferring"}}
     IN  /\ cut' = cut \cup left
         /\ mishap' = IF left # {} THEN mishap \cup {"cut"} ELSE mishap
  /\ pc' = [c \in Call |-> "idle"] /\ at' = [c \in Call |-> NoQuote]
  /\ UNCHANGED <<ledger, row, sent, moved, presented, goods>>

BuyNext ==
  \/ \E c \in Call :
       \/ \E again \in {"no", "yes"} : Buy(c, again)
       \/ Recall(c) \/ Quoted(c) \/ Overpriced(c) \/ Unreachable(c)
       \/ Transferred(c) \/ NotTransferred(c)
       \/ Answered(c) \/ Rejected(c) \/ RecallFails(c)
       \/ Download(c) \/ Book(c) \/ NoBody(c) \/ Collect(c) \/ Fetch(c)
  \/ \E q \in Quote : Execute(q) \/ Settle(q) \/ Show(q) \/ Expire(q)
  \/ ForgetBody \/ Crash

BuySpec == BuyInit /\ [][BuyNext]_buyVars
-----------------------------------------------------------------------------
(* Properties *)

\* What the purchase has cost: transfers executed, or credit spent.
Charged == IF kind = "ain" THEN moved ELSE sold

\* Money that has moved is on record as paid or settled, where the next call
\* finds it (item 274), but for a transfer whose outcome never reached a row.
MoneyIsOnRecord ==
  \A q \in moved :
    \/ row[q] \in {"paid", "settled"}
    \/ \E c \in Call : pc[c] = "transferring" /\ at[c] = q
    \/ q \in cut

\* A row is settled, and a purchase recorded, only for a payment the seller
\* has settled: whichever call presented it, whichever answer came first.
SettledIsSold ==
  /\ \A q \in Quote : row[q] = "settled" => q \in sold
  /\ receipt # NoQuote => row[receipt] \in {"paid", "settled"} /\ receipt \in sold

\* The price is paid once (items 271-274), unless the caller asks to pay
\* again, two calls overlap, an unanswered payment is not taken a second time,
\* the seller's record is not seen in time, or a transfer's outcome is lost.
NeverPaidTwice == mishap = {} => Cardinality(Charged) <= 1

\* "A payment that already left this node and was never answered is finished
\* first - never paid twice" (the comment in buyOne).
PaidOnce == Cardinality(Charged) <= 1
=============================================================================
