------------------------------- MODULE LiveHire -------------------------------
(***************************************************************************)
(* The buyer of a live ERC-8183 order: the page assets/live-hire.js and    *)
(* the plans services/live_erc8183.py makes for it.  The server holds no   *)
(* state: every plan is read from the chain.  The page keeps a list of     *)
(* transactions and the steps that are confirmed, the wallet sends, and    *)
(* browser storage remembers the orders whose number the page has seen.    *)
(*                                                                         *)
(* An action of the page is what JavaScript runs between two awaits, so    *)
(* that the other buttons may be pressed while a receipt or a plan is      *)
(* awaited.  A page may be reloaded or left at any time, which forgets its *)
(* memory and none of its transactions.                                    *)
(*                                                                         *)
(* Abstractions.  One wallet, one price, always enough funds, one page at  *)
(* a time.  Time is whether a quote is current, an order expired and its   *)
(* review window closed.  Contracts and provider are external; the call of *)
(* the provider is modelled in WatchJournal.                               *)
(***************************************************************************)
EXTENDS Integers, Sequences

CONSTANTS
  MaxPlans,  \* bound: signed plans the buyer asks for
  MaxOrders,   \* bound: orders created on chain
  MaxPool    \* bound: transactions sent and not mined

ASSUME HireConstantsOK == {MaxPlans, MaxOrders, MaxPool} \subseteq Nat

VARIABLES
  job,        \* orders on chain
  allowance,  \* what Commerce may take of the buyer's tokens
  pool,       \* transactions sent and not mined, in order of their nonce
  quote,      \* whether the quote of each plan is current
  plans,      \* plans made so far
  stored,     \* orders in browser storage
  page        \* memory of the open page

vars == <<job, allowance, pool, quote, plans, stored, page>>

-----------------------------------------------------------------------------

Orders == 1 .. MaxOrders
Plans == 1 .. MaxPlans
NoOrder == 0
Price == 1
Other == 2   \* a budget that is not the signed price

\* "none" until the order is created.
Status == {"none", "open", "funded", "submitted", "completed", "rejected", "expired"}
Verdicts == {"undecided", "approve", "reject"}
JobRow == [status: Status, plan: 0 .. MaxPlans, budget: {0, Price, Other}, policy: BOOLEAN,
           expired: BOOLEAN, closed: BOOLEAN, disputed: BOOLEAN, verdict: Verdicts]
NewJob(status, p) ==
  [status |-> status, plan |-> p, budget |-> 0, policy |-> FALSE, expired |-> FALSE,
   closed |-> FALSE, disputed |-> FALSE, verdict |-> "undecided"]

Steps == {"create_job", "register_job", "set_budget", "approve_u", "fund_job",
          "dispute_job", "settle_job", "refund_job"}
Tx(s, j, p) == [step |-> s, job |-> j, plan |-> p]
Txs == [step: Steps, job: Orders \union {NoOrder}, plan: 0 .. MaxPlans]
NoTx == Tx("create_job", NoOrder, 0)

\* `stage' is where sendNext or sendFinal waits: for the wallet, for the receipt, for
\* the rest of the plan.  `said' is the order the page calls funded; `review' is
\* whether a delivery is shown and confirmed; `settle' and `refund' are the orders
\* whose last transaction the page holds.
Stages == {"idle", "wallet", "receipt", "followup"}
Page == [owner: BOOLEAN, quoted: BOOLEAN, url: Orders \union {NoOrder}, job: Orders \union {NoOrder},
         txs: Seq(Txs), results: SUBSET Steps, stage: Stages, sending: Txs,
         resuming: BOOLEAN, said: Orders \union {NoOrder}, review: {"none", "shown", "confirmed"},
         settle: Orders \union {NoOrder}, refund: Orders \union {NoOrder}]

Opened(j, quoted) ==
  [owner |-> FALSE, quoted |-> quoted, url |-> j, job |-> NoOrder, txs |-> <<>>, results |-> {},
   stage |-> "idle", sending |-> NoTx, resuming |-> FALSE, said |-> NoOrder,
   review |-> "none", settle |-> NoOrder, refund |-> NoOrder]

Init ==
  /\ job = [j \in Orders |-> NewJob("none", 0)]
  /\ allowance = 0
  /\ pool = <<>>
  /\ quote = [p \in Plans |-> TRUE]
  /\ plans = 0
  /\ stored = {}
  /\ page = Opened(NoOrder, TRUE)

-----------------------------------------------------------------------------
(* What the server reads from the chain. *)

\* live_job_status refuses an open order whose quote has lapsed, and a funded one
\* whose budget is not the signed price.
Readable(j) ==
  /\ job[j].status # "none"
  /\ job[j].status = "open" => quote[job[j].plan]
  /\ job[j].status # "open" => job[j].budget = Price
CanRefund(j) == job[j].status = "funded" /\ job[j].expired
\* Mutant: only an approval is final.
CanSettleApproved(j) == job[j].status = "submitted" /\ job[j].verdict = "approve" /\ job[j].closed
CanSettle(j) ==
  /\ job[j].status = "submitted"
  /\ job[j].verdict = "reject" \/ (job[j].verdict = "approve" /\ job[j].closed)
CanDispute(j) == job[j].status = "submitted" /\ ~job[j].disputed /\ ~job[j].closed

\* live_followup_plan: the transactions an open order still lacks.
Plannable(j) == Readable(j) /\ job[j].status = "open" /\ job[j].budget \in {0, Price}
Needed(needed, s, j) == IF needed THEN <<Tx(s, j, 0)>> ELSE <<>>
Followup(j) ==
  Needed(~job[j].policy, "register_job", j) \o Needed(job[j].budget = 0, "set_budget", j)
    \o Needed(allowance # Price, "approve_u", j) \o <<Tx("fund_job", j, 0)>>

-----------------------------------------------------------------------------
(* The page: opening it, preparing a plan, resuming an order. *)

\* No page waits for the receipts of what was sent.
Unwatched == [i \in DOMAIN pool |-> [pool[i] EXCEPT !.watched = FALSE]]

\* A service link asks for a quote; an order link asks for none, and so no plan can
\* be prepared there; the bare page does both, for the order saved last.
OpenService ==
  /\ page' = Opened(NoOrder, TRUE)
  /\ pool' = Unwatched
  /\ UNCHANGED <<job, allowance, quote, plans, stored>>
OpenOrder(j) ==
  /\ j \in stored
  /\ \E quoted \in BOOLEAN : page' = Opened(j, quoted)
  /\ pool' = Unwatched
  /\ UNCHANGED <<job, allowance, quote, plans, stored>>

\* inspectDelivery: the delivery is shown, to be confirmed, and may be settled.
Inspected(pg, j) ==
  [pg EXCEPT !.review = "shown", !.settle = IF CanSettle(j) THEN j ELSE pg.settle]

Resumed(pg, j) ==
  LET known == [pg EXCEPT !.job = j, !.url = j, !.said = NoOrder] IN
  CASE job[j].status = "open"                       -> [known EXCEPT !.resuming = TRUE]
    [] CanRefund(j)                                 -> [known EXCEPT !.refund = j]
    [] job[j].status \in {"submitted", "completed"} -> Inspected(known, j)
    [] OTHER                                        -> known

\* connectWallet; an order named in the address is read and resumed.
Connect ==
  /\ page' = LET pg == [page EXCEPT !.owner = TRUE] IN
             IF pg.url # NoOrder /\ Readable(pg.url) THEN Resumed(pg, pg.url) ELSE pg
  /\ UNCHANGED <<job, allowance, pool, quote, plans, stored>>

\* resumeJob, after its second await: the plan replaces what the page had.
ResumePlan ==
  /\ page.resuming
  /\ \/ /\ Plannable(page.url)
        /\ page' = [page EXCEPT !.resuming = FALSE, !.txs = Followup(page.url), !.results = {}]
     \/ page' = [page EXCEPT !.resuming = FALSE]
  /\ UNCHANGED <<job, allowance, pool, quote, plans, stored>>

\* prepareHire.  It does not look whether a transaction is under way.
Prepare ==
  /\ page.owner /\ page.quoted /\ plans < MaxPlans
  /\ plans' = plans + 1
  /\ page' = [page EXCEPT !.txs = <<Tx("create_job", NoOrder, plans + 1)>>, !.results = {},
                         !.job = NoOrder, !.said = NoOrder]
  /\ UNCHANGED <<job, allowance, pool, quote, stored>>

-----------------------------------------------------------------------------
(* sendNext and sendFinal *)

\* The contracts: when a transaction would succeed.
FreeNumbers == {j \in Orders : job[j].status = "none"}
Succeeds(tx) ==
  CASE tx.step = "create_job"   -> FreeNumbers # {}
    [] tx.step = "register_job" -> job[tx.job].status = "open" /\ ~job[tx.job].policy
    [] tx.step = "set_budget"   -> job[tx.job].status = "open"
    [] tx.step = "approve_u"    -> TRUE
    [] tx.step = "fund_job"     -> /\ job[tx.job].status = "open" /\ job[tx.job].policy
                                   /\ job[tx.job].budget = Price /\ allowance >= Price
    [] tx.step = "dispute_job"  -> CanDispute(tx.job)
    [] tx.step = "settle_job"   -> job[tx.job].status = "submitted" /\ job[tx.job].verdict # "undecided"
    [] tx.step = "refund_job"   -> CanRefund(tx.job)

\* preflightTransaction: only the first transaction has a time limit.
Preflight(tx) == (tx.step = "create_job" => quote[tx.plan]) /\ Succeeds(tx)

Left(pg) == {i \in DOMAIN pg.txs : pg.txs[i].step \notin pg.results}
IsCurrent(pg, i) == i \in Left(pg) /\ \A k \in Left(pg) : i <= k

\* Mutant: a second click is not held back by the first.
FreeToSendAlways == page.owner
FreeToSend == page.owner /\ page.stage = "idle"

ToWallet(tx) ==
  /\ Preflight(tx)
  /\ page' = [page EXCEPT !.stage = "wallet", !.sending = tx]
  /\ UNCHANGED <<job, allowance, pool, quote, plans, stored>>

SendNext == FreeToSend /\ \E i \in DOMAIN page.txs : IsCurrent(page, i) /\ ToWallet(page.txs[i])
SendRefund == FreeToSend /\ page.refund # NoOrder /\ ToWallet(Tx("refund_job", page.refund, 0))
SendSettle ==
  FreeToSend /\ page.settle # NoOrder /\ page.review = "confirmed" /\ ToWallet(Tx("settle_job", page.settle, 0))
\* prepareDispute reads the chain once more.
SendDispute ==
  /\ FreeToSend /\ page.job # NoOrder /\ CanDispute(page.job)
  /\ ToWallet(Tx("dispute_job", page.job, 0))

WalletSends ==
  /\ page.stage = "wallet" /\ Len(pool) < MaxPool
  /\ pool' = Append(pool, [tx |-> page.sending, watched |-> TRUE])
  /\ page' = [page EXCEPT !.stage = "receipt"]
  /\ UNCHANGED <<job, allowance, quote, plans, stored>>

\* The buyer refuses, or six minutes pass without a receipt: the step may be retried.
GiveUp ==
  /\ page.stage \in {"wallet", "receipt"}
  /\ page' = [page EXCEPT !.stage = "idle", !.sending = NoTx]
  /\ pool' = Unwatched
  /\ UNCHANGED <<job, allowance, quote, plans, stored>>

\* The contracts: what a transaction does.
EndedOrder(j, status) == [NewJob(status, job[j].plan) EXCEPT !.budget = job[j].budget]
Applied(tx, j) ==
  CASE tx.step = "create_job"   -> [job EXCEPT ![j] = NewJob("open", tx.plan)]
    [] tx.step = "register_job" -> [job EXCEPT ![j].policy = TRUE]
    [] tx.step = "set_budget"   -> [job EXCEPT ![j].budget = Price]
    [] tx.step = "approve_u"    -> job
    [] tx.step = "fund_job"     -> [job EXCEPT ![j].status = "funded"]
    [] tx.step = "dispute_job"  -> [job EXCEPT ![j].disputed = TRUE]
    [] tx.step = "refund_job"   -> [job EXCEPT ![j] = EndedOrder(j, "expired")]
    [] tx.step = "settle_job"   ->
         [job EXCEPT ![j] = EndedOrder(j, IF job[j].verdict = "approve" THEN "completed" ELSE "rejected")]
Allowed(tx) ==
  CASE tx.step = "approve_u" -> Price
    [] tx.step = "fund_job"  -> allowance - Price
    [] OTHER                 -> allowance

\* What the page does with the receipt of a transaction that succeeded.  With the
\* order's number it stores it at once, then asks for the rest of the plan;
\* otherwise the order is called funded when nothing is left.
Confirmed(pg, tx) ==
  LET done == [pg EXCEPT !.results = pg.results \union {tx.step}, !.stage = "idle", !.sending = NoTx] IN
  IF tx.step \in {"dispute_job", "settle_job", "refund_job"} \/ Left(done) # {} THEN done
  ELSE [done EXCEPT !.said = pg.job]
Created(pg, j) ==
  [pg EXCEPT !.results = pg.results \union {"create_job"}, !.job = j, !.url = j, !.stage = "followup"]
Failed(pg) == [pg EXCEPT !.stage = "idle", !.sending = NoTx]

Stored(j) == stored \union {j}

\* The next transaction is mined; the page sees the receipt if it still waits.
Mine ==
  /\ pool # <<>>
  /\ pool' = Tail(pool)
  /\ LET tx == Head(pool).tx
         seen == Head(pool).watched
     IN
     \/ /\ tx.step = "create_job" /\ Succeeds(tx)
        /\ \E j \in FreeNumbers :
             /\ \A k \in FreeNumbers : j <= k
             /\ job' = Applied(tx, j)
             /\ stored' = IF seen THEN Stored(j) ELSE stored
             /\ page' = IF seen THEN Created(page, j) ELSE page
        /\ UNCHANGED allowance
     \/ /\ tx.step # "create_job" /\ Succeeds(tx)
        /\ job' = Applied(tx, tx.job) /\ allowance' = Allowed(tx)
        /\ page' = IF seen THEN Confirmed(page, tx) ELSE page
        /\ UNCHANGED stored
     \/ /\ ~Succeeds(tx)
        /\ page' = IF seen THEN Failed(page) ELSE page
        /\ UNCHANGED <<job, allowance, stored>>
  /\ UNCHANGED <<quote, plans>>

\* sendNext, after the plan of a new order arrived: it is appended to what the page
\* has by now.  A refused or failed read leaves the page without a next step.
ReceivePlan ==
  /\ page.stage = "followup"
  /\ \/ /\ Plannable(page.url)
        /\ page' = LET pg == [page EXCEPT !.txs = page.txs \o Followup(page.url),
                                         !.stage = "idle", !.sending = NoTx]
                   IN IF Left(pg) # {} THEN pg ELSE [pg EXCEPT !.said = pg.job]
     \/ page' = Failed(page)
  /\ UNCHANGED <<job, allowance, pool, quote, plans, stored>>

-----------------------------------------------------------------------------
(* Delivery and review. *)

CheckDelivery ==
  LET j == page.job IN
  /\ j # NoOrder /\ Readable(j)
  /\ page' = CASE job[j].status \in {"submitted", "completed"} -> Inspected(page, j)
              [] CanRefund(j)                                 -> [page EXCEPT !.refund = j]
              [] OTHER                                        -> page
  /\ UNCHANGED <<job, allowance, pool, quote, plans, stored>>

ConfirmReview ==
  /\ page.review = "shown"
  /\ page' = [page EXCEPT !.review = "confirmed"]
  /\ UNCHANGED <<job, allowance, pool, quote, plans, stored>>

-----------------------------------------------------------------------------
(* Provider, policy and time. *)

Outside(j, row) ==
  /\ job' = [job EXCEPT ![j] = row]
  /\ UNCHANGED <<allowance, pool, quote, plans, stored, page>>

\* The provider names another budget while the order is open.
Reprice(j) == job[j].status = "open" /\ Outside(j, [job[j] EXCEPT !.budget = Other])
ProviderSubmits(j) ==
  job[j].status = "funded" /\ ~job[j].expired /\ Outside(j, [job[j] EXCEPT !.status = "submitted"])
CloseWindow(j) == job[j].status = "submitted" /\ Outside(j, [job[j] EXCEPT !.closed = TRUE])
\* The policy approves in silence once the window is closed; voters decide a dispute.
Decide(j) ==
  /\ job[j].status = "submitted" /\ job[j].verdict = "undecided"
  /\ \/ ~job[j].disputed /\ job[j].closed /\ Outside(j, [job[j] EXCEPT !.verdict = "approve"])
     \/ job[j].disputed /\ \E v \in {"approve", "reject"} : Outside(j, [job[j] EXCEPT !.verdict = v])
Expire(j) == job[j].status = "funded" /\ Outside(j, [job[j] EXCEPT !.expired = TRUE])
QuoteLapses(p) ==
  /\ p <= plans /\ quote[p]
  /\ quote' = [quote EXCEPT ![p] = FALSE]
  /\ UNCHANGED <<job, allowance, pool, plans, stored, page>>

Next ==
  \/ OpenService \/ Connect \/ ResumePlan \/ Prepare
  \/ SendNext \/ SendRefund \/ SendSettle \/ SendDispute
  \/ WalletSends \/ GiveUp \/ Mine \/ ReceivePlan \/ CheckDelivery \/ ConfirmReview
  \/ \E j \in Orders : OpenOrder(j) \/ Reprice(j) \/ ProviderSubmits(j) \/ CloseWindow(j) \/ Decide(j) \/ Expire(j)
  \/ \E p \in Plans : QuoteLapses(p)

Spec == Init /\ [][Next]_vars

\* The buyer comes back to each order and presses what the page offers for it, again
\* and again; the chain mines; time passes; voters vote.
Fairness ==
  /\ WF_vars(Mine)
  /\ \A j \in Orders :
       /\ WF_vars(CloseWindow(j)) /\ WF_vars(Decide(j)) /\ WF_vars(Expire(j))
       /\ SF_vars(OpenOrder(j)) /\ SF_vars(Connect /\ page.url = j)
       /\ SF_vars(ConfirmReview /\ page.settle = j)
       /\ SF_vars(SendRefund /\ page.refund = j) /\ SF_vars(SendSettle /\ page.settle = j)
       /\ SF_vars(WalletSends /\ page.sending.step \in {"refund_job", "settle_job"} /\ page.sending.job = j)

FairSpec == Spec /\ Fairness

-----------------------------------------------------------------------------
(* Properties *)

Escrowed(j) == job[j].status \notin {"none", "open"}

TypeOK ==
  /\ job \in [Orders -> JobRow] /\ allowance \in {0, Price}
  /\ pool \in Seq([tx: Txs, watched: BOOLEAN])
  /\ quote \in [Plans -> BOOLEAN] /\ plans \in 0 .. MaxPlans /\ stored \subseteq Orders
  /\ page \in Page

\* Money is in escrow only for orders whose number the browser has stored, wherever
\* the page was left: the buyer can always come back to it.
EscrowIsRecoverable == \A j \in Orders : Escrowed(j) => j \in stored

\* One signed plan is paid once, also when creating its order was sent again after
\* a receipt that did not come: of the orders of one plan only one is in escrow, or
\* stored where the page could go on paying for it.
OneEscrowPerPlan ==
  LET payable == stored \union {j \in Orders : Escrowed(j)} IN
  \A j, k \in payable : job[j].plan = job[k].plan => j = k

\* What is in escrow is paid out or returned in the end.
EscrowIsReleased ==
  \A j \in Orders : job[j].status \in {"funded", "submitted"}
                    ~> job[j].status \in {"completed", "rejected", "expired"}

\* The page calls an order funded only when it is.
FundedMeansFunded == page.said # NoOrder => Escrowed(page.said)

\* A plan's escrow is one the buyer can come back to, and there is no second one.
EscrowIsSafe == EscrowIsRecoverable /\ OneEscrowPerPlan

=============================================================================
