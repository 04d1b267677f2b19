---------------------------- MODULE HiredDelivery -----------------------------
(***************************************************************************)
(* Both ends of an order over the chain they share: the buyer's page of    *)
(* LiveHire creates and pays it, the agent of SellerDelivery finds it      *)
(* funded, works and submits.  Neither calls the other: the page asks the  *)
(* provider with notify_funded (services/live_erc8183.py), whose arrival   *)
(* is not certain, and the agent's sweep reads the chain.                  *)
(*                                                                         *)
(* `job' is the chain as the buyer's plans read it and `chain' what the    *)
(* agent's SDK tells of it: the second is computed from the first by every *)
(* step.  The page's provider, LiveHire's ProviderSubmits, is the agent's  *)
(* Send.  A job beyond the page's orders is one of another buyer.          *)
(***************************************************************************)
EXTENDS LiveHire, SellerDelivery

ASSUME OrdersAreJobs == Orders \subseteq Jobs

hiredVars == <<vars, sellerVars>>

-----------------------------------------------------------------------------

\* What verifySignedJob and submit see of an order: an expired one fails for good,
\* refunded or not, and one that was submitted is never funded again.
StatusSeen(row) ==
  CASE row.status \in {"none", "open"} -> "none"
    [] row.status = "funded"           -> IF row.expired THEN "lapsed" ELSE "funded"
    [] row.status = "expired"          -> "lapsed"
    [] OTHER                           -> "submitted"

SeenAs(rows) == [j \in Jobs |-> IF j \in Orders THEN StatusSeen(rows[j]) ELSE chain[j]]

HiredInit == Init /\ SellerInit

\* The page, the contracts, voters and time; no order is submitted here.
BuyerStep ==
  /\ Next
  /\ \A j \in Orders : job'[j].status = "submitted" => job[j].status = "submitted"
  /\ chain' = SeenAs(job')
  /\ UNCHANGED <<inflight, run, request, sweep, faults, restarts>>

\* The agent, and the jobs of other buyers; the orders are where they were.
AgentStep ==
  /\ SellerNext
  /\ \A j \in Orders : chain'[j] = chain[j]
  /\ UNCHANGED vars

\* The agent's transaction lands and its order is submitted.
Delivered(j, k) == Send(j, k) /\ chain'[j] = "submitted" /\ chain[j] # "submitted" /\ ProviderSubmits(j)

HiredNext ==
  \/ BuyerStep \/ AgentStep
  \/ \E j \in Orders, k \in Runs : Delivered(j, k)

HiredSpec == HiredInit /\ [][HiredNext]_hiredVars

-----------------------------------------------------------------------------
(* Properties *)

Working(j) == \E k \in Runs : run[j][k].stage \in {"work", "submit", "send"}

\* Work is done only for orders that are paid for and that the buyer can find again;
\* what the agent has submitted, and only that, is work for a deal it signed; and the
\* work of one plan is done for one order, however often the page created it.
WorkIsPaidFor ==
  /\ \A j \in Orders : Working(j) => j \in stored /\ Escrowed(j)
  /\ \A j \in Orders : chain[j] = "submitted" =>
       j \in Genuine /\ job[j].status \in {"submitted", "completed", "rejected"}
  /\ \A i, j \in Orders : Working(i) /\ Working(j) /\ job[i].plan = job[j].plan => i = j

===============================================================================
