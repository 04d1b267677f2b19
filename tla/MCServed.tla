------------------------------- MODULE MCServed -------------------------------
(***************************************************************************)
(* What somebody waits for, for TLC: an order of a buyer, and a job of the *)
(* seller.  `part' names the component whose steps are taken; the other    *)
(* one stays as it starts, where its fairness asks for nothing: no action  *)
(* of Fairness or AnswersCome is enabled then.                             *)
(***************************************************************************)
EXTENDS LiveHire, SellerDelivery

CONSTANTS j1, j2, k1, k2, q1, s1

VARIABLE part

ServedInit == part \in {"hire", "seller"} /\ Init /\ SellerInit

ServedNext ==
  /\ part' = part
  /\ \/ part = "hire" /\ Next /\ UNCHANGED sellerVars
     \/ part = "seller" /\ SellerNext /\ UNCHANGED vars

ServedSpec ==
  /\ ServedInit /\ [][ServedNext]_<<part, vars, sellerVars>>
  /\ Fairness /\ AnswersCome
  /\ WF_sellerVars(part = "seller" /\ NotifyBare)
===============================================================================
