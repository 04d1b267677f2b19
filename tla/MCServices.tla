------------------------------ MODULE MCServices ------------------------------
(***************************************************************************)
(* The components whose processes or pages run on, for TLC: one run checks *)
(* all four, which share no state but for the order in which the page and  *)
(* the seller's agent meet.  `part' names the component, or the pair, whose*)
(* steps are taken; the others stay as they start.                         *)
(***************************************************************************)
EXTENDS HiredDelivery, WatchJournal, PushOutbox

CONSTANTS k1, k2, q1, q2, s1, s2, w1, b1, a1, a2
CONSTANT Parts \* the components a run checks

ASSUME PartsAreKnown == Parts \subseteq {"hire", "seller", "hired", "watch", "push"}

VARIABLE part

MCJobOf == [w \in Watches |-> b1]

ServicesInit == part \in Parts /\ Init /\ SellerInit /\ WatchInit /\ PushInit

Waits(ps, u) == IF part \in ps THEN TRUE ELSE u
OthersWait ==
  /\ part' = part
  /\ Waits({"hire", "hired"}, UNCHANGED vars) /\ Waits({"seller", "hired"}, UNCHANGED sellerVars)
  /\ Waits({"watch"}, UNCHANGED watchVars) /\ Waits({"push"}, UNCHANGED pushVars)

\* Bound: alone, the agent is asked of one job of another buyer; with the page, of
\* the page's orders.
AskedOnlyOf(jobs) == \A j \in Jobs \ jobs : chain'[j] = "none" /\ \A q \in Requests : request'[q].job # j

\* Bounds of the pair: one pending transaction, one notification and one sweep at a
\* time, the one for an order that exists and the other once one is paid for; from then
\* on the page sends what is left of its plan, or is opened anew and not connected;
\* quotes stay current, and nothing is repriced, disputed or fails.
Asked(q) == request'[q].stage = "asked" /\ request'[q] # request[q]
IsPaidFor == \E j \in Orders : Escrowed(j)
OneOfEach ==
  /\ Len(pool') <= 1
  /\ \A q \in Requests \ {q1} : request'[q] = NoRequest
  /\ ~(Asked(q1) /\ job[request'[q1].job].status = "none")
  /\ \A s \in Sweeps \ {s1} : sweep'[s] = NoSweep
  /\ ~(sweep' # sweep /\ ~IsPaidFor)
Calm ==
  /\ ~(IsPaidFor /\ page' # page /\ page'.owner /\ pool' = pool)
  /\ quote' = quote /\ faults' = 0 /\ restarts' = 0
  /\ \A j \in Orders : job'[j].budget # Other /\ ~job'[j].disputed

ServicesNext ==
  \/ part = "hire" /\ Next /\ OthersWait
  \/ part = "seller" /\ SellerNext /\ AskedOnlyOf(Jobs \ Orders) /\ OthersWait
  \/ part = "hired" /\ HiredNext /\ AskedOnlyOf(Orders) /\ OneOfEach /\ Calm /\ OthersWait
  \/ part = "watch" /\ WatchNext /\ OthersWait
  \/ part = "push" /\ PushNext /\ OthersWait

ServicesSpec == ServicesInit /\ [][ServicesNext]_<<part, vars, sellerVars, watchVars, pushVars>>

\* Every component keeps to its types.
TypesOK ==
  CASE part = "hire" -> TypeOK
    [] part = "seller" -> SellerTypeOK
    [] part = "hired" -> TypeOK /\ SellerTypeOK
    [] part = "watch" -> WatchTypeOK
    [] part = "push" -> PushTypeOK
===============================================================================
