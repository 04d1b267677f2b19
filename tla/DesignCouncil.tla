----------------------------- MODULE DesignCouncil -----------------------------
(***************************************************************************)
(* The council that reviews a design (plugins/adversarial.py): ten roles,  *)
(* each with a score and perhaps a veto, and the decision made of them.    *)
(*                                                                         *)
(* A proposal is what the roles find missing or too much in it: how many   *)
(* items of each kind, and what it says of Altana.  Every item found is an *)
(* attack and a required change of the decision; carrying a change out     *)
(* takes an item away.  Wording is left out.  An append to the ledger that *)
(* raises lets no decision out.                                            *)
(***************************************************************************)
EXTENDS Integers, FiniteSets

CONSTANT MaxAltered \* bound: kinds in which a proposal is worse than the default one

ASSUME CouncilConstantsOK == MaxAltered \in Nat

VARIABLES
  flaws,    \* the proposal: items of each kind
  altana,   \* what it says of Altana
  decision  \* what review last returned

councilVars == <<flaws, altana, decision>>

-----------------------------------------------------------------------------
(* Proposal *)

\* How many items of each kind there may be; days are those beyond ten.
Worst ==
  [path |-> 1, chat |-> 1, bsc |-> 1, hire |-> 1, signals |-> 6, unpaid |-> 1, unblinded |-> 1,
   categories |-> 4, extra |-> 1, supplier |-> 1, termix |-> 1, pancake |-> 1,
   controls |-> 7, services |-> 1, days |-> 12, evidence |-> 6]
Kinds == DOMAIN Worst

\* safehire_default.
DefaultProposal == [[k \in Kinds |-> 0] EXCEPT !.unpaid = 1, !.unblinded = 1, !.supplier = 1]

-----------------------------------------------------------------------------
(* _review_role *)

NoLess(floor, n) == IF n < floor THEN floor ELSE n

MainScore(f) == 94 - 12 * f.path - 18 * f.chat - 45 * f.bsc - 35 * f.hire
DataScore(f) == NoLess(0, 94 - 10 * f.signals - 8 * f.unpaid - 4 * f.unblinded)
DiversityScore(f) == NoLess(0, 95 - 20 * f.categories - 4 * f.extra - 8 * f.supplier)
TermixScore(f) == 91 - 43 * f.termix - 12 * f.unblinded
PancakeScore(f) == 90 - 35 * f.pancake - 4 * f.unpaid
AltanaScore(a) == CASE a = "unclaimed" -> 88 [] a = "live session" -> 92 [] a = "claimed" -> 42
SecurityScore(f) == 96 - 12 * f.controls
ArchitectScore(f) == 92 - 26 * f.services
\* Mutant: only the days beyond ten are charged.
ScheduleScoreBeyond(f) == IF f.days = 0 THEN 93 ELSE NoLess(40, 100 - 4 * f.days)
ScheduleScore(f) == IF f.days = 0 THEN 93 ELSE NoLess(40, 60 - 4 * f.days)
AuditorScore(f) == NoLess(0, 97 - 14 * f.evidence - 4 * f.unpaid)

\* The average is a tenth of the sum.
SumOfScores(f, a) ==
  MainScore(f) + DataScore(f) + DiversityScore(f) + TermixScore(f) + PancakeScore(f)
    + AltanaScore(a) + SecurityScore(f) + ArchitectScore(f) + ScheduleScore(f) + AuditorScore(f)

Vetoes(f) ==
  {r \in {"main", "data", "diversity", "termix", "security", "auditor"} :
    CASE r = "main"      -> f.bsc + f.hire > 0
      [] r = "data"      -> f.signals >= 3
      [] r = "diversity" -> f.categories > 0
      [] r = "termix"    -> f.termix > 0
      [] r = "security"  -> f.controls > 0
      [] r = "auditor"   -> f.evidence > 0}

-----------------------------------------------------------------------------
(* review, and what is made of a decision *)

NoDecision == [accepted |-> FALSE, vetoes |-> {}, changes |-> {}]

Decided(f, a) ==
  [accepted |-> SumOfScores(f, a) >= 780 /\ Vetoes(f) = {}, vetoes |-> Vetoes(f),
   changes |-> {k \in Kinds : f[k] > 0} \union (IF a = "claimed" THEN {"altana"} ELSE {})]

CouncilInit == flaws = DefaultProposal /\ altana = "unclaimed" /\ decision = NoDecision

Review ==
  /\ decision' = Decided(flaws, altana)
  /\ UNCHANGED <<flaws, altana>>
\* A required change is carried out in part: one item, or the session that was claimed.
CarryOut(k) ==
  /\ k \in decision.changes
  /\ IF k = "altana"
     THEN altana' = "live session" /\ UNCHANGED flaws
     ELSE flaws[k] > 0 /\ flaws' = [flaws EXCEPT ![k] = @ - 1] /\ UNCHANGED altana
  /\ UNCHANGED decision
\* The proposal is changed in one kind of item, for better or worse, until it is reviewed.
Rewrite(k) ==
  /\ decision = NoDecision
  /\ \E n \in 0 .. Worst[k] : flaws' = [flaws EXCEPT ![k] = n]
  /\ Cardinality({i \in Kinds : flaws'[i] > DefaultProposal[i]}) <= MaxAltered
  /\ altana' \in {"unclaimed", "claimed"}
  /\ UNCHANGED decision

CouncilNext == Review \/ (\E k \in Kinds : Rewrite(k)) \/ \E k \in Kinds \union {"altana"} : CarryOut(k)

CouncilSpec == CouncilInit /\ [][CouncilNext]_councilVars

-----------------------------------------------------------------------------
(* Properties *)

CouncilTypeOK ==
  /\ \A k \in Kinds : flaws[k] \in 0 .. Worst[k]
  /\ altana \in {"unclaimed", "claimed", "live session"}
  /\ decision.changes \subseteq Kinds \union {"altana"}

\* Whatever the council requires helps: no change it asks for, carried out, lowers the
\* average or brings a veto, so a design it accepted stays accepted while its remarks
\* are worked off.
CarryingOutHelps ==
  [][\A k \in Kinds \union {"altana"} : CarryOut(k) =>
       /\ SumOfScores(flaws', altana') >= SumOfScores(flaws, altana)
       /\ Vetoes(flaws') \subseteq Vetoes(flaws)
       /\ decision.accepted /\ decision = Decided(flaws, altana) => Decided(flaws', altana').accepted]_councilVars

===============================================================================
