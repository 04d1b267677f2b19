----------------------------- MODULE EvidenceGates -----------------------------
(***************************************************************************)
(* The readiness gate (services/submission.py) and the scorecard of the    *)
(* judges (judging/scorecard.py), over files that other processes write:   *)
(* the refresh of the catalog (scripts/refresh_live_agent_catalog.py) and  *)
(* people who edit them.                                                   *)
(*                                                                         *)
(* A piece of evidence is "sound" when its file has the form its check     *)
(* asks for; what that form is, is left out.  Anyone may write a file that *)
(* is.  The catalog is told apart further: its age in days, and which      *)
(* categories have a supplier of which only a reading of the registry is   *)
(* kept, listed after the four with a registration transaction.            *)
(***************************************************************************)
EXTENDS Integers, FiniteSets

CONSTANTS
  Categories,
  MaxUnsound  \* bound: pieces unsound at once

ASSUME GatesConstantsOK == IsFiniteSet(Categories) /\ MaxUnsound \in Nat

VARIABLES
  sound,     \* pieces of evidence whose file is as its check wants it
  catalog,   \* live-agent-catalog.json
  refresh,   \* a run of the refresh script
  replayed,  \* the delivery a run of the scorecard script has replayed, if any
  gate,      \* the result of SubmissionValidator.run it holds
  confirmed  \* days since the chain confirmed the four registrations (for properties only)

gatesVars == <<sound, catalog, refresh, replayed, gate, confirmed>>

-----------------------------------------------------------------------------

\* The pieces, by the checks that look at them; "listing shape" is all the checks of the
\* catalog but its age, "ledger" is EvidenceLedger.
SiteChecks == {"public urls", "agents"}
FileChecks == {"required files"}
TermixChecks == {"termix"}
RuntimeChecks == {"runtime"}
PartnerChecks == {"hire steps", "pancake"}
RecordChecks == {"contracts", "transaction", "registration", "metadata"}
VideoChecks == {"video"}
Blocking == SiteChecks \union FileChecks \union RuntimeChecks \union RecordChecks \union {"ledger", "listing shape"}
\* Only the scorecard looks at the last three.
Pieces == Blocking \union TermixChecks \union PartnerChecks \union VideoChecks \union {"altana", "hire page", "sources"}

Oldest == 3
NoRefresh == [running |-> FALSE, kept |-> {}]
NoGate == [ready |-> FALSE, passed |-> {}]

GatesInit ==
  /\ sound = Pieces
  /\ catalog = [age |-> 0, observed |-> {}] /\ confirmed = 0
  /\ refresh = NoRefresh
  /\ replayed = "none" /\ gate = NoGate

-----------------------------------------------------------------------------
(* SubmissionValidator *)

\* _check_live_market_catalog: 48 hours; a supplier needs a registration transaction or
\* a reading of the registry.
\* Mutant: a catalog of any age passes.
CatalogListed == "listing shape" \in sound
CatalogPasses == "listing shape" \in sound /\ catalog.age < 2
\* Of the checks that passed, three are looked up later.
GatePassed == (sound \intersect {"termix", "pancake"}) \union (IF CatalogPasses THEN {"catalog"} ELSE {})
GateReady == Blocking \ {"listing shape"} \subseteq sound /\ CatalogPasses

-----------------------------------------------------------------------------
(* build_judge_scorecard *)

\* _category_parity: the last supplier of a category stands for it, and must have a
\* registration transaction.
WithTransaction == Categories \ catalog.observed
Parity == WithTransaction = Categories /\ {"listing shape", "hire page", "sources"} \subseteq sound

\* _fresh_deliveries: what this process replayed in the last five minutes; a file proves nothing.
Paid == replayed = "fresh"

Standing(ready, conditional) == IF ready THEN "ready" ELSE IF conditional THEN "conditional" ELSE "blocked"
\* _completed_testnet_hire: the steps of the record, whether it is "live" or not.
CompletedHire == "hire steps" \in sound
Functional ==
  /\ gate.ready /\ "catalog" \in gate.passed
  /\ Parity /\ CompletedHire
DataInOrder ==
  /\ catalog.age < 1  \* 24 hours
  /\ WithTransaction = Categories /\ "listing shape" \in sound
  /\ "termix" \in gate.passed

\* No blind review, second operator or reliable host can be certified by this code, so
\* data quality and diversity are never ready; a partner track is named if not blocked.
Scorecard ==
  [functionality |-> Standing(Functional /\ Paid, Functional), data |-> Standing(FALSE, DataInOrder),
   diversity |-> Standing(FALSE, Parity), paid |-> Paid,
   partners |-> ({"termix", "pancake"} \intersect gate.passed) \union ({"altana"} \intersect sound)]

-----------------------------------------------------------------------------
(* The scorecard script, and the two routes *)

ReplayDelivery ==
  /\ replayed' = "fresh" /\ gate' = NoGate
  /\ UNCHANGED <<sound, catalog, refresh, confirmed>>
RunGate ==
  /\ gate' = [ready |-> GateReady, passed |-> GatePassed]
  /\ UNCHANGED <<sound, catalog, refresh, replayed, confirmed>>
\* The card that is built is Scorecard as of now: files may have changed since the gate
\* was run.  Then the process ends, or the request.
Build ==
  /\ gate # NoGate
  /\ gate' = NoGate /\ replayed' = "none"
  /\ UNCHANGED <<sound, catalog, refresh, confirmed>>

-----------------------------------------------------------------------------
(* The refresh script; people; time *)

\* It asks the chain for the receipt of each of the four, and the provider for its list.
StartRefresh ==
  /\ refresh = NoRefresh
  /\ refresh' = [running |-> TRUE, kept |-> catalog.observed]
  /\ confirmed' = 0
  /\ UNCHANGED <<sound, catalog, replayed, gate>>
\* What it read at its start is written back with a new date; or a read has failed.
EndRefresh ==
  /\ refresh # NoRefresh
  /\ catalog' \in {[age |-> 0, observed |-> refresh.kept], catalog}
  /\ refresh' = NoRefresh
  /\ UNCHANGED <<sound, replayed, gate, confirmed>>

AddSupplier(c) ==
  /\ catalog' = [catalog EXCEPT !.observed = @ \union {c}]
  /\ UNCHANGED <<sound, refresh, replayed, gate, confirmed>>
Write(p) ==
  /\ sound' = IF p \in sound THEN sound \ {p} ELSE sound \union {p}
  /\ Cardinality(Pieces \ sound') <= MaxUnsound
  /\ UNCHANGED <<catalog, refresh, replayed, gate, confirmed>>
\* A run of a script takes less than a day.
Day ==
  /\ refresh = NoRefresh /\ gate = NoGate
  /\ catalog' = [catalog EXCEPT !.age = IF @ = Oldest THEN @ ELSE @ + 1]
  /\ confirmed' = IF confirmed = Oldest THEN Oldest ELSE confirmed + 1
  /\ replayed' = IF replayed = "none" THEN "none" ELSE "old"
  /\ UNCHANGED <<sound, refresh, gate>>

GatesNext ==
  \/ ReplayDelivery \/ RunGate \/ Build \/ StartRefresh \/ EndRefresh \/ Day
  \/ \E c \in Categories : AddSupplier(c)
  \/ \E p \in Pieces : Write(p)

GatesSpec == GatesInit /\ [][GatesNext]_gatesVars

-----------------------------------------------------------------------------
(* Properties *)

GatesTypeOK ==
  /\ sound \subseteq Pieces /\ catalog.observed \subseteq Categories
  /\ catalog.age \in 0 .. Oldest /\ confirmed \in 0 .. Oldest

\* A standing is earned: a scorecard that is not blocked rests on registrations the chain
\* has confirmed within two days, whoever writes whichever file between the gate and the
\* card, and no file makes a delivery a paid one.
StandingIsEarned ==
  gate # NoGate =>
    /\ Scorecard.functionality # "blocked" => confirmed < 2 /\ WithTransaction = Categories
    /\ Scorecard.data # "blocked" => confirmed < 1
    /\ Scorecard.functionality = "ready" \/ Scorecard.paid => replayed = "fresh"

===============================================================================
