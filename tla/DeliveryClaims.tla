----------------------------- MODULE DeliveryClaims -----------------------------
(***************************************************************************)
(* What is claimed of a delivered order: the review of its output          *)
(* (live_delivery), the dossier of its payment (build_verified_receipt,    *)
(* services/live_erc8183.py) and its acceptance for a task of the arena    *)
(* (arena/delivery.py, behind a route with a timeout).                     *)
(*                                                                         *)
(* A claim is made of many reads, of a chain that moves on and may drop a  *)
(* recent block, of a URL that is the provider's, and of a clock.  Logs    *)
(* are searched for in the recent windows only.  The forms of logs and     *)
(* manifests, and how a plan is judged, are left out.                      *)
(***************************************************************************)
EXTENDS Integers

CONSTANTS
  Outputs, NoOutput, \* what a URL may serve; a hash stands for its output
  Proposals,         \* outputs that are a proposal for the task, by this provider
  Undos,             \* bound: how often a block is dropped
  MaxAge, Patience   \* the age a task sets, and 45 seconds

ASSUME ClaimsConstantsOK ==
  /\ NoOutput \notin Outputs /\ Proposals \subseteq Outputs
  /\ {Undos, MaxAge, Patience} \subseteq Nat

VARIABLES
  onChain,  \* the order: status, committed output, whether its payment is as reviewed
  recent,   \* the last step of the order may still be dropped
  lost,     \* steps of the order older than the windows that are searched
  hint,     \* a receipt of the submission is in live-delivery-receipt-hints.json
  served,   \* what the URL of the submission serves
  snapBlock,\* the block of the task's snapshot: canonical, and its agent wallet is the provider
  snapAge,
  undone,
  claim     \* the claim under way, or the last one

claimVars == <<onChain, recent, lost, hint, served, snapBlock, snapAge, undone, claim>>
worldVars == <<onChain, recent, lost, hint, served, snapBlock, snapAge, undone>>

-----------------------------------------------------------------------------

Over == {"idle", "refused", "issued"}
NoClaim == [of |-> "none", stage |-> "idle", hash |-> NoOutput, shown |-> NoOutput, waited |-> 0]

ClaimsInit ==
  /\ onChain = [status |-> "funded", output |-> NoOutput, paid |-> FALSE]
  /\ recent = FALSE /\ lost = {} /\ hint \in BOOLEAN
  /\ served = NoOutput
  /\ snapBlock \in [canonical : {TRUE}, bound : BOOLEAN] /\ snapAge = 0
  /\ undone = 0
  /\ claim = NoClaim

-----------------------------------------------------------------------------
(* The chain, the provider and time *)

Commit(o) ==
  /\ onChain.status = "funded"
  /\ onChain' = [onChain EXCEPT !.status = "submitted", !.output = o]
  /\ recent' = TRUE /\ UNCHANGED <<lost, hint, served, snapBlock, snapAge, undone, claim>>
\* The verdict, after a review window far longer than any branch; the payment may be none
\* the site knows of.
Conclude ==
  /\ onChain.status = "submitted" /\ ~recent
  /\ \E paid \in BOOLEAN :
       onChain' \in {[onChain EXCEPT !.status = "completed", !.paid = paid], [onChain EXCEPT !.status = "rejected"]}
  /\ recent' = TRUE /\ UNCHANGED <<lost, hint, served, snapBlock, snapAge, undone, claim>>
Undo ==
  /\ recent /\ undone < Undos
  /\ onChain' = IF onChain.status = "submitted" THEN [onChain EXCEPT !.status = "funded", !.output = NoOutput]
                ELSE [onChain EXCEPT !.status = "submitted", !.paid = FALSE]
  /\ recent' = FALSE /\ undone' = undone + 1
  /\ UNCHANGED <<lost, hint, served, snapBlock, snapAge, claim>>
Settles ==
  /\ recent
  /\ recent' = FALSE /\ UNCHANGED <<onChain, lost, hint, served, snapBlock, snapAge, undone, claim>>
GetsOld ==
  /\ ~recent
  /\ lost' \in {{"submission"}, {"submission", "completion"}} /\ lost # lost' /\ lost \subseteq lost'
  /\ "completion" \in lost' => onChain.status \in {"completed", "rejected"}
  /\ "submission" \in lost' => onChain.status # "funded"
  /\ UNCHANGED <<onChain, recent, hint, served, snapBlock, snapAge, undone, claim>>
SnapshotMoves ==
  /\ undone < Undos
  /\ undone' = undone + 1
  /\ snapBlock' = [snapBlock EXCEPT !.canonical = ~@]
  /\ UNCHANGED <<onChain, recent, lost, hint, served, snapAge, claim>>
Store(o) ==
  /\ served' = o
  /\ UNCHANGED <<onChain, recent, lost, hint, snapBlock, snapAge, undone, claim>>
ClaimTick ==
  /\ snapAge <= MaxAge + Patience
  /\ claim.of = "acceptance" /\ claim.stage \notin Over => claim.waited < Patience
  /\ snapAge' = snapAge + 1
  /\ claim' = IF claim.of = "acceptance" /\ claim.stage \notin Over THEN [claim EXCEPT !.waited = @ + 1] ELSE claim
  /\ UNCHANGED <<onChain, recent, lost, hint, served, snapBlock, undone>>

-----------------------------------------------------------------------------
(* live_delivery *)

GoesOn(stage) == claim' = [claim EXCEPT !.stage = stage]
GoesOnIf(ok, stage) == GoesOn(IF ok THEN stage ELSE "refused")

ReadDelivered ==
  /\ claim.stage = "delivered"
  /\ IF onChain.status \in {"submitted", "completed"}
     THEN claim' = [claim EXCEPT !.stage = IF hint THEN "receipt" ELSE "search", !.hash = onChain.output]
     ELSE GoesOn("refused")
\* _find_event_log, and _receipt_delivery_log: a receipt, then the block it names.
SearchSubmission ==
  /\ claim.stage = "search"
  /\ GoesOnIf("submission" \notin lost /\ onChain.output = claim.hash, "manifest")
ReadHint == claim.stage = "receipt" /\ GoesOnIf(onChain.output = claim.hash, "receipt block")
ReadHintBlock == claim.stage = "receipt block" /\ GoesOnIf(onChain.output = claim.hash, "manifest")

\* _verify_manifest
\* Mutant: the hash of the manifest is not compared.
WithinForm(o) == o # NoOutput
AsCommitted(o) == o # NoOutput /\ o = claim.hash
AfterDelivery == CASE claim.of = "review" -> "issued" [] claim.of = "dossier" -> "completion" [] claim.of = "acceptance" -> "task"
FetchManifest ==
  /\ claim.stage = "manifest"
  /\ claim' = [claim EXCEPT !.shown = served, !.stage = IF AsCommitted(served) THEN AfterDelivery ELSE "refused"]

-----------------------------------------------------------------------------
(* build_verified_receipt *)

ReadCompleted == claim.stage = "completed" /\ GoesOnIf(onChain.status = "completed", "delivered")
SearchCompletion ==
  claim.stage = "completion" /\ GoesOnIf(onChain.status = "completed" /\ "completion" \notin lost, "payment")
ReadPayment == claim.stage = "payment" /\ GoesOnIf(onChain.status = "completed" /\ onChain.paid, "issued")

-----------------------------------------------------------------------------
(* accept_delivery *)

CheckFresh == claim.stage = "fresh" /\ GoesOnIf(snapAge <= MaxAge, "delivered")
CheckTask == claim.stage = "task" /\ GoesOnIf(claim.shown \in Proposals, "block")
ReadSnapshotBlock == claim.stage = "block" /\ GoesOnIf(snapBlock.canonical /\ snapAge <= MaxAge, "identity")
\* A call at a block by its hash: refused for one that is not canonical.
ReadIdentity == claim.stage = "identity" /\ GoesOnIf(snapBlock.canonical /\ snapBlock.bound, "unmoved")
ReadUnmoved == claim.stage = "unmoved" /\ GoesOnIf(snapBlock.canonical, "issued")

-----------------------------------------------------------------------------

Begin(of) ==
  /\ claim.stage \in Over
  /\ claim' = [NoClaim EXCEPT !.of = of,
       !.stage = CASE of = "review" -> "delivered" [] of = "dossier" -> "completed" [] of = "acceptance" -> "fresh"]
\* A node or the provider fails, or the time of the route is over.
BreakOff == claim.stage \notin Over /\ GoesOn("refused")

Claims ==
  \/ \E of \in {"review", "dossier", "acceptance"} : Begin(of)
  \/ ReadDelivered \/ SearchSubmission \/ ReadHint \/ ReadHintBlock \/ FetchManifest
  \/ ReadCompleted \/ SearchCompletion \/ ReadPayment
  \/ CheckFresh \/ CheckTask \/ ReadSnapshotBlock \/ ReadIdentity \/ ReadUnmoved
  \/ BreakOff

ClaimsNext ==
  \/ \E o \in Outputs : Commit(o) \/ Store(o)
  \/ Conclude \/ Undo \/ Settles \/ GetsOld \/ SnapshotMoves \/ ClaimTick
  \/ Claims /\ UNCHANGED worldVars

ClaimsSpec == ClaimsInit /\ [][ClaimsNext]_claimVars

-----------------------------------------------------------------------------
(* Properties *)

ClaimsTypeOK ==
  /\ onChain.output \in Outputs \union {NoOutput} /\ served \in Outputs \union {NoOutput}
  /\ claim.hash \in Outputs \union {NoOutput} /\ claim.waited \in 0 .. Patience

\* A claim that is issued is of one delivery: what it shows is what the provider committed
\* to, a dossier's order is complete and paid for that output as it is issued, and an
\* acceptance is of the task, at a block that is still canonical and was recent while it
\* was made; whatever the chain, the URL and the clock did between the reads.
ClaimsHold ==
  [][claim.stage # "issued" /\ claim'.stage = "issued" =>
       /\ claim'.shown = claim'.hash
       /\ claim'.of = "dossier" => onChain.status = "completed" /\ onChain.paid /\ onChain.output = claim'.hash
       /\ claim'.of = "acceptance" =>
            /\ claim'.shown \in Proposals
            /\ snapBlock.canonical /\ snapBlock.bound /\ snapAge <= MaxAge + Patience]_claimVars

===============================================================================
