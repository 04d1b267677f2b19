--------------------------- MODULE Requests_proofs ----------------------------
(***************************************************************************)
(* Theorems about components that answer requests, for every set of        *)
(* blocks, outputs, categories, intents, challenges, terms, listings and   *)
(* plugins and every bound: PaidReplay, DeliveryClaims, EvidenceGates,     *)
(* DesignCouncil, Contracts, WalletAuth, SignedQuote, MarketView and       *)
(* PluginHarness.                                                          *)
(*                                                                         *)
(* The arguments of the first three have one form.  What a later read      *)
(* relies on is either read at a fixed place (a block by its hash), or     *)
(* cannot change any more by then (the output of an order that was once    *)
(* complete), or is bounded by what time may pass (the age of a snapshot). *)
(* The inductive invariants say, stage by stage, which facts stand.  The   *)
(* council has no state that matters: its scores fall as flaws are added.  *)
(***************************************************************************)
EXTENDS PaidReplay, DeliveryClaims, EvidenceGates, DesignCouncil, Contracts,
        WalletAuth, SignedQuote, MarketView, PluginHarness, FiniteSetTheorems,
        SequenceTheorems, WellFoundedInduction, TLAPS

-----------------------------------------------------------------------------
(* PaidReplay *)

ReplayStages ==
  {"idle", "receipt", "transaction", "head", "wallet", "owner", "order", "canonical", "verified", "refused"}

ReplayInv ==
  /\ facts \in [Blocks -> SUBSET Facts]
  /\ canonical \in Blocks
  /\ replay \in [stage : ReplayStages, block : Blocks \union {NoBlock}, deep : BOOLEAN, clean : BOOLEAN]
  /\ replay.stage \notin {"idle", "receipt", "verified", "refused"} => replay.block \in Blocks
  /\ replay.stage \in {"wallet", "owner", "order", "canonical"} =>
       replay.deep /\ "settled and paid" \in facts[replay.block]
  /\ replay.stage \in {"owner", "order", "canonical"} => "wallet" \in facts[replay.block]
  /\ replay.stage \in {"order", "canonical"} => "owner" \in facts[replay.block]
  /\ replay.stage = "canonical" => "order" \in facts[replay.block]

LEMMA ReplayBounds == Reorgs \in Nat /\ DeepEnough \in Nat
  BY ReplayConstantsOK DEF ReplayConstantsOK

\* Whether a block is deep is told by a number of confirmations.
DeepIsTold == (depth >= DeepEnough) \in BOOLEAN

DepthCounted == depth \in Nat

LEMMA DepthCounts ==
  /\ ReplayInit => DepthCounted
  /\ DepthCounted /\ [ReplayNext]_replayVars => DepthCounted'
  /\ DepthCounted => DeepIsTold
  <1>1. ReplayInit => DepthCounted
    BY DEF ReplayInit, DepthCounted
  <1>2. DepthCounted /\ [ReplayNext]_replayVars => DepthCounted'
    BY DEF ReplayNext, Confirm, Reorganize, replayVars, DepthCounted
  <1>3. DepthCounted => DeepIsTold
    BY ReplayBounds DEF DeepIsTold, DepthCounted
  <1> QED
    BY <1>1, <1>2, <1>3

LEMMA ReplayStarts == ReplayInit => ReplayInv
  <1> SUFFICES ASSUME ReplayInit PROVE ReplayInv
    OBVIOUS
  <1>1. {Facts} \union {Facts \ {f} : f \in Facts} \subseteq SUBSET Facts
    OBVIOUS
  <1>2. facts \in [Blocks -> SUBSET Facts]
    BY <1>1 DEF ReplayInit
  <1> QED
    BY <1>2 DEF ReplayInit, ReplayInv, NoReplay, ReplayStages

LEMMA ReplayGoesOn == ReplayInv /\ DeepIsTold /\ [ReplayNext]_replayVars => ReplayInv'
  <1> SUFFICES ASSUME ReplayInv, DeepIsTold, [ReplayNext]_replayVars PROVE ReplayInv'
    OBVIOUS
  <1> USE DEF ReplayInv, ReplayStages
  <1>1. CASE Confirm
    BY <1>1 DEF Confirm
  <1>2. ASSUME NEW b \in Blocks, Reorganize(b) PROVE ReplayInv'
    BY <1>2 DEF Reorganize
  <1>3. CASE Reads /\ UNCHANGED <<facts, schema, canonical, depth, reorgs>>
    <2>1. CASE StartReplay
      BY <1>3, <2>1 DEF StartReplay, NoReplay
    <2>2. CASE ReadReceipt
      BY <1>3, <2>2 DEF ReadReceipt
    <2>3. CASE ReadTransaction
      BY <1>3, <2>3 DEF ReadTransaction, OrRefused, ReadsTo
    <2>4. CASE ReadHead
      <3>1. (depth >= DeepEnough) \in BOOLEAN
        BY DEF DeepIsTold
      <3>2. replay' \in [stage : ReplayStages, block : Blocks \union {NoBlock}, deep : BOOLEAN, clean : BOOLEAN]
        BY <2>4, <3>1 DEF ReadHead
      <3>3. replay'.block = replay.block /\ replay.block \in Blocks /\ replay'.stage \in {"wallet", "refused"}
        BY <2>4 DEF ReadHead
      <3>4. replay'.stage = "wallet" => replay'.deep /\ "settled and paid" \in facts[replay.block]
        BY <2>4, <3>1 DEF ReadHead
      <3> QED
        BY <1>3, <3>2, <3>3, <3>4
    <2>5. CASE ReadWallet
      BY <1>3, <2>5 DEF ReadWallet, OrRefused, ReadsTo, Says
    <2>6. CASE ReadOwner
      BY <1>3, <2>6 DEF ReadOwner, OrRefused, ReadsTo, Says
    <2>7. CASE ReadEscrow
      BY <1>3, <2>7 DEF ReadEscrow, OrRefused, ReadsTo, Says
    <2>8. CASE ReadCanonical
      BY <1>3, <2>8 DEF ReadCanonical, OrRefused, ReadsTo
    <2>9. CASE ReadFails
      BY <1>3, <2>9 DEF ReadFails
    <2> QED
      BY <1>3, <2>1, <2>2, <2>3, <2>4, <2>5, <2>6, <2>7, <2>8, <2>9 DEF Reads
  <1>4. CASE UNCHANGED replayVars
    BY <1>4 DEF replayVars
  <1> QED
    BY <1>1, <1>2, <1>3, <1>4 DEF ReplayNext

\* Only the last read, of the canonical block, verifies.
LEMMA VerifiedByLastRead ==
  ASSUME ReplayInv, ReplayNext, replay.stage # "verified", replay'.stage = "verified"
  PROVE  replay.block = canonical /\ facts[replay.block] = Facts /\ replay.deep
  <1>0. replay \in [stage : ReplayStages, block : Blocks \union {NoBlock}, deep : BOOLEAN, clean : BOOLEAN]
    BY DEF ReplayInv
  <1>1. ReadCanonical
    <2>1. ~Confirm
      BY DEF Confirm
    <2>2. ASSUME NEW b \in Blocks PROVE ~Reorganize(b)
      BY <1>0 DEF Reorganize
    <2>3. Reads
      BY <2>1, <2>2 DEF ReplayNext
    <2>4. ~StartReplay
      BY DEF StartReplay, NoReplay
    <2>5. ~ReadReceipt
      BY <1>0 DEF ReadReceipt
    <2>6. ~ReadTransaction
      BY <1>0 DEF ReadTransaction, OrRefused, ReadsTo
    <2>7. ~ReadHead
      BY <1>0 DEF ReadHead
    <2>8. ~ReadWallet
      BY <1>0 DEF ReadWallet, OrRefused, ReadsTo
    <2>9. ~ReadOwner
      BY <1>0 DEF ReadOwner, OrRefused, ReadsTo
    <2>10. ~ReadEscrow
      BY <1>0 DEF ReadEscrow, OrRefused, ReadsTo
    <2>11. ~ReadFails
      BY <1>0 DEF ReadFails
    <2> QED
      BY <2>3, <2>4, <2>5, <2>6, <2>7, <2>8, <2>9, <2>10, <2>11 DEF Reads
  <1>2. replay.stage = "canonical" /\ canonical = replay.block
    BY <1>1 DEF ReadCanonical, OrRefused, ReadsTo, ReplayInv
  <1>3. facts[replay.block] \subseteq Facts
    <2>1. facts \in [Blocks -> SUBSET Facts] /\ replay.block \in Blocks
      BY <1>2 DEF ReplayInv
    <2> QED
      BY <2>1
  <1>4. "settled and paid" \in facts[replay.block] /\ "wallet" \in facts[replay.block]
    BY <1>2 DEF ReplayInv
  <1>5. "owner" \in facts[replay.block] /\ "order" \in facts[replay.block]
    BY <1>2 DEF ReplayInv
  <1>6. Facts \subseteq facts[replay.block]
    BY <1>4, <1>5, Zenon DEF Facts
  <1>7. replay.deep
    BY <1>2 DEF ReplayInv
  <1> QED
    BY <1>2, <1>3, <1>6, <1>7, Zenon

\* A delivery is verified of one block (decision/paid.py, verify_delivery): all the claim
\* says holds there and it is canonical at the end, for every chain.
THEOREM VerifiedOfOneBlock == ReplaySpec => VerifiedAtOneBlock
  <1>2. ReplaySpec => []DeepIsTold
    <2>1. ReplayInit => DepthCounted
      BY DepthCounts
    <2>2. DepthCounted /\ [ReplayNext]_replayVars => DepthCounted'
      BY DepthCounts
    <2>3. DepthCounted => DeepIsTold
      BY DepthCounts
    <2> QED
      BY <2>1, <2>2, <2>3, PTL DEF ReplaySpec
  <1>3. ReplaySpec => []ReplayInv
    BY <1>2, ReplayStarts, ReplayGoesOn, PTL DEF ReplaySpec
  <1>1. ReplayInv /\ [ReplayNext]_replayVars =>
          [replay.stage # "verified" /\ replay'.stage = "verified" =>
             replay.block = canonical /\ facts[replay.block] = Facts /\ replay.deep]_replayVars
    BY VerifiedByLastRead
  <1> QED
    BY <1>1, <1>3, PTL DEF ReplaySpec, VerifiedAtOneBlock

-----------------------------------------------------------------------------
(* DeliveryClaims *)

OutputsOrNone == Outputs \union {NoOutput}
ClaimStages ==
  {"idle", "delivered", "receipt", "search", "receipt block", "manifest", "completed", "completion", "payment",
   "fresh", "task", "block", "identity", "unmoved", "issued", "refused"}

ClaimTypes ==
  /\ onChain \in [status : {"funded", "submitted", "completed", "rejected"}, output : OutputsOrNone, paid : BOOLEAN]
  /\ recent \in BOOLEAN /\ served \in OutputsOrNone
  /\ snapBlock \in [canonical : BOOLEAN, bound : BOOLEAN] /\ snapAge \in Nat
  /\ claim \in [of : {"none", "review", "dossier", "acceptance"}, stage : ClaimStages,
                hash : OutputsOrNone, shown : OutputsOrNone, waited : Nat]

\* The stages after a manifest has been compared, and what is known there.
StagesOfClaims ==
  /\ claim.of = "none" => claim.stage \in Over
  /\ claim.stage \in {"completed", "completion", "payment"} => claim.of = "dossier"
  /\ claim.stage \in {"fresh", "task", "block", "identity", "unmoved"} => claim.of = "acceptance"
  /\ claim.stage \in {"completion", "payment", "task", "block", "identity", "unmoved"} => claim.shown = claim.hash
  /\ claim.stage \in {"block", "identity", "unmoved"} => claim.shown \in Proposals
  /\ claim.stage = "unmoved" => snapBlock.bound

\* An order that was complete once does not lose its output, though it may lose its end.
OutputIsFinal ==
  claim.of = "dossier" /\ claim.stage \notin Over \union {"completed"} =>
    /\ onChain.status # "funded"
    /\ onChain.status = "submitted" => ~recent
    /\ claim.stage # "delivered" => claim.hash = onChain.output

\* A snapshot ages while the route waits, and no faster.
AgesByWaiting ==
  claim.of = "acceptance" /\ claim.stage \notin Over =>
    /\ claim.waited <= Patience
    /\ claim.stage # "fresh" => snapAge <= MaxAge + claim.waited

ClaimInv == ClaimTypes /\ StagesOfClaims /\ OutputIsFinal /\ AgesByWaiting

LEMMA ClaimBounds == MaxAge \in Nat /\ Patience \in Nat
  BY ClaimsConstantsOK DEF ClaimsConstantsOK

LEMMA ClaimStarts == ClaimsInit => ClaimInv
  <1> SUFFICES ASSUME ClaimsInit PROVE ClaimInv
    OBVIOUS
  <1>1. claim = NoClaim
    BY DEF ClaimsInit
  <1>2. ClaimTypes
    <2>1. snapBlock \in [canonical : BOOLEAN, bound : BOOLEAN] /\ snapAge \in Nat
      BY DEF ClaimsInit
    <2>2. NoClaim \in [of : {"none", "review", "dossier", "acceptance"}, stage : ClaimStages,
                       hash : OutputsOrNone, shown : OutputsOrNone, waited : Nat]
      BY DEF NoClaim, ClaimStages, OutputsOrNone
    <2>3. onChain \in [status : {"funded", "submitted", "completed", "rejected"}, output : OutputsOrNone,
                       paid : BOOLEAN]
      BY DEF ClaimsInit, OutputsOrNone
    <2>4. recent \in BOOLEAN /\ served \in OutputsOrNone
      BY DEF ClaimsInit, OutputsOrNone
    <2> QED
      BY <1>1, <2>1, <2>2, <2>3, <2>4 DEF ClaimTypes
  <1>3. StagesOfClaims /\ OutputIsFinal /\ AgesByWaiting
    BY <1>1 DEF StagesOfClaims, OutputIsFinal, AgesByWaiting, NoClaim, Over
  <1> QED
    BY <1>2, <1>3 DEF ClaimInv

\* The chain, the provider and time take a claim nowhere.
WorldNext ==
  \/ \E o \in Outputs : Commit(o) \/ Store(o)
  \/ Conclude \/ Undo \/ Settles \/ GetsOld \/ SnapshotMoves

LEMMA WorldKeepsTypes == ASSUME ClaimTypes, WorldNext PROVE ClaimTypes'
  <1> USE DEF ClaimTypes, OutputsOrNone
  <1>1. ASSUME NEW o \in Outputs, Commit(o) PROVE ClaimTypes'
    BY <1>1 DEF Commit
  <1>2. ASSUME NEW o \in Outputs, Store(o) PROVE ClaimTypes'
    BY <1>2 DEF Store
  <1>3. CASE Conclude
    BY <1>3 DEF Conclude
  <1>4. CASE Undo
    BY <1>4 DEF Undo
  <1>5. CASE Settles
    BY <1>5 DEF Settles
  <1>6. CASE GetsOld
    BY <1>6 DEF GetsOld
  <1>7. CASE SnapshotMoves
    BY <1>7 DEF SnapshotMoves
  <1> QED
    BY <1>1, <1>2, <1>3, <1>4, <1>5, <1>6, <1>7 DEF WorldNext

LEMMA WorldKeepsClaims ==
  ASSUME ClaimTypes, WorldNext
  PROVE  claim' = claim /\ snapAge' = snapAge /\ snapBlock'.bound = snapBlock.bound
  BY DEF WorldNext, Commit, Store, Conclude, Undo, Settles, GetsOld, SnapshotMoves, ClaimTypes

LEMMA WorldKeepsOutput == ASSUME ClaimTypes, OutputIsFinal, WorldNext PROVE OutputIsFinal'
  <1> SUFFICES ASSUME claim.of = "dossier", claim.stage \notin Over \union {"completed"} PROVE OutputIsFinal'
    BY WorldKeepsClaims DEF OutputIsFinal, Over
  <1>1. claim' = claim
    BY WorldKeepsClaims
  <1>2. /\ onChain.status # "funded"
        /\ onChain.status = "submitted" => ~recent
        /\ claim.stage # "delivered" => claim.hash = onChain.output
    BY DEF OutputIsFinal
  <1>3. /\ onChain'.status # "funded" /\ onChain'.output = onChain.output
        /\ onChain'.status = "submitted" => ~recent'
    <2>1. CASE Conclude
      <3>1. PICK settled \in BOOLEAN :
              onChain' \in {[onChain EXCEPT !.status = "completed", !.paid = settled], [onChain EXCEPT !.status = "rejected"]}
        BY <2>1 DEF Conclude
      <3> QED
        BY <3>1 DEF ClaimTypes
    <2>2. CASE Undo
      BY <1>2, <2>2 DEF Undo, ClaimTypes
    <2>3. CASE Settles \/ GetsOld \/ SnapshotMoves
      BY <1>2, <2>3 DEF Settles, GetsOld, SnapshotMoves
    <2>4. ASSUME NEW o \in Outputs, Commit(o) \/ Store(o) 
          PROVE  /\ onChain'.status # "funded" /\ onChain'.output = onChain.output
                 /\ onChain'.status = "submitted" => ~recent'
      BY <1>2, <2>4 DEF Commit, Store
    <2> QED
      BY <2>1, <2>2, <2>3, <2>4 DEF WorldNext
  <1> QED
    BY <1>1, <1>2, <1>3 DEF OutputIsFinal

LEMMA WorldKeepsInv == ASSUME ClaimInv, WorldNext PROVE ClaimInv'
  BY WorldKeepsTypes, WorldKeepsClaims, WorldKeepsOutput DEF ClaimInv, StagesOfClaims, AgesByWaiting, Over

LEMMA TimeKeepsInv == ASSUME ClaimInv, ClaimTick PROVE ClaimInv'
  <1> USE DEF ClaimInv
  <1>1. /\ claim'.of = claim.of /\ claim'.stage = claim.stage
        /\ claim'.hash = claim.hash /\ claim'.shown = claim.shown
        /\ snapAge' = snapAge + 1 /\ UNCHANGED <<onChain, recent, served, snapBlock>>
    BY DEF ClaimTick, ClaimTypes
  <1>2. ClaimTypes'
    <2>1. claim'.waited \in Nat /\ claim' \in [of : {"none", "review", "dossier", "acceptance"}, stage : ClaimStages,
             hash : OutputsOrNone, shown : OutputsOrNone, waited : Nat]
      BY DEF ClaimTick, ClaimTypes
    <2> QED
      BY <1>1, <2>1 DEF ClaimTypes
  <1>3. StagesOfClaims' /\ OutputIsFinal'
    BY <1>1 DEF StagesOfClaims, OutputIsFinal, Over
  <1>4. AgesByWaiting'
    <2> SUFFICES ASSUME claim.of = "acceptance", claim.stage \notin Over PROVE AgesByWaiting'
      BY <1>1 DEF AgesByWaiting, Over
    <2>1. claim'.waited = claim.waited + 1 /\ claim.waited < Patience
      BY DEF ClaimTick, ClaimTypes
    <2>2. claim.waited \in Nat /\ snapAge \in Nat
      BY DEF ClaimTypes
    <2> QED
      BY <1>1, <2>1, <2>2, ClaimBounds DEF AgesByWaiting
  <1> QED
    BY <1>2, <1>3, <1>4

\* What a read may do to a claim.
Moved(from, into) ==
  /\ claim.stage = from /\ claim'.stage \in into
  /\ claim'.of = claim.of /\ claim'.hash = claim.hash /\ claim'.shown = claim.shown /\ claim'.waited = claim.waited
  /\ claim' \in [of : {"none", "review", "dossier", "acceptance"}, stage : ClaimStages,
                 hash : OutputsOrNone, shown : OutputsOrNone, waited : Nat]

LEMMA GoesOnMoves ==
  ASSUME ClaimTypes, NEW ok, NEW stage \in ClaimStages, GoesOnIf(ok, stage)
  PROVE  Moved(claim.stage, {stage, "refused"}) /\ (claim'.stage # "refused" => ok)
  <1>1. (IF ok THEN stage ELSE "refused") \in {stage, "refused"} /\ "refused" \in ClaimStages
    BY DEF ClaimStages
  <1> QED
    BY <1>1 DEF GoesOnIf, GoesOn, Moved, ClaimTypes

\* A read that leaves a claim's parts alone keeps how it ages, the first check apart.
LEMMA MovesKeepAge ==
  ASSUME ClaimInv, UNCHANGED worldVars, NEW from, NEW into, Moved(from, into),
         from \notin Over, from = "fresh" => (claim'.stage # "refused" => snapAge <= MaxAge), "fresh" \notin into
  PROVE  AgesByWaiting'
  <1> SUFFICES ASSUME claim.of = "acceptance", claim'.stage \notin Over PROVE AgesByWaiting'
    BY DEF AgesByWaiting, Moved, Over
  <1>1. claim'.waited = claim.waited /\ snapAge' = snapAge /\ claim.stage = from /\ claim'.stage # "refused"
    BY DEF Moved, worldVars, Over
  <1>2. claim.waited <= Patience /\ claim.waited \in Nat /\ snapAge \in Nat
    BY <1>1 DEF ClaimInv, AgesByWaiting, ClaimTypes
  <1>3. snapAge <= MaxAge + claim.waited
    <2>1. CASE from = "fresh"
      BY <2>1, <1>1, <1>2, ClaimBounds
    <2>2. CASE from # "fresh"
      BY <2>2, <1>1 DEF ClaimInv, AgesByWaiting
    <2> QED
      BY <2>1, <2>2
  <1> QED
    BY <1>1, <1>2, <1>3 DEF AgesByWaiting

LEMMA ReadsKeepInv ==
  ASSUME ClaimInv, UNCHANGED worldVars,
         SearchSubmission \/ ReadHint \/ ReadHintBlock \/ ReadCompleted \/ SearchCompletion \/ ReadPayment
           \/ CheckFresh \/ CheckTask \/ ReadSnapshotBlock \/ ReadIdentity \/ ReadUnmoved
  PROVE  ClaimInv'
  <1> USE DEF ClaimInv
  <1>1. ASSUME NEW from \in ClaimStages, NEW stage \in ClaimStages, NEW ok,
               claim.stage = from, from \notin Over, stage # "fresh", GoesOnIf(ok, stage),
               ok /\ from = "fresh" => snapAge <= MaxAge,
               ok => /\ stage \notin {"delivered", "completed"} \/ from = "completed" \/ claim.of # "dossier"
                     /\ stage \in {"completed", "completion", "payment"} => claim.of = "dossier"
                     /\ stage \in {"task", "block", "identity", "unmoved"} => claim.of = "acceptance"
                     /\ stage \in {"completion", "payment", "task", "block", "identity", "unmoved"} =>
                          claim.shown = claim.hash
                     /\ stage \in {"block", "identity", "unmoved"} => claim.shown \in Proposals
                     /\ stage = "unmoved" => snapBlock.bound
                     /\ claim.of = "dossier" /\ from = "completed" =>
                          stage = "delivered" /\ onChain.status = "completed"
                     /\ claim.of = "dossier" => from # "delivered"
        PROVE  ClaimInv'
    <2>1. Moved(from, {stage, "refused"}) /\ (claim'.stage # "refused" => ok)
      BY <1>1, GoesOnMoves DEF Moved
    <2>2. ClaimTypes'
      BY <2>1 DEF ClaimTypes, Moved, worldVars
    <2>3. AgesByWaiting'
      BY <1>1, <2>1, MovesKeepAge DEF Over
    <2>4. StagesOfClaims'
      BY <1>1, <2>1 DEF StagesOfClaims, Moved, Over, worldVars
    <2>5. OutputIsFinal'
      BY <1>1, <2>1 DEF OutputIsFinal, Moved, Over, worldVars
    <2> QED
      BY <2>2, <2>3, <2>4, <2>5
  <1> USE DEF ClaimStages, Over
  <1>2. CASE SearchSubmission
    BY <1>1, <1>2 DEF SearchSubmission
  <1>3. CASE ReadHint
    BY <1>1, <1>3 DEF ReadHint
  <1>4. CASE ReadHintBlock
    BY <1>1, <1>4 DEF ReadHintBlock
  <1>5. CASE ReadCompleted
    BY <1>1, <1>5 DEF ReadCompleted
  <1>6. CASE SearchCompletion
    BY <1>1, <1>6 DEF SearchCompletion, StagesOfClaims
  <1>7. CASE ReadPayment
    BY <1>1, <1>7 DEF ReadPayment
  <1>8. CASE CheckFresh
    BY <1>1, <1>8 DEF CheckFresh, StagesOfClaims
  <1>9. CASE CheckTask
    BY <1>1, <1>9 DEF CheckTask, StagesOfClaims
  <1>10. CASE ReadSnapshotBlock
    BY <1>1, <1>10 DEF ReadSnapshotBlock, StagesOfClaims
  <1>11. CASE ReadIdentity
    BY <1>1, <1>11 DEF ReadIdentity, StagesOfClaims
  <1>12. CASE ReadUnmoved
    BY <1>1, <1>12 DEF ReadUnmoved
  <1> QED
    BY <1>2, <1>3, <1>4, <1>5, <1>6, <1>7, <1>8, <1>9, <1>10, <1>11, <1>12

LEMMA FetchKeepsInv == ASSUME ClaimInv, UNCHANGED worldVars, FetchManifest PROVE ClaimInv'
  <1> USE DEF ClaimInv
  <1>1. claim.stage = "manifest" /\ claim.of \in {"review", "dossier", "acceptance"}
    BY DEF FetchManifest, ClaimTypes, StagesOfClaims, Over
  <1>2. AfterDelivery \in {"issued", "completion", "task"}
        /\ (AfterDelivery = "completion" => claim.of = "dossier") /\ (AfterDelivery = "task" => claim.of = "acceptance")
    BY <1>1 DEF AfterDelivery
  <1>3. /\ claim'.of = claim.of /\ claim'.hash = claim.hash /\ claim'.waited = claim.waited /\ claim'.shown = served
        /\ claim'.stage \in {AfterDelivery, "refused"} /\ (claim'.stage # "refused" => served = claim.hash)
    BY DEF FetchManifest, AsCommitted, ClaimTypes
  <1>4. ClaimTypes'
    <2>1. claim' = [claim EXCEPT !.shown = served, !.stage = claim'.stage]
      BY <1>3 DEF FetchManifest, ClaimTypes
    <2> QED
      BY <1>2, <1>3, <2>1 DEF ClaimTypes, ClaimStages, worldVars
  <1>5. StagesOfClaims'
    BY <1>1, <1>2, <1>3 DEF StagesOfClaims, Over
  <1>6. OutputIsFinal'
    BY <1>1, <1>3 DEF OutputIsFinal, Over, worldVars
  <1>7. AgesByWaiting'
    BY <1>1, <1>3 DEF AgesByWaiting, Over, worldVars
  <1> QED
    BY <1>4, <1>5, <1>6, <1>7

LEMMA DeliveredKeepsInv == ASSUME ClaimInv, UNCHANGED worldVars, ReadDelivered PROVE ClaimInv'
  <1> USE DEF ClaimInv
  <1>1. /\ claim.stage = "delivered" /\ claim'.of = claim.of /\ claim'.waited = claim.waited
        /\ claim'.shown = claim.shown /\ claim'.stage \in {"receipt", "search", "refused"}
        /\ claim'.stage # "refused" => claim'.hash = onChain.output
    BY DEF ReadDelivered, GoesOn, ClaimTypes
  <1>2. ClaimTypes'
    BY DEF ReadDelivered, GoesOn, ClaimTypes, ClaimStages, worldVars
  <1>3. StagesOfClaims'
    BY <1>1 DEF StagesOfClaims, Over
  <1>4. OutputIsFinal'
    BY <1>1 DEF OutputIsFinal, Over, worldVars
  <1>5. AgesByWaiting'
    BY <1>1 DEF AgesByWaiting, Over, worldVars
  <1> QED
    BY <1>2, <1>3, <1>4, <1>5

LEMMA EndsKeepInv ==
  ASSUME ClaimInv, UNCHANGED worldVars, BreakOff \/ \E of \in {"review", "dossier", "acceptance"} : Begin(of)
  PROVE  ClaimInv'
  <1> USE DEF ClaimInv
  <1>1. CASE BreakOff
    <2>1. claim' = [claim EXCEPT !.stage = "refused"]
      BY <1>1 DEF BreakOff, GoesOn
    <2>2. ClaimTypes'
      BY <2>1 DEF ClaimTypes, ClaimStages, worldVars
    <2>3. claim'.stage = "refused"
      BY <2>1 DEF ClaimTypes
    <2>4. StagesOfClaims' /\ OutputIsFinal' /\ AgesByWaiting'
      BY <2>3 DEF StagesOfClaims, OutputIsFinal, AgesByWaiting, Over
    <2> QED
      BY <2>2, <2>4
  <1>2. ASSUME NEW of \in {"review", "dossier", "acceptance"}, Begin(of) PROVE ClaimInv'
    <2>1. /\ claim'.of = of /\ claim'.waited = 0 /\ claim'.hash = NoOutput /\ claim'.shown = NoOutput
          /\ of = "review" => claim'.stage = "delivered"
          /\ of = "dossier" => claim'.stage = "completed"
          /\ of = "acceptance" => claim'.stage = "fresh"
      BY <1>2 DEF Begin, NoClaim
    <2>2. ClaimTypes'
      <3>1. claim' = [of |-> claim'.of, stage |-> claim'.stage, hash |-> NoOutput, shown |-> NoOutput, waited |-> 0]
        BY <1>2 DEF Begin, NoClaim
      <3>2. claim' \in [of : {"none", "review", "dossier", "acceptance"}, stage : ClaimStages,
                        hash : OutputsOrNone, shown : OutputsOrNone, waited : Nat]
        <4>1. claim'.of \in {"review", "dossier", "acceptance"} /\ claim'.stage \in ClaimStages /\ NoOutput \in OutputsOrNone
          BY <2>1 DEF ClaimStages, OutputsOrNone
        <4> QED
          BY <3>1, <4>1
      <3> QED
        BY <3>2 DEF ClaimTypes, worldVars
    <2>3. StagesOfClaims' /\ OutputIsFinal'
      BY <2>1 DEF StagesOfClaims, OutputIsFinal, Over
    <2>4. AgesByWaiting'
      BY <2>1, ClaimBounds DEF AgesByWaiting
    <2> QED
      BY <2>2, <2>3, <2>4
  <1> QED
    BY <1>1, <1>2

LEMMA ClaimGoesOn == ClaimInv /\ [ClaimsNext]_claimVars => ClaimInv'
  <1> SUFFICES ASSUME ClaimInv, [ClaimsNext]_claimVars PROVE ClaimInv'
    OBVIOUS
  <1>1. CASE WorldNext
    BY <1>1, WorldKeepsInv
  <1>2. CASE ClaimTick
    BY <1>2, TimeKeepsInv
  <1>3. CASE Claims /\ UNCHANGED worldVars
    BY <1>3, ReadsKeepInv, FetchKeepsInv, DeliveredKeepsInv, EndsKeepInv DEF Claims
  <1>4. CASE UNCHANGED claimVars
    BY <1>4 DEF claimVars, ClaimInv, ClaimTypes, StagesOfClaims, OutputIsFinal, AgesByWaiting, Over
  <1> QED
    BY <1>1, <1>2, <1>3, <1>4 DEF ClaimsNext, WorldNext

\* A claim is issued by one of three reads.
LEMMA IssuedByLastRead ==
  ASSUME ClaimInv, ClaimsNext, claim.stage # "issued", claim'.stage = "issued"
  PROVE  FetchManifest \/ ReadPayment \/ ReadUnmoved
  <1>1. ~WorldNext /\ ~ClaimTick
    BY WorldKeepsClaims DEF ClaimTick, ClaimInv, ClaimTypes
  <1>2. Claims
    BY <1>1 DEF ClaimsNext, WorldNext
  <1> QED
    BY <1>2 DEF Claims, Begin, NoClaim, ReadDelivered, SearchSubmission, ReadHint, ReadHintBlock, ReadCompleted,
                SearchCompletion, CheckFresh, CheckTask, ReadSnapshotBlock, ReadIdentity, BreakOff,
                GoesOn, GoesOnIf, ClaimInv, ClaimTypes

Issued ==
  /\ claim'.shown = claim'.hash
  /\ claim'.of = "dossier" => onChain.status = "completed" /\ onChain.paid /\ onChain.output = claim'.hash
  /\ claim'.of = "acceptance" =>
       /\ claim'.shown \in Proposals
       /\ snapBlock.canonical /\ snapBlock.bound /\ snapAge <= MaxAge + Patience

LEMMA IssuedAsClaimed ==
  ASSUME ClaimInv, ClaimsNext, claim.stage # "issued", claim'.stage = "issued"
  PROVE  Issued
  <1>1. CASE FetchManifest
    <2>1. claim'.of = claim.of /\ claim'.shown = served /\ claim'.hash = claim.hash
          /\ served = claim.hash /\ AfterDelivery = "issued"
      BY <1>1 DEF FetchManifest, AsCommitted, ClaimInv, ClaimTypes
    <2>2. claim.of \notin {"dossier", "acceptance"}
      BY <2>1 DEF AfterDelivery
    <2> QED
      BY <2>1, <2>2 DEF Issued
  <1>2. CASE ReadPayment
    <2>1. claim.stage = "payment" /\ onChain.status = "completed" /\ onChain.paid
          /\ claim'.of = claim.of /\ claim'.shown = claim.shown /\ claim'.hash = claim.hash
      BY <1>2 DEF ReadPayment, GoesOnIf, GoesOn, ClaimInv, ClaimTypes
    <2>2. claim.of = "dossier" /\ claim.shown = claim.hash
      BY <2>1 DEF ClaimInv, StagesOfClaims
    <2>3. claim.hash = onChain.output
      BY <2>1, <2>2 DEF ClaimInv, OutputIsFinal, Over
    <2> QED
      BY <2>1, <2>2, <2>3 DEF Issued
  <1>3. CASE ReadUnmoved
    <2>1. claim.stage = "unmoved" /\ snapBlock.canonical
          /\ claim'.of = claim.of /\ claim'.shown = claim.shown /\ claim'.hash = claim.hash
      BY <1>3 DEF ReadUnmoved, GoesOnIf, GoesOn, ClaimInv, ClaimTypes
    <2>2. claim.of = "acceptance" /\ claim.shown = claim.hash /\ claim.shown \in Proposals /\ snapBlock.bound
      BY <2>1 DEF ClaimInv, StagesOfClaims
    <2>3. claim.waited <= Patience /\ snapAge <= MaxAge + claim.waited
      BY <2>1, <2>2 DEF ClaimInv, AgesByWaiting, Over
    <2>4. snapAge <= MaxAge + Patience
      BY <2>3, ClaimBounds DEF ClaimInv, ClaimTypes
    <2> QED
      BY <2>1, <2>2, <2>4 DEF Issued
  <1> QED
    BY <1>1, <1>2, <1>3, IssuedByLastRead

\* A review, a dossier or an acceptance that is issued holds of one delivery
\* (live_delivery, build_verified_receipt, accept_delivery), however long the deadlines
\* and however often the chain drops a block.
THEOREM IssuedClaimsHold == ClaimsSpec => ClaimsHold
  <1>1. ClaimsSpec => []ClaimInv
    BY ClaimStarts, ClaimGoesOn, PTL DEF ClaimsSpec
  <1>2. ClaimInv /\ [ClaimsNext]_claimVars => [claim.stage # "issued" /\ claim'.stage = "issued" => Issued]_claimVars
    BY IssuedAsClaimed
  <1>3. [claim.stage # "issued" /\ claim'.stage = "issued" => Issued]_claimVars =>
          [claim.stage # "issued" /\ claim'.stage = "issued" =>
             /\ claim'.shown = claim'.hash
             /\ claim'.of = "dossier" => onChain.status = "completed" /\ onChain.paid /\ onChain.output = claim'.hash
             /\ claim'.of = "acceptance" =>
                  /\ claim'.shown \in Proposals
                  /\ snapBlock.canonical /\ snapBlock.bound /\ snapAge <= MaxAge + Patience]_claimVars
    BY DEF Issued
  <1> QED
    BY <1>1, <1>2, <1>3, PTL DEF ClaimsSpec, ClaimsHold

-----------------------------------------------------------------------------
(* EvidenceGates *)

\* The date of the catalog is no later than the confirmation of its registrations, and
\* what the gate has passed is not two days old before the card is built.
GatesInv ==
  /\ catalog \in [age : 0 .. Oldest, observed : SUBSET Categories]
  /\ refresh \in [running : BOOLEAN, kept : SUBSET Categories]
  /\ confirmed \in 0 .. Oldest /\ confirmed <= catalog.age
  /\ refresh # NoRefresh => confirmed = 0
  /\ "catalog" \in gate.passed => confirmed < 2

LEMMA GatesStart == GatesInit => GatesInv
  BY DEF GatesInit, GatesInv, NoGate, NoRefresh, Oldest

LEMMA GatesGoOn == GatesInv /\ [GatesNext]_gatesVars => GatesInv'
  <1> SUFFICES ASSUME GatesInv, [GatesNext]_gatesVars PROVE GatesInv'
    OBVIOUS
  <1> USE DEF GatesInv, Oldest
  <1>1. CASE ReplayDelivery
    BY <1>1 DEF ReplayDelivery, NoGate
  <1>2. CASE RunGate
    <2>1. "catalog" \in gate'.passed => catalog.age < 2
      BY <1>2 DEF RunGate, GatePassed, CatalogPasses
    <2> QED
      BY <1>2, <2>1 DEF RunGate
  <1>3. CASE Build
    BY <1>3 DEF Build, NoGate
  <1>4. CASE StartRefresh
    BY <1>4 DEF StartRefresh
  <1>5. CASE EndRefresh
    BY <1>5 DEF EndRefresh, NoRefresh
  <1>6. CASE Day
    BY <1>6 DEF Day, NoGate
  <1>7. ASSUME NEW c \in Categories, AddSupplier(c) PROVE GatesInv'
    BY <1>7 DEF AddSupplier
  <1>8. ASSUME NEW p \in Pieces, Write(p) PROVE GatesInv'
    BY <1>8 DEF Write
  <1>9. CASE UNCHANGED gatesVars
    BY <1>9 DEF gatesVars
  <1> QED
    BY <1>1, <1>2, <1>3, <1>4, <1>5, <1>6, <1>7, <1>8, <1>9 DEF GatesNext

LEMMA EarnedByGates == GatesInv => StandingIsEarned
  <1> SUFFICES ASSUME GatesInv PROVE StandingIsEarned
    OBVIOUS
  <1>1. Scorecard.functionality # "blocked" => Functional
    BY DEF Scorecard, Standing
  <1>2. Functional => confirmed < 2 /\ WithTransaction = Categories
    BY DEF Functional, Parity, GatesInv
  <1>3. Scorecard.data # "blocked" => catalog.age < 1
    BY DEF Scorecard, Standing, DataInOrder
  <1>4. catalog.age < 1 => confirmed < 1
    BY DEF GatesInv, Oldest
  <1>5. Scorecard.functionality = "ready" \/ Scorecard.paid => replayed = "fresh"
    BY DEF Scorecard, Standing, Paid
  <1> QED
    BY <1>1, <1>2, <1>3, <1>4, <1>5 DEF StandingIsEarned

\* A scorecard that is not blocked (judging/scorecard.py) rests on registrations confirmed
\* within two days, whoever writes whichever file in between, for any set of categories.
THEOREM StandingsAreEarned == GatesSpec => []StandingIsEarned
  BY GatesStart, GatesGoOn, EarnedByGates, PTL DEF GatesSpec

-----------------------------------------------------------------------------
(* DesignCouncil *)

Statements == {"unclaimed", "claimed", "live session"}
Flaws == [Kinds -> Nat]
NoWorse(g, f) == \A k \in Kinds : g[k] <= f[k]

CouncilInv == flaws \in Flaws /\ altana \in Statements

LEMMA KindsNamed ==
  Kinds = {"path", "chat", "bsc", "hire", "signals", "unpaid", "unblinded", "categories", "extra", "supplier",
           "termix", "pancake", "controls", "services", "days", "evidence"}
  BY DEF Kinds, Worst

LEMMA CouncilStarts == CouncilInit => CouncilInv
  <1>1. DefaultProposal \in Flaws
    BY DEF DefaultProposal, Flaws
  <1> QED
    BY <1>1 DEF CouncilInit, CouncilInv, Statements

LEMMA CarriedOut ==
  ASSUME CouncilInv, NEW k \in Kinds \union {"altana"}, CarryOut(k)
  PROVE  flaws' \in Flaws /\ altana' \in Statements /\ NoWorse(flaws', flaws)
         /\ (altana' = altana \/ altana' = "live session")
  <1>1. CASE k = "altana"
    <2>1. flaws' = flaws /\ altana' = "live session"
      BY <1>1 DEF CarryOut
    <2>2. \A i \in Kinds : flaws[i] \in Nat
      BY DEF CouncilInv, Flaws
    <2>3. \A i \in Kinds : flaws[i] <= flaws[i]
      BY <2>2
    <2> QED
      BY <2>1, <2>3 DEF CouncilInv, Statements, NoWorse
  <1>2. CASE k # "altana"
    <2>1. k \in Kinds /\ flaws[k] > 0 /\ flaws' = [flaws EXCEPT ![k] = flaws[k] - 1] /\ altana' = altana
      BY <1>2 DEF CarryOut
    <2>2. flaws \in [Kinds -> Nat]
      BY DEF CouncilInv, Flaws
    <2>3. flaws[k] - 1 \in Nat
      BY <2>1, <2>2
    <2> QED
      BY <2>1, <2>2, <2>3 DEF CouncilInv, Flaws, NoWorse
  <1> QED
    BY <1>1, <1>2

LEMMA CouncilGoesOn == CouncilInv /\ [CouncilNext]_councilVars => CouncilInv'
  <1> SUFFICES ASSUME CouncilInv, [CouncilNext]_councilVars PROVE CouncilInv'
    OBVIOUS
  <1>1. CASE Review
    BY <1>1 DEF Review, CouncilInv
  <1>2. ASSUME NEW k \in Kinds, Rewrite(k) PROVE CouncilInv'
    <2>1. PICK n \in 0 .. Worst[k] : flaws' = [flaws EXCEPT ![k] = n]
      BY <1>2 DEF Rewrite
    <2>2. n \in Nat
      OBVIOUS
    <2> QED
      BY <1>2, <2>1, <2>2 DEF Rewrite, CouncilInv, Flaws, Statements
  <1>3. ASSUME NEW k \in Kinds \union {"altana"}, CarryOut(k) PROVE CouncilInv'
    BY <1>3, CarriedOut DEF CouncilInv
  <1>4. CASE UNCHANGED councilVars
    BY <1>4 DEF councilVars, CouncilInv
  <1> QED
    BY <1>1, <1>2, <1>3, <1>4 DEF CouncilNext

LEMMA NoLessRises ==
  \A m, n \in Int : m <= n =>
    NoLess(0, m) \in Int /\ NoLess(0, n) \in Int /\ NoLess(0, m) <= NoLess(0, n)
  BY DEF NoLess

\* Every score falls with every kind of flaw.
LEMMA ScoresFall ==
  ASSUME NEW f \in Flaws, NEW g \in Flaws, NoWorse(g, f)
  PROVE  /\ MainScore(f) \in Int /\ MainScore(g) \in Int /\ MainScore(g) >= MainScore(f)
         /\ DataScore(f) \in Int /\ DataScore(g) \in Int /\ DataScore(g) >= DataScore(f)
         /\ DiversityScore(f) \in Int /\ DiversityScore(g) \in Int /\ DiversityScore(g) >= DiversityScore(f)
         /\ TermixScore(f) \in Int /\ TermixScore(g) \in Int /\ TermixScore(g) >= TermixScore(f)
         /\ PancakeScore(f) \in Int /\ PancakeScore(g) \in Int /\ PancakeScore(g) >= PancakeScore(f)
         /\ SecurityScore(f) \in Int /\ SecurityScore(g) \in Int /\ SecurityScore(g) >= SecurityScore(f)
         /\ ArchitectScore(f) \in Int /\ ArchitectScore(g) \in Int /\ ArchitectScore(g) >= ArchitectScore(f)
         /\ ScheduleScore(f) \in Int /\ ScheduleScore(g) \in Int /\ ScheduleScore(g) >= ScheduleScore(f)
         /\ AuditorScore(f) \in Int /\ AuditorScore(g) \in Int /\ AuditorScore(g) >= AuditorScore(f)
  <1>1. \A k \in Kinds : f[k] \in Nat /\ g[k] \in Nat /\ g[k] <= f[k]
    BY DEF Flaws, NoWorse
  <1> USE <1>1, KindsNamed
  <1>2. MainScore(f) \in Int /\ MainScore(g) \in Int /\ MainScore(g) >= MainScore(f)
    BY DEF MainScore
  <1>3. DataScore(f) \in Int /\ DataScore(g) \in Int /\ DataScore(g) >= DataScore(f)
    <2>1. /\ f.signals \in Nat /\ f.unpaid \in Nat /\ f.unblinded \in Nat
          /\ g.signals \in Nat /\ g.unpaid \in Nat /\ g.unblinded \in Nat
          /\ g.signals <= f.signals /\ g.unpaid <= f.unpaid /\ g.unblinded <= f.unblinded
      OBVIOUS
    <2>2. /\ 94 - 10 * f.signals - 8 * f.unpaid - 4 * f.unblinded \in Int
          /\ 94 - 10 * g.signals - 8 * g.unpaid - 4 * g.unblinded \in Int
          /\ 94 - 10 * f.signals - 8 * f.unpaid - 4 * f.unblinded <= 94 - 10 * g.signals - 8 * g.unpaid - 4 * g.unblinded
      BY <2>1
    <2> HIDE <1>1
    <2> QED
      BY ONLY <2>2, NoLessRises DEF DataScore
  <1>4. DiversityScore(f) \in Int /\ DiversityScore(g) \in Int /\ DiversityScore(g) >= DiversityScore(f)
    BY DEF DiversityScore, NoLess
  <1>5. TermixScore(f) \in Int /\ TermixScore(g) \in Int /\ TermixScore(g) >= TermixScore(f)
    BY DEF TermixScore
  <1>6. PancakeScore(f) \in Int /\ PancakeScore(g) \in Int /\ PancakeScore(g) >= PancakeScore(f)
    BY DEF PancakeScore
  <1>7. SecurityScore(f) \in Int /\ SecurityScore(g) \in Int /\ SecurityScore(g) >= SecurityScore(f)
    BY DEF SecurityScore
  <1>8. ArchitectScore(f) \in Int /\ ArchitectScore(g) \in Int /\ ArchitectScore(g) >= ArchitectScore(f)
    BY DEF ArchitectScore
  <1>9. ScheduleScore(f) \in Int /\ ScheduleScore(g) \in Int /\ ScheduleScore(g) >= ScheduleScore(f)
    BY DEF ScheduleScore, NoLess
  <1>10. AuditorScore(f) \in Int /\ AuditorScore(g) \in Int /\ AuditorScore(g) >= AuditorScore(f)
    BY DEF AuditorScore, NoLess
  <1> QED
    BY <1>2, <1>3, <1>4, <1>5, <1>6, <1>7, <1>8, <1>9, <1>10

LEMMA SumFalls ==
  ASSUME NEW f \in Flaws, NEW g \in Flaws, NoWorse(g, f),
         NEW a \in Statements, NEW b \in Statements, b = a \/ b = "live session"
  PROVE  SumOfScores(f, a) \in Int /\ SumOfScores(g, b) \in Int /\ SumOfScores(g, b) >= SumOfScores(f, a)
  <1>1. AltanaScore(a) \in Int /\ AltanaScore(b) \in Int /\ AltanaScore(b) >= AltanaScore(a)
    <2>1. /\ a = "unclaimed" => AltanaScore(a) = 88
          /\ a = "live session" => AltanaScore(a) = 92
          /\ a = "claimed" => AltanaScore(a) = 42
      BY DEF AltanaScore
    <2>2. b = a \/ AltanaScore(b) = 92
      BY DEF AltanaScore
    <2>3. AltanaScore(a) \in {42, 88, 92}
      BY <2>1 DEF Statements
    <2> QED
      BY ONLY <2>2, <2>3
  <1>2. /\ MainScore(f) \in Int /\ MainScore(g) \in Int /\ MainScore(g) >= MainScore(f)
        /\ DataScore(f) \in Int /\ DataScore(g) \in Int /\ DataScore(g) >= DataScore(f)
        /\ DiversityScore(f) \in Int /\ DiversityScore(g) \in Int /\ DiversityScore(g) >= DiversityScore(f)
        /\ TermixScore(f) \in Int /\ TermixScore(g) \in Int /\ TermixScore(g) >= TermixScore(f)
        /\ PancakeScore(f) \in Int /\ PancakeScore(g) \in Int /\ PancakeScore(g) >= PancakeScore(f)
        /\ SecurityScore(f) \in Int /\ SecurityScore(g) \in Int /\ SecurityScore(g) >= SecurityScore(f)
        /\ ArchitectScore(f) \in Int /\ ArchitectScore(g) \in Int /\ ArchitectScore(g) >= ArchitectScore(f)
        /\ ScheduleScore(f) \in Int /\ ScheduleScore(g) \in Int /\ ScheduleScore(g) >= ScheduleScore(f)
        /\ AuditorScore(f) \in Int /\ AuditorScore(g) \in Int /\ AuditorScore(g) >= AuditorScore(f)
    BY ScoresFall
  <1> QED
    BY ONLY <1>1, <1>2 DEF SumOfScores

LEMMA VetoesFall ==
  ASSUME NEW f \in Flaws, NEW g \in Flaws, NoWorse(g, f)
  PROVE  Vetoes(g) \subseteq Vetoes(f)
  <1>1. \A k \in Kinds : f[k] \in Nat /\ g[k] \in Nat /\ g[k] <= f[k]
    BY DEF Flaws, NoWorse
  <1>2. /\ g.bsc + g.hire > 0 => f.bsc + f.hire > 0
        /\ g.signals >= 3 => f.signals >= 3
        /\ g.categories > 0 => f.categories > 0
        /\ g.termix > 0 => f.termix > 0
        /\ g.controls > 0 => f.controls > 0
        /\ g.evidence > 0 => f.evidence > 0
    BY <1>1, KindsNamed
  <1>3. ASSUME NEW r \in Vetoes(g) PROVE r \in Vetoes(f)
    <2>1. r \in {"main", "data", "diversity", "termix", "security", "auditor"}
      BY <1>3 DEF Vetoes
    <2>2. CASE r = "main"
      BY <1>2, <1>3, <2>2 DEF Vetoes
    <2>3. CASE r = "data"
      BY <1>2, <1>3, <2>3 DEF Vetoes
    <2>4. CASE r = "diversity"
      BY <1>2, <1>3, <2>4 DEF Vetoes
    <2>5. CASE r = "termix"
      BY <1>2, <1>3, <2>5 DEF Vetoes
    <2>6. CASE r = "security"
      BY <1>2, <1>3, <2>6 DEF Vetoes
    <2>7. CASE r = "auditor"
      BY <1>2, <1>3, <2>7 DEF Vetoes
    <2> QED
      BY <2>1, <2>2, <2>3, <2>4, <2>5, <2>6, <2>7
  <1> QED
    BY <1>3

\* What the council requires helps (plugins/adversarial.py, review), whatever a proposal
\* is found to lack: carrying it out lowers no score and brings no veto.
THEOREM RequirementsHelp == CouncilSpec => CarryingOutHelps
  <1>1. CouncilSpec => []CouncilInv
    BY CouncilStarts, CouncilGoesOn, PTL DEF CouncilSpec
  <1>2. ASSUME CouncilInv, NEW k \in Kinds \union {"altana"}, CarryOut(k)
        PROVE  /\ SumOfScores(flaws', altana') >= SumOfScores(flaws, altana)
               /\ Vetoes(flaws') \subseteq Vetoes(flaws)
               /\ decision.accepted /\ decision = Decided(flaws, altana) => Decided(flaws', altana').accepted
    <2>1. flaws \in Flaws /\ flaws' \in Flaws /\ altana \in Statements /\ altana' \in Statements
          /\ NoWorse(flaws', flaws) /\ (altana' = altana \/ altana' = "live session")
      BY <1>2, CarriedOut DEF CouncilInv
    <2>2. SumOfScores(flaws, altana) \in Int /\ SumOfScores(flaws', altana') \in Int
          /\ SumOfScores(flaws', altana') >= SumOfScores(flaws, altana)
      BY <2>1, SumFalls
    <2>3. Vetoes(flaws') \subseteq Vetoes(flaws)
      BY <2>1, VetoesFall
    <2>4. ASSUME decision.accepted, decision = Decided(flaws, altana) PROVE Decided(flaws', altana').accepted
      <3>1. SumOfScores(flaws, altana) >= 780 /\ Vetoes(flaws) = {}
        BY <2>4 DEF Decided
      <3>2. SumOfScores(flaws', altana') >= 780 /\ Vetoes(flaws') = {}
        BY <3>1, <2>2, <2>3
      <3> QED
        BY <3>2 DEF Decided
    <2> QED
      BY <2>2, <2>3, <2>4
  <1>3. CouncilInv /\ [CouncilNext]_councilVars =>
          [\A k \in Kinds \union {"altana"} : CarryOut(k) =>
             /\ SumOfScores(flaws', altana') >= SumOfScores(flaws, altana)
             /\ Vetoes(flaws') \subseteq Vetoes(flaws)
             /\ decision.accepted /\ decision = Decided(flaws, altana) => Decided(flaws', altana').accepted]_councilVars
    BY <1>2
  <1> QED
    BY <1>1, <1>3, PTL DEF CouncilSpec, CarryingOutHelps

-----------------------------------------------------------------------------
(* Contracts *)

PolicyInv ==
  /\ policy \in [total : Nat, revoked : BOOLEAN, expired : BOOLEAN, consumed : SUBSET Intents]
  /\ paid \in [Intents -> Nat]
  /\ \A i \in Intents : i \notin policy.consumed => paid[i] = 0
  /\ IsFiniteSet(UnitsPaid)
  /\ PaidWithinTotal

AnchorInv ==
  /\ anchor \in Nat
  /\ anchored \subseteq [sequence : Nat, root : {"h1", "h2"}]
  /\ OneRootPerSequence

RegistryInv == agentRow \in [AgentIds -> [owner : Accounts \union {Nobody}, active : BOOLEAN]]

\* What one intent is paid is as many units as its value.
LEMMA UnitsOfIntent ==
  ASSUME NEW i, NEW v \in Nat
  PROVE  IsFiniteSet({i} \X (1 .. v)) /\ Cardinality({i} \X (1 .. v)) = v
  <1>1. IsFiniteSet({i}) /\ Cardinality({i}) = 1  BY FS_Singleton
  <1>2. IsFiniteSet(1 .. v) /\ Cardinality(1 .. v) = v  BY FS_Interval
  <1>3. /\ IsFiniteSet({i} \X (1 .. v))
        /\ Cardinality({i} \X (1 .. v)) = Cardinality({i}) * Cardinality(1 .. v)
    BY <1>1, <1>2, FS_Product, Zenon
  <1>4. Cardinality({i} \X (1 .. v)) = 1 * v  BY <1>1, <1>2, <1>3, Zenon
  <1> QED  BY <1>3, <1>4

LEMMA ContractsStart == ContractsInit => PolicyInv /\ AnchorInv /\ RegistryInv
  <1> SUFFICES ASSUME ContractsInit PROVE PolicyInv /\ AnchorInv /\ RegistryInv  OBVIOUS
  <1>1. UnitsPaid = {}
    <2>1. \A i \in Intents : paid[i] = 0  BY DEF ContractsInit
    <2>2. \A i \in Intents : 1 .. paid[i] = {}  BY <2>1
    <2>3. \A i \in Intents : {i} \X (1 .. paid[i]) = {}  BY <2>2
    <2> QED  BY <2>3, Zenon DEF UnitsPaid
  <1>2. PolicyInv
    BY <1>1, FS_EmptySet, ContractsOK DEF PolicyInv, PaidWithinTotal, ContractsInit, ContractsOK
  <1>3. AnchorInv  BY DEF AnchorInv, OneRootPerSequence, ContractsInit
  <1>4. RegistryInv  BY DEF RegistryInv, ContractsInit, Unregistered
  <1> QED  BY <1>2, <1>3, <1>4

LEMMA ConsumeKeepsPolicy ==
  ASSUME PolicyInv, NEW s, NEW i \in Intents, NEW c, NEW v \in 0 .. UintMax, Consume(s, i, c, v)
  PROVE  PolicyInv'
  <1> DEFINE units == {i} \X (1 .. v)
  <1>1. v \in Nat  BY ContractsOK DEF ContractsOK
  <1>2. paid[i] = 0 /\ i \notin policy.consumed  BY DEF PolicyInv, Consume
  <1>3. paid' = [paid EXCEPT ![i] = v]
    <2>1. paid' = [paid EXCEPT ![i] = paid[i] + v]  BY DEF Consume
    <2>2. paid[i] + v = v  BY <1>1, <1>2
    <2> QED  BY <2>1, <2>2, Zenon
  <1>4. UnitsPaid' = UnitsPaid \union units
    <2>1. \A k \in Intents : {k} \X (1 .. paid'[k]) = IF k = i THEN units ELSE {k} \X (1 .. paid[k])
      BY <1>3, Zenon DEF PolicyInv
    <2>2. {i} \X (1 .. paid[i]) = {}
      <3>1. 1 .. paid[i] = {}  BY <1>2
      <3> QED  BY <3>1
    <2> QED  BY <2>1, <2>2, Zenon DEF UnitsPaid
  <1>5. UnitsPaid \intersect units = {}
    <2>1. \A u \in units : u[1] = i  BY Zenon
    <2>2. \A u \in UnitsPaid : u[1] # i
      <3> SUFFICES ASSUME NEW k \in Intents, NEW u \in {k} \X (1 .. paid[k]), u[1] = i PROVE FALSE
        BY Zenon DEF UnitsPaid
      <3>1. k = i  BY Zenon
      <3>2. 1 .. paid[k] = {}  BY <3>1, <1>2
      <3> QED  BY <3>2
    <2> QED  BY <2>1, <2>2
  <1>6. IsFiniteSet(units) /\ Cardinality(units) = v  BY <1>1, UnitsOfIntent
  <1>7. IsFiniteSet(UnitsPaid') /\ Cardinality(UnitsPaid') = policy.total + v
    <2>1. IsFiniteSet(UnitsPaid) /\ Cardinality(UnitsPaid) = policy.total  BY DEF PolicyInv, PaidWithinTotal
    <2>2. Cardinality(UnitsPaid \union units)
            = Cardinality(UnitsPaid) + Cardinality(units) - Cardinality(UnitsPaid \intersect units)
          /\ IsFiniteSet(UnitsPaid \union units)
      BY <2>1, <1>6, FS_Union
    <2>3. Cardinality(UnitsPaid \intersect units) = 0  BY <1>5, FS_EmptySet
    <2>4. policy.total \in Nat  BY DEF PolicyInv
    <2> QED  BY <1>1, <1>4, <1>6, <2>1, <2>2, <2>3, <2>4
  <1>8. policy' = [policy EXCEPT !.total = policy.total + v, !.consumed = policy.consumed \union {i}]
    BY DEF Consume
  <1>9. policy.total + v <= MaxTotal  BY DEF Consume, FitsTotal
  <1> HIDE DEF units
  <1>10. policy' \in [total : Nat, revoked : BOOLEAN, expired : BOOLEAN, consumed : SUBSET Intents]
         /\ policy'.total = policy.total + v /\ policy'.consumed = policy.consumed \union {i}
    <2>1. policy.total + v \in Nat  BY <1>1 DEF PolicyInv
    <2>2. policy.consumed \union {i} \in SUBSET Intents  BY DEF PolicyInv
    <2> QED  BY <2>1, <2>2, <1>8 DEF PolicyInv
  <1>11. paid' \in [Intents -> Nat]  BY <1>1, <1>3 DEF PolicyInv
  <1>12. \A k \in Intents : k \notin policy'.consumed => paid'[k] = 0
    BY <1>10, <1>3 DEF PolicyInv
  <1> QED  BY <1>7, <1>9, <1>10, <1>11, <1>12 DEF PolicyInv, PaidWithinTotal

LEMMA PolicyGoesOn == PolicyInv /\ [ContractsNext]_contractVars => PolicyInv'
  <1> SUFFICES ASSUME PolicyInv, [ContractsNext]_contractVars PROVE PolicyInv'  OBVIOUS
  <1>1. ASSUME UNCHANGED <<policy, paid>> PROVE PolicyInv'
    <2>1. UnitsPaid' = UnitsPaid  BY <1>1, Zenon DEF UnitsPaid
    <2> QED  BY <1>1, <2>1 DEF PolicyInv, PaidWithinTotal
  <1>2. ASSUME paid' = paid, \/ policy' = [policy EXCEPT !.revoked = TRUE]
                             \/ policy' = [policy EXCEPT !.expired = TRUE]
        PROVE PolicyInv'
    <2>1. UnitsPaid' = UnitsPaid  BY <1>2, Zenon DEF UnitsPaid
    <2>2. /\ policy' \in [total : Nat, revoked : BOOLEAN, expired : BOOLEAN, consumed : SUBSET Intents]
          /\ policy'.total = policy.total /\ policy'.consumed = policy.consumed
      BY <1>2 DEF PolicyInv
    <2> QED  BY <1>2, <2>1, <2>2 DEF PolicyInv, PaidWithinTotal
  <1> QED
    BY <1>1, <1>2, ConsumeKeepsPolicy, Zenon
    DEF ContractsNext, contractVars, ContractsExpire, Revoke, Anchor, Register, UpdateAgent

LEMMA AnchorGoesOn == AnchorInv /\ [ContractsNext]_contractVars => AnchorInv'
  <1> SUFFICES ASSUME AnchorInv, [ContractsNext]_contractVars PROVE AnchorInv'  OBVIOUS
  <1>1. CASE UNCHANGED <<anchor, anchored>>
    BY <1>1 DEF AnchorInv, OneRootPerSequence
  <1>2. ASSUME NEW s, NEW n \in 0 .. MaxSequence, NEW r \in {"h1", "h2"}, Anchor(s, n, r) PROVE AnchorInv'
    <2>1. n \in Nat /\ anchor' = n /\ n > anchor /\ anchored' = anchored \union {[sequence |-> n, root |-> r]}
      BY <1>2, ContractsOK DEF Anchor, Later, ContractsOK
    <2>2. \A x \in anchored : x.sequence \in Nat /\ x.sequence < n
      BY <2>1 DEF AnchorInv, OneRootPerSequence
    <2>3. [sequence |-> n, root |-> r] \in [sequence : Nat, root : {"h1", "h2"}]  BY <2>1
    <2>4. \A x, y \in anchored' : x.sequence = y.sequence => x = y
      BY <2>1, <2>2 DEF AnchorInv, OneRootPerSequence
    <2>5. \A x \in anchored' : x.sequence <= anchor'
      BY <2>1, <2>2
    <2> QED  BY <2>1, <2>3, <2>4, <2>5 DEF AnchorInv, OneRootPerSequence
  <1> QED
    BY <1>1, <1>2, Zenon
    DEF ContractsNext, contractVars, ContractsExpire, Consume, Revoke, Register, UpdateAgent

\* The owner of an agent stays, and the registry keeps its types.
RegistrantStays ==
  \A a \in AgentIds : agentRow[a].owner # Nobody => agentRow'[a].owner = agentRow[a].owner

LEMMA RegistryGoesOn == RegistryInv /\ [ContractsNext]_contractVars => RegistryInv' /\ RegistrantStays
  <1> SUFFICES ASSUME RegistryInv, [ContractsNext]_contractVars PROVE RegistryInv' /\ RegistrantStays  OBVIOUS
  <1>1. CASE UNCHANGED agentRow  BY <1>1 DEF RegistryInv, RegistrantStays
  <1>2. ASSUME NEW s \in Accounts, NEW a \in AgentIds, Register(s, a) PROVE RegistryInv' /\ RegistrantStays
    BY <1>2 DEF Register, Vacant, RegistryInv, RegistrantStays
  <1>3. ASSUME NEW s \in Accounts, NEW a \in AgentIds, NEW b \in BOOLEAN, UpdateAgent(s, a, b)
        PROVE RegistryInv' /\ RegistrantStays
    BY <1>3 DEF UpdateAgent, RegistryInv, RegistrantStays
  <1> QED
    BY <1>1, <1>2, <1>3, Zenon
    DEF ContractsNext, contractVars, ContractsExpire, Consume, Revoke, Anchor

\* Value, anchors and ownership, for every number of accounts, intents and agents.
THEOREM ContractsAlwaysHold == ContractsSpec => ContractsHold
  <1>1. PolicyInv /\ AnchorInv => PaidWithinTotal /\ OneRootPerSequence  BY DEF PolicyInv, AnchorInv
  <1>2. [RegistrantStays]_contractVars =>
          [\A a \in AgentIds : agentRow[a].owner # Nobody => agentRow'[a].owner = agentRow[a].owner]_contractVars
    BY DEF RegistrantStays
  <1>3. ContractsSpec => [](PolicyInv /\ AnchorInv /\ RegistryInv)
    BY ContractsStart, PolicyGoesOn, AnchorGoesOn, RegistryGoesOn, PTL DEF ContractsSpec
  <1>4. ContractsSpec => [](PaidWithinTotal /\ OneRootPerSequence)  BY <1>1, <1>3, PTL
  <1>5. ContractsSpec => RegistrantStaysOwner
    BY <1>2, <1>3, RegistryGoesOn, PTL DEF ContractsSpec, RegistrantStaysOwner
  <1> QED  BY <1>4, <1>5 DEF ContractsHold

-----------------------------------------------------------------------------
(* WalletAuth *)

\* Verifications that have used a challenge up and not yet opened their session.
Spending == {p \in AuthProcesses : verifying[p] = "used"}

\* A challenge pays for one session: for one that was opened, for one about to be
\* opened, or for one still to be asked for with the row as it is.
Unspent == IF challenge.number > 0 /\ ~challenge.used THEN 1 ELSE 0

AuthInv ==
  /\ challenge \in [number : Nat, expired : BOOLEAN, used : BOOLEAN]
  /\ verifying \in [AuthProcesses -> {FreeProcess, "read", "used"}]
  /\ sessions \in Nat
  /\ signed \subseteq Nat \ {0}
  /\ \A p \in AuthProcesses : verifying[p] # FreeProcess => challenge.number > 0
  /\ sessions + Cardinality(Spending) + Unspent <= challenge.number

LEMMA SpendingCounted ==
  /\ IsFiniteSet(Spending) /\ Cardinality(Spending) \in Nat
  /\ IsFiniteSet(Spending') /\ Cardinality(Spending') \in Nat
  <1>1. Spending \subseteq AuthProcesses /\ Spending' \subseteq AuthProcesses  BY Zenon DEF Spending
  <1> QED  BY <1>1, AuthConstantsOK, FS_Subset, FS_CardinalityType DEF AuthConstantsOK

LEMMA AuthStarts == AuthInit => AuthInv
  <1> SUFFICES ASSUME AuthInit PROVE AuthInv  OBVIOUS
  <1>1. Spending = {}  BY Zenon DEF Spending, AuthInit, FreeProcess
  <1>2. Cardinality(Spending) = 0  BY <1>1, FS_EmptySet
  <1> QED  BY <1>2 DEF AuthInv, AuthInit, Unspent, FreeProcess

LEMMA AuthGoesOn == AuthInv /\ [AuthNext]_authVars => AuthInv'
  <1> SUFFICES ASSUME AuthInv, [AuthNext]_authVars PROVE AuthInv'  OBVIOUS
  <1> USE SpendingCounted
  <1>same. ASSUME verifying' = verifying PROVE Spending' = Spending  BY <1>same, Zenon DEF Spending
  <1>1. CASE UNCHANGED authVars
    BY <1>1, <1>same DEF AuthInv, Unspent, authVars
  <1>2. CASE AskChallenge
    BY <1>2, <1>same DEF AuthInv, Unspent, AskChallenge
  <1>3. CASE LapseChallenge
    BY <1>3, <1>same DEF AuthInv, Unspent, LapseChallenge
  <1>4. CASE Sign
    <2>1. challenge.number \in Nat \ {0} /\ signed \subseteq Nat \ {0}  BY <1>4 DEF AuthInv, Sign
    <2>2. signed' \subseteq Nat \ {0}  BY <2>1, <1>4, Zenon DEF Sign
    <2> QED  BY <2>2, <1>4, <1>same DEF AuthInv, Unspent, Sign
  <1>5. ASSUME NEW p \in AuthProcesses, ReadChallenge(p) PROVE AuthInv'
    <2>1. Spending' = Spending  BY <1>5 DEF Spending, ReadChallenge, FreeProcess, AuthInv
    <2> QED  BY <2>1, <1>5 DEF AuthInv, Unspent, ReadChallenge, FreeProcess
  <1>6. ASSUME NEW p \in AuthProcesses, ConsumeChallenge(p) PROVE AuthInv'
    <2>1. CASE Unused
      <3>1. Spending' = Spending \union {p} /\ p \notin Spending
        BY <1>6, <2>1 DEF Spending, ConsumeChallenge, AuthInv
      <3>2. Cardinality(Spending') = Cardinality(Spending) + 1  BY <3>1, FS_AddElement
      <3>3. challenge' = [challenge EXCEPT !.used = TRUE] /\ sessions' = sessions /\ signed' = signed
        BY <1>6, <2>1 DEF ConsumeChallenge
      <3>4. challenge.number > 0 /\ ~challenge.used  BY <1>6, <2>1 DEF AuthInv, ConsumeChallenge, Unused, FreeProcess
      <3>5. Unspent = 1 /\ Unspent' = 0  BY <3>3, <3>4 DEF Unspent, AuthInv
      <3>6. verifying' \in [AuthProcesses -> {FreeProcess, "read", "used"}]
        BY <1>6, <2>1 DEF AuthInv, ConsumeChallenge
      <3>7. challenge' \in [number : Nat, expired : BOOLEAN, used : BOOLEAN] /\ challenge'.number = challenge.number
        BY <3>3 DEF AuthInv
      <3>8. sessions' + Cardinality(Spending') + Unspent' <= challenge'.number
        BY <3>2, <3>3, <3>5, <3>7 DEF AuthInv
      <3> QED  BY <3>3, <3>4, <3>6, <3>7, <3>8 DEF AuthInv
    <2>2. CASE ~Unused
      <3>1. Spending' = Spending  BY <1>6, <2>2 DEF Spending, ConsumeChallenge, AuthInv, FreeProcess
      <3>2. UNCHANGED <<challenge, signed, sessions>>  BY <1>6, <2>2 DEF ConsumeChallenge
      <3>3. verifying' = [verifying EXCEPT ![p] = FreeProcess]  BY <1>6, <2>2 DEF ConsumeChallenge
      <3> QED  BY <3>1, <3>2, <3>3 DEF AuthInv, Unspent
    <2> QED  BY <2>1, <2>2
  <1>7. ASSUME NEW p \in AuthProcesses, SaveSession(p) PROVE AuthInv'
    <2>1. Spending' = Spending \ {p} /\ p \in Spending
      BY <1>7 DEF Spending, SaveSession, AuthInv, FreeProcess
    <2>2. Cardinality(Spending') = Cardinality(Spending) - 1  BY <2>1, FS_RemoveElement
    <2> QED  BY <2>2, <1>7 DEF AuthInv, Unspent, SaveSession, FreeProcess
  <1>8. ASSUME NEW p \in AuthProcesses, AuthCrash(p) PROVE AuthInv'
    <2>1. Spending' \subseteq Spending  BY <1>8 DEF Spending, AuthCrash, AuthInv, FreeProcess
    <2>2. Cardinality(Spending') <= Cardinality(Spending)  BY <2>1, FS_Subset
    <2> QED  BY <2>2, <1>8 DEF AuthInv, Unspent, AuthCrash, FreeProcess
  <1> QED  BY <1>1, <1>2, <1>3, <1>4, <1>5, <1>6, <1>7, <1>8 DEF AuthNext

\* Whatever processes verify at once and wherever one of them dies, no more sessions
\* are opened than challenges were asked for.
THEOREM SessionsAreAskedFor == AuthSpec => []SessionsWereAskedFor
  <1>1. AuthInv => SessionsWereAskedFor  BY SpendingCounted DEF AuthInv, SessionsWereAskedFor, Unspent
  <1> QED  BY <1>1, AuthStarts, AuthGoesOn, PTL DEF AuthSpec

-----------------------------------------------------------------------------
(* SignedQuote *)

\* A quote as its signer made it.
MadeBy(q, by, r, price, at, until, domain, format) ==
  q = Envelope(by, r, Response(r, price, at, until, TRUE), domain, format)
IsQuote(q) ==
  \E by, r, price, domain, format : \E at, until \in Nat : MadeBy(q, by, r, price, at, until, domain, format)

\* An order and the quote it rests on.
RestsOn(o, q) ==
  /\ q.provider = o.provider /\ q.request = Request(o.request)
  /\ q.signature = [by |-> o.provider, of |-> o.content]
  /\ o.shown.price = q.response.price /\ o.shown.expires = q.response.expires
  /\ o.shown.terms.wanted = q.response.terms.wanted
Readable(o) ==
  /\ o.content.negotiated \in Nat
  /\ DescriptionHolds(o.content, FALSE) /\ SignedBy(o.signature, o.provider, o.content)

QuotesInv ==
  /\ second \in Nat
  /\ \A q \in quotes : IsQuote(q)
  /\ \A o \in ordered : Readable(o) /\ \E q \in quotes : RestsOn(o, q)

EnvelopeParts == {"request", "request_hash", "response", "response_hash", "domain", "provider",
                  "negotiation_hash", "signature"}

LEMMA QuoteParts ==
  ASSUME NEW q, IsQuote(q)
  PROVE  /\ DOMAIN q = EnvelopeParts
         /\ q.signature.by = q.provider
         /\ \E r : q.request = Request(r)
         /\ q.signature.of.task = q.request.task
         /\ q.signature.of.price = q.response.price /\ q.signature.of.expires = q.response.expires
         /\ q.signature.of.negotiated \in Nat
         /\ q.signature.of.terms.wanted = q.response.terms.wanted
  <1>1. PICK by, r, price, domain, format : \E at, until \in Nat : MadeBy(q, by, r, price, at, until, domain, format)
    BY DEF IsQuote
  <1>2. PICK at \in Nat, until \in Nat : MadeBy(q, by, r, price, at, until, domain, format)
    BY <1>1
  <1> DEFINE response == Response(r, price, at, until, TRUE)
             content == Content([request |-> Request(r), response |-> response, domain |-> domain], format)
  <1>3. /\ DOMAIN q = EnvelopeParts
        /\ q.provider = by /\ q.request = Request(r) /\ q.response = response
        /\ q.signature = [by |-> by, of |-> content]
    BY <1>2 DEF MadeBy, Envelope, EnvelopeParts
  <1>4. response.price = price /\ response.expires = until /\ response.negotiated = at
        /\ response.terms = WantedTerms(r)
    BY DEF Response
  <1>5. /\ content.task = Request(r).task /\ content.price = price /\ content.expires = until
        /\ content.negotiated = at
    BY <1>4 DEF Content
  <1>6. content.terms.wanted = response.terms.wanted
    BY DEF Content
  <1> HIDE DEF response, content
  <1> QED  BY <1>2, <1>3, <1>4, <1>5, <1>6

LEMMA PartReplaced ==
  ASSUME NEW q, DOMAIN q = EnvelopeParts, NEW f \in EnvelopeParts \ {"signature"}, NEW v
  PROVE  DOMAIN [q EXCEPT ![f] = v] = EnvelopeParts /\ [q EXCEPT ![f] = v].signature = q.signature
  BY DEF EnvelopeParts

\* Whatever is done to a quote on its way, its signature is one that was made.
LEMMA SignaturesAreMade ==
  ASSUME QuotesInv, NEW format, NEW e \in Answers(format)
  PROVE  \E q \in quotes : e.signature = q.signature
  <1>1. \A q \in quotes : DOMAIN q = EnvelopeParts
    BY QuoteParts DEF QuotesInv
  <1> DEFINE SignedOnce(x) == DOMAIN x = EnvelopeParts /\ \E q \in quotes : x.signature = q.signature
  <1>2. ASSUME NEW q \in quotes, NEW x \in Rewritten(q)  PROVE SignedOnce(x)
    <2>1. DOMAIN q = EnvelopeParts /\ {"response", "domain"} \subseteq EnvelopeParts \ {"signature"}
      BY <1>1 DEF EnvelopeParts
    <2>2. \/ \E v : x = [q EXCEPT !["response"] = v]
          \/ \E v : x = [q EXCEPT !["domain"] = v]
      <3>1. CASE x = [q EXCEPT !.response.price = "fixed"]
        BY <3>1
      <3>2. CASE x = [q EXCEPT !.response.expires = q.response.expires + 1]
        BY <3>2
      <3>3. CASE x = [q EXCEPT !.response.terms.more = "something"]
        BY <3>3
      <3>4. CASE x = [q EXCEPT !.response.completion = "later"]
        BY <3>4
      <3>5. CASE x = [q EXCEPT !.domain = "here"]
        BY <3>5
      <3> QED  BY <1>2, <3>1, <3>2, <3>3, <3>4, <3>5 DEF Rewritten
    <2>3. ASSUME NEW v, x = [q EXCEPT !["response"] = v]  PROVE DOMAIN x = EnvelopeParts /\ x.signature = q.signature
      BY <2>1, <2>3, PartReplaced
    <2>4. ASSUME NEW v, x = [q EXCEPT !["domain"] = v]  PROVE DOMAIN x = EnvelopeParts /\ x.signature = q.signature
      BY <2>1, <2>4, PartReplaced
    <2> QED  BY <2>2, <2>3, <2>4
  <1>3. ASSUME NEW q \in quotes, NEW p \in quotes, NEW x \in Mixed(q, p)  PROVE SignedOnce(x)
    <2>1. DOMAIN x = EnvelopeParts /\ (x.signature = q.signature \/ x.signature = p.signature)
      BY <1>1 DEF Mixed, EnvelopeParts
    <2> QED  BY <2>1
  <1>4. \A x \in Changed : SignedOnce(x)
    <2>1. \A x \in quotes : SignedOnce(x)
      BY <1>1
    <2> HIDE DEF SignedOnce
    <2>2. ASSUME NEW x \in Changed
          PROVE  \/ x \in quotes
                 \/ \E q \in quotes : x \in Rewritten(q)
                 \/ \E q, p \in quotes : x \in Mixed(q, p)
      BY <2>2 DEF Changed, MixedWithAny
    <2> QED  BY <1>2, <1>3, <2>1, <2>2
  <1>5. ASSUME NEW x \in Changed  PROVE SignedOnce(Rehashed(x, format))
    <2>1. SignedOnce(x)  BY <1>4
    <2>2. DOMAIN Rehashed(x, format) = EnvelopeParts /\ Rehashed(x, format).signature = x.signature
      BY <2>1 DEF Rehashed, EnvelopeParts
    <2> QED  BY <2>1, <2>2
  <1> QED  BY <1>4, <1>5 DEF Answers

LEMMA AcceptedIsQuoted ==
  ASSUME QuotesInv, NEW r, NEW format, NEW e \in Answers(format), Accepts(e, r, format),
         NEW o, o = [request |-> r, format |-> format, provider |-> e.provider, content |-> Content(e, format),
                     signature |-> e.signature, shown |-> e.response]
  PROVE  Readable(o) /\ \E q \in quotes : RestsOn(o, q)
  <1>1. PICK q \in quotes : e.signature = q.signature
    BY SignaturesAreMade
  <1>2. IsQuote(q)
    BY DEF QuotesInv
  <1>3. /\ o.request = r /\ o.provider = e.provider /\ o.content = Content(e, format)
        /\ o.signature = e.signature /\ o.shown = e.response
    OBVIOUS
  <1>4. q.signature = [by |-> e.provider, of |-> Content(e, format)]
    BY <1>1 DEF Accepts, BindsContent, SignedBy
  <1> DEFINE c == Content(e, format)
  <1>5. q.signature.by = e.provider /\ q.signature.of = c
    BY <1>4
  <1>6. /\ c.task = e.request.task /\ c.price = e.response.price /\ c.expires = e.response.expires
        /\ c.terms.wanted = e.response.terms.wanted
    BY DEF Content
  <1>7. e.request = Request(r) /\ DescriptionHolds(c, TRUE)
    BY DEF Accepts
  <1> HIDE DEF c
  <1>8. q.request = Request(r)
    <2>1. PICK s : q.request = Request(s)
      BY <1>2, QuoteParts
    <2>2. Request(s).task = s /\ Request(r).task = r
      BY DEF Request
    <2>3. q.signature.of.task = q.request.task
      BY <1>2, QuoteParts
    <2> QED  BY <1>5, <1>6, <1>7, <2>1, <2>2, <2>3
  <1>9. /\ q.provider = e.provider /\ e.response.price = q.response.price
        /\ e.response.expires = q.response.expires /\ e.response.terms.wanted = q.response.terms.wanted
        /\ c.negotiated \in Nat
    BY <1>2, <1>5, <1>6, QuoteParts
  <1>10. RestsOn(o, q)
    BY <1>3, <1>4, <1>8, <1>9 DEF RestsOn, c
  <1>11. Readable(o)
    <2>1. DescriptionHolds(c, FALSE)
      BY <1>7 DEF DescriptionHolds
    <2>2. SignedBy(o.signature, o.provider, o.content)
      BY <1>1, <1>3, <1>4 DEF SignedBy
    <2> QED  BY <1>3, <1>9, <2>1, <2>2 DEF Readable, c
  <1> QED  BY <1>10, <1>11

LEMMA QuotesGoOn ==
  ASSUME QuotesInv, [QuotesNext]_quoteVars
  PROVE  QuotesInv'
  <1>1. CASE SignQuote
    <2>1. PICK by \in Signers, r \in QuoteRequests, format \in Formats,
               kind \in {"fit", "brief", "dear", "elsewhere", "lasting"} :
            LET until == second + (CASE kind = "brief" -> 1 [] kind = "lasting" -> LongestLife + 1 [] OTHER -> LongestLife)
                price == IF kind = "dear" THEN "other" ELSE "fixed"
                domain == IF kind = "elsewhere" THEN "elsewhere" ELSE "here"
            IN quotes' = quotes \union {Envelope(by, r, Response(r, price, second, until, TRUE), domain, format)}
      BY <1>1 DEF SignQuote
    <2> DEFINE until == second + (CASE kind = "brief" -> 1 [] kind = "lasting" -> LongestLife + 1 [] OTHER -> LongestLife)
               price == IF kind = "dear" THEN "other" ELSE "fixed"
               domain == IF kind = "elsewhere" THEN "elsewhere" ELSE "here"
               q == Envelope(by, r, Response(r, price, second, until, TRUE), domain, format)
    <2>2. quotes' = quotes \union {q}
      BY <2>1
    <2>3. second \in Nat /\ until \in Nat
      BY DEF QuotesInv, LongestLife
    <2> HIDE DEF until, price, domain
    <2>4. MadeBy(q, by, r, price, second, until, domain, format)
      BY DEF MadeBy
    <2>5. IsQuote(q)
      BY <2>3, <2>4 DEF IsQuote
    <2> HIDE DEF q
    <2>6. second' = second /\ ordered' = ordered
      BY <1>1 DEF SignQuote
    <2>7. \A o \in ordered : Readable(o)'
      BY <2>6 DEF QuotesInv, Readable, DescriptionHolds
    <2>8. \A o \in ordered : \E x \in quotes' : RestsOn(o, x)
      BY <2>2 DEF QuotesInv
    <2> QED  BY <2>2, <2>3, <2>5, <2>6, <2>7, <2>8 DEF QuotesInv
  <1>2. CASE NextBlock
    <2>1. second \in Nat /\ second' = second + 1 /\ quotes' = quotes /\ ordered' = ordered
      BY <1>2 DEF NextBlock, QuotesInv
    <2>2. \A o \in ordered : Readable(o)'
      BY <2>1 DEF QuotesInv, Readable, DescriptionHolds, Skew
    <2> QED  BY <2>1, <2>2 DEF QuotesInv
  <1>3. ASSUME NEW r \in QuoteRequests, NEW format \in Formats, Order(r, format)  PROVE QuotesInv'
    <2>1. PICK e \in Answers(format) :
            /\ Accepts(e, r, format)
            /\ ordered' = ordered \union
                 {[request |-> r, format |-> format, provider |-> e.provider, content |-> Content(e, format),
                   signature |-> e.signature, shown |-> e.response]}
      BY <1>3 DEF Order
    <2> DEFINE o == [request |-> r, format |-> format, provider |-> e.provider, content |-> Content(e, format),
                     signature |-> e.signature, shown |-> e.response]
    <2>2. Readable(o) /\ \E q \in quotes : RestsOn(o, q)
      BY <2>1, AcceptedIsQuoted
    <2>3. ordered' = ordered \union {o}
      BY <2>1
    <2> HIDE DEF o
    <2>4. second' = second /\ quotes' = quotes
      BY <1>3 DEF Order
    <2>5. \A x \in ordered' : Readable(x)'
      BY <2>2, <2>3, <2>4 DEF QuotesInv, Readable, DescriptionHolds
    <2> QED  BY <2>2, <2>3, <2>4, <2>5 DEF QuotesInv
  <1>4. CASE NewWallet \/ UNCHANGED quoteVars
    <2>1. second' = second /\ quotes' = quotes /\ ordered' = ordered
      BY <1>4 DEF NewWallet, quoteVars
    <2>2. \A o \in ordered : Readable(o)'
      BY <2>1 DEF QuotesInv, Readable, DescriptionHolds
    <2> QED  BY <2>1, <2>2 DEF QuotesInv
  <1> QED  BY <1>1, <1>2, <1>3, <1>4 DEF QuotesNext

\* An order is what its provider signed for this request, and can be read back as such
\* (verify_negotiation_envelope, _validated_description): whatever was repeated, mixed or
\* written into the answers, for any requests, signers and time.
THEOREM OrdersAreAsSigned == QuotesSpec => []OrderIsAsSigned
  <1>1. QuotesInit => QuotesInv
    BY DEF QuotesInit, QuotesInv
  <1>2. QuotesInv => OrderIsAsSigned
    BY DEF QuotesInv, OrderIsAsSigned, OrderedAsSigned, OrderStaysReadable, Readable, RestsOn
  <1> QED  BY <1>1, <1>2, QuotesGoOn, PTL DEF QuotesSpec

-----------------------------------------------------------------------------
(* MarketView *)

\* What a load or a snapshot calls callable was heard within its age; a snapshot that
\* may be offered is no older than a load may last and the cache has served it since.
LoadShape == [stage : {"none", "probing", "indexing", "indexed"}, age : 0 .. LoadTimeout,
              open : SUBSET Endpoints, callable : SUBSET Listings]
SnapshotShape == [age : Nat, callable : SUBSET Listings, reachable : BOOLEAN, error : BOOLEAN]
HeardWithin(s) == \A l \in s.callable : heard[l] <= s.age

MarketInv ==
  /\ serves \subseteq Listings
  /\ load \in LoadShape /\ (load.stage = "none" => load = NoLoad)
  /\ snapshot \in SnapshotShape /\ valid \in 0 .. Ttl
  /\ heard \in [Listings -> 0 .. Longest]
  /\ HeardWithin(load)
  /\ ~snapshot.error => HeardWithin(snapshot)
  /\ ~snapshot.error /\ valid > 0 => snapshot.age + valid <= LoadTimeout + Ttl
PagesOK == reader = [r \in Readers |-> reader[r]]

LEMMA MarketNumbers == LoadTimeout \in Nat /\ Ttl \in Nat /\ Longest \in Nat /\ FreshFor \in Nat
  BY MarketConstantsOK DEF MarketConstantsOK, Longest

LEMMA FoundAreListed ==
  ASSUME serves \subseteq Listings, NEW e
  PROVE  Answering(e) \subseteq Listings
  BY DEF Answering, ListedAt

LEMMA MarketProbes ==
  ASSUME MarketInv, NEW e \in Endpoints, Probe(e)
  PROVE  MarketInv'
  <1>1. PICK found \in SUBSET Listings :
          /\ load' = [load EXCEPT !.open = @ \ {e}, !.callable = @ \union found,
                                  !.stage = IF load.open = {e} THEN "indexing" ELSE "probing"]
          /\ heard' = [l \in Listings |-> IF l \in found THEN 0 ELSE heard[l]]
    <2>1. PICK missing \in BOOLEAN :
            LET found == IF missing THEN {} ELSE Answering(e) IN
            /\ load' = [load EXCEPT !.open = @ \ {e}, !.callable = @ \union found,
                                    !.stage = IF load.open = {e} THEN "indexing" ELSE "probing"]
            /\ heard' = [l \in Listings |-> IF l \in found THEN 0 ELSE heard[l]]
      BY DEF Probe
    <2> DEFINE found == IF missing THEN {} ELSE Answering(e)
    <2>2. found \in SUBSET Listings
      BY FoundAreListed DEF MarketInv
    <2> QED  BY <2>1, <2>2
  <1> DEFINE stage == IF load.open = {e} THEN "indexing" ELSE "probing"
             callable == load.callable \union found
             open == load.open \ {e}
  <1>2. load \in LoadShape  BY DEF MarketInv
  <1>3. load' \in [stage : {stage}, age : {load.age}, open : {open}, callable : {callable}]
    BY <1>1, <1>2 DEF LoadShape
  <1>4. load'.stage = stage /\ load'.age = load.age /\ load'.callable = callable
    BY <1>3
  <1>5. load' \in LoadShape
    <2>1. load.age \in 0 .. LoadTimeout /\ open \in SUBSET Endpoints /\ callable \in SUBSET Listings
      BY <1>2 DEF LoadShape
    <2>2. stage \in {"none", "probing", "indexing", "indexed"}  OBVIOUS
    <2> HIDE DEF stage, callable, open
    <2> QED  BY <1>3, <2>1, <2>2 DEF LoadShape
  <1>6. heard' \in [Listings -> 0 .. Longest]
    BY <1>1, MarketNumbers DEF MarketInv
  <1>7. \A l \in Listings : heard'[l] <= heard[l]
    BY <1>1, MarketNumbers DEF MarketInv
  <1>8. HeardWithin(load)'
    <2> SUFFICES ASSUME NEW l \in callable  PROVE heard'[l] <= load.age
      BY <1>4 DEF HeardWithin
    <2>1. load.age \in Nat /\ load.callable \subseteq Listings  BY <1>2, MarketNumbers DEF LoadShape
    <2>2. CASE l \in found
      BY <1>1, <2>1, <2>2
    <2>3. CASE l \notin found
      <3>1. l \in load.callable /\ heard'[l] = heard[l]  BY <1>1, <2>1, <2>3
      <3> QED  BY <3>1 DEF MarketInv, HeardWithin
    <2> QED  BY <2>2, <2>3
  <1>9. ~snapshot.error => HeardWithin(snapshot)'
    <2> SUFFICES ASSUME ~snapshot.error, NEW l \in snapshot.callable  PROVE heard'[l] <= snapshot.age
      BY DEF HeardWithin, Probe
    <2>1. l \in Listings /\ snapshot.age \in Nat  BY DEF MarketInv, SnapshotShape
    <2>2. heard[l] <= snapshot.age  BY DEF MarketInv, HeardWithin
    <2>3. heard[l] \in Nat /\ heard'[l] \in Nat  BY <1>6, <2>1, MarketNumbers DEF MarketInv
    <2> QED  BY <1>7, <2>1, <2>2, <2>3
  <1>10. serves' = serves /\ snapshot' = snapshot /\ valid' = valid
    BY DEF Probe
  <1>11. load'.stage # "none"
    BY <1>4
  <1> QED  BY <1>5, <1>6, <1>8, <1>9, <1>10, <1>11 DEF MarketInv

LEMMA MarketTicks ==
  ASSUME MarketInv, MarketTick
  PROVE  MarketInv'
  <1>1. load \in LoadShape /\ snapshot \in SnapshotShape /\ valid \in 0 .. Ttl
    BY DEF MarketInv
  <1> DEFINE a == snapshot.age
             b == IF a = Longest THEN a ELSE a + 1
  <1>2. snapshot' \in [age : {b}, callable : {snapshot.callable},
                       reachable : {snapshot.reachable}, error : {snapshot.error}]
    BY <1>1 DEF MarketTick, SnapshotShape
  <1>3. a \in Nat /\ b \in Nat /\ b <= a + 1
    BY <1>1, MarketNumbers DEF SnapshotShape
  <1>4. \A n \in 0 .. Longest : n <= a => (IF n = Longest THEN Longest ELSE n + 1) <= b
    BY <1>3, MarketNumbers
  <1> HIDE DEF b
  <1>5. snapshot'.age = b /\ snapshot'.callable = snapshot.callable /\ snapshot'.error = snapshot.error
    BY <1>2
  <1>6. snapshot' \in SnapshotShape
    BY <1>1, <1>2, <1>3 DEF SnapshotShape
  <1>7. \A l \in Listings : heard'[l] = IF heard[l] = Longest THEN Longest ELSE heard[l] + 1
    BY DEF MarketTick
  <1>8. heard' \in [Listings -> 0 .. Longest]
    BY MarketNumbers DEF MarketTick, MarketInv
  <1>9. ~snapshot'.error => HeardWithin(snapshot)'
    <2> SUFFICES ASSUME ~snapshot.error, NEW l \in snapshot.callable  PROVE heard'[l] <= b
      BY <1>5 DEF HeardWithin
    <2>1. l \in Listings /\ heard[l] \in 0 .. Longest  BY <1>1 DEF MarketInv, SnapshotShape
    <2>2. heard[l] <= a  BY DEF MarketInv, HeardWithin
    <2> QED  BY <1>4, <1>7, <2>1, <2>2
  <1>10. valid' \in 0 .. Ttl /\ (valid' > 0 => valid > 0 /\ valid' = valid - 1)
    BY <1>1, MarketNumbers DEF MarketTick
  <1>11. ~snapshot'.error /\ valid' > 0 => snapshot'.age + valid' <= LoadTimeout + Ttl
    <2> SUFFICES ASSUME ~snapshot.error, valid' > 0  PROVE b + valid' <= LoadTimeout + Ttl
      BY <1>5
    <2>1. a + valid <= LoadTimeout + Ttl  BY <1>10 DEF MarketInv
    <2> QED  BY <1>1, <1>3, <1>10, <2>1, MarketNumbers
  <1>12. load' \in LoadShape /\ (load'.stage = "none" => load' = NoLoad) /\ HeardWithin(load)'
    <2>1. CASE load = NoLoad
      <3>1. load' = load  BY <2>1 DEF MarketTick
      <3>2. load'.callable = {}  BY <2>1, <3>1 DEF NoLoad
      <3> QED  BY <1>1, <2>1, <3>1, <3>2 DEF HeardWithin
    <2>2. CASE load # NoLoad
      <3> DEFINE n == load.age + 1
      <3>1. load' \in [stage : {load.stage}, age : {n}, open : {load.open}, callable : {load.callable}]
        BY <1>1, <2>2 DEF MarketTick, LoadShape
      <3>2. load.stage # "none" /\ load.age < LoadTimeout
        BY <2>2 DEF MarketTick, MarketInv
      <3>3. n \in 0 .. LoadTimeout /\ load.age \in Nat
        BY <1>1, <3>2, MarketNumbers DEF LoadShape
      <3>4. \A m \in 0 .. Longest : m <= load.age => (IF m = Longest THEN Longest ELSE m + 1) <= n
        BY <3>3, MarketNumbers
      <3> HIDE DEF n
      <3>5. load'.age = n /\ load'.callable = load.callable /\ load'.stage = load.stage
        BY <3>1
      <3>6. load' \in LoadShape  BY <1>1, <3>1, <3>3 DEF LoadShape
      <3>7. ASSUME NEW l \in load.callable  PROVE heard'[l] <= n
        <4>1. l \in Listings /\ heard[l] \in 0 .. Longest  BY <1>1 DEF MarketInv, LoadShape
        <4>2. heard[l] <= load.age  BY DEF MarketInv, HeardWithin
        <4> QED  BY <1>7, <3>4, <4>1, <4>2
      <3> QED  BY <3>2, <3>5, <3>6, <3>7 DEF HeardWithin
    <2> QED  BY <2>1, <2>2
  <1>13. serves' \subseteq Listings
    BY DEF MarketTick, MarketInv
  <1> QED  BY <1>6, <1>8, <1>9, <1>10, <1>11, <1>12, <1>13 DEF MarketInv

\* The ends of a load.
LEMMA LoadEnds ==
  ASSUME MarketInv, EndLoad \/ FailLoad
  PROVE  MarketInv'
  <1>1. load \in LoadShape /\ snapshot \in SnapshotShape
    BY DEF MarketInv
  <1>2. /\ serves' = serves /\ heard' = heard /\ load' = NoLoad /\ valid' = Ttl
    BY DEF EndLoad, FailLoad
  <1>3. NoLoad \in LoadShape /\ NoLoad.callable = {}
    BY MarketNumbers DEF NoLoad, LoadShape
  <1>4. snapshot' \in SnapshotShape /\ (~snapshot'.error => HeardWithin(snapshot)' /\ snapshot'.age <= LoadTimeout)
    <2>1. CASE EndLoad
      <3>1. snapshot' = [age |-> load.age, callable |-> load.callable,
                         reachable |-> load.callable # {}, error |-> FALSE]
        BY <2>1 DEF EndLoad
      <3>2. load.age \in Nat /\ load.age <= LoadTimeout /\ load.callable \in SUBSET Listings
        BY <1>1, MarketNumbers DEF LoadShape
      <3>3. snapshot' \in SnapshotShape  BY <3>1, <3>2 DEF SnapshotShape
      <3>4. snapshot'.age = load.age /\ snapshot'.callable = load.callable  BY <3>1
      <3>5. HeardWithin(snapshot)'
        BY <1>2, <3>4 DEF MarketInv, HeardWithin
      <3> QED  BY <3>2, <3>3, <3>4, <3>5
    <2>2. CASE FailLoad
      <3>1. snapshot' \in [age : {snapshot.age}, callable : {snapshot.callable}, reachable : {FALSE}, error : {TRUE}]
        BY <1>1, <2>2 DEF FailLoad, Kept, SnapshotShape
      <3> QED  BY <1>1, <3>1 DEF SnapshotShape
    <2> QED  BY <2>1, <2>2
  <1>5. HeardWithin(load)'
    BY <1>2, <1>3 DEF HeardWithin
  <1>6. ~snapshot'.error /\ valid' > 0 => snapshot'.age + valid' <= LoadTimeout + Ttl
    BY <1>2, <1>4, MarketNumbers DEF SnapshotShape
  <1> QED  BY <1>2, <1>3, <1>4, <1>5, <1>6, MarketNumbers DEF MarketInv

LEMMA MarketGoesOn ==
  ASSUME MarketInv, [MarketNext]_marketVars
  PROVE  MarketInv'
  <1>1. CASE AskIndex
    <2>1. load \in LoadShape  BY DEF MarketInv
    <2>2. load' \in [stage : {"indexed"}, age : {load.age}, open : {load.open}, callable : {load.callable}]
      BY <1>1, <2>1 DEF AskIndex, LoadShape
    <2>3. load' \in LoadShape /\ load'.stage = "indexed" /\ load'.age = load.age /\ load'.callable = load.callable
      BY <2>1, <2>2 DEF LoadShape
    <2>4. HeardWithin(load)'  BY <1>1, <2>3 DEF AskIndex, MarketInv, HeardWithin
    <2>5. serves' = serves /\ snapshot' = snapshot /\ valid' = valid /\ heard' = heard
      BY <1>1 DEF AskIndex
    <2> QED  BY <2>3, <2>4, <2>5 DEF MarketInv, HeardWithin
  <1>2. ASSUME NEW r \in Readers, Lookup(r)  PROVE MarketInv'
    <2>1. serves' = serves /\ snapshot' = snapshot /\ valid' = valid /\ heard' = heard
      BY <1>2 DEF Lookup
    <2>2. load' = load \/ load' = StartedLoad
      BY <1>2 DEF Lookup
    <2>3. StartedLoad \in LoadShape /\ StartedLoad.stage # "none" /\ StartedLoad.callable = {}
      BY MarketNumbers DEF StartedLoad, LoadShape
    <2>4. load' \in LoadShape /\ (load'.stage = "none" => load' = NoLoad) /\ HeardWithin(load)'
      BY <2>1, <2>2, <2>3 DEF MarketInv, HeardWithin
    <2> QED  BY <2>1, <2>4 DEF MarketInv, HeardWithin
  <1>3. ASSUME NEW l \in Listings, Turn(l) \/ Hold(l)  PROVE MarketInv'
    <2>1. /\ load' = load /\ snapshot' = snapshot /\ valid' = valid /\ heard' = heard
          /\ serves' \subseteq Listings
      BY <1>3 DEF Turn, Hold, MarketInv
    <2> QED  BY <2>1 DEF MarketInv, HeardWithin
  <1>4. CASE UNCHANGED marketVars
    BY <1>4 DEF marketVars, MarketInv, HeardWithin
  <1> QED  BY <1>1, <1>2, <1>3, <1>4, LoadEnds, MarketTicks, MarketProbes DEF MarketNext

\* What a page offers was heard within the age of its snapshot, unless it offers nothing.
LEMMA PageOffers ==
  ASSUME NEW s
  PROVE  /\ PageOf(s).offers \subseteq s.callable
         /\ s.error => PageOf(s).offers = {}
  BY DEF PageOf, CallableNow

LEMMA OffersHeard ==
  ASSUME MarketInv, PagesOK, MarketNext, NEW r \in Readers, reader'[r] # reader[r], NEW l \in reader'[r].offers
  PROVE  heard[l] <= LoadTimeout + Ttl
  <1>1. load \in LoadShape /\ snapshot \in SnapshotShape /\ valid \in 0 .. Ttl /\ heard \in [Listings -> 0 .. Longest]
    BY DEF MarketInv
  <1>2. CASE EndLoad
    <2> DEFINE s == [age |-> load.age, callable |-> load.callable, reachable |-> load.callable # {}, error |-> FALSE]
    <2>1. reader'[r] = PageOf(s)
      BY <1>2 DEF EndLoad, Handed
    <2>2. s.callable = load.callable  OBVIOUS
    <2> HIDE DEF s
    <2>3. l \in load.callable  BY <2>1, <2>2, PageOffers
    <2>4. heard[l] <= load.age  BY <2>3 DEF MarketInv, HeardWithin
    <2>5. load.age \in 0 .. LoadTimeout /\ l \in Listings  BY <1>1, <2>3 DEF LoadShape
    <2> QED  BY <1>1, <2>4, <2>5, MarketNumbers
  <1>3. CASE FailLoad
    <2>1. reader'[r] = PageOf(Kept)
      BY <1>3 DEF FailLoad, Handed
    <2>2. Kept.error
      BY <1>1 DEF Kept, SnapshotShape
    <2> QED  BY <2>1, <2>2, PageOffers
  <1>4. ASSUME NEW q \in Readers, Lookup(q)  PROVE heard[l] <= LoadTimeout + Ttl
    <2>1. CASE valid > 0
      <3>1. q = r /\ reader'[r] = PageOf(snapshot)
        BY <1>4, <2>1 DEF Lookup, PagesOK
      <3>2. l \in snapshot.callable /\ ~snapshot.error
        BY <3>1, PageOffers
      <3>3. heard[l] <= snapshot.age  BY <3>2 DEF MarketInv, HeardWithin
      <3>4. snapshot.age + valid <= LoadTimeout + Ttl  BY <2>1, <3>2 DEF MarketInv
      <3>5. snapshot.age \in Nat /\ l \in Listings  BY <1>1, <3>2 DEF SnapshotShape
      <3> QED  BY <1>1, <3>3, <3>4, <3>5, MarketNumbers
    <2>2. CASE ~(valid > 0)
      <3>1. q = r /\ reader'[r] = [NoPage EXCEPT !.stage = "waits"]
        BY <1>4, <2>2 DEF Lookup, PagesOK
      <3> QED  BY <3>1 DEF NoPage
    <2> QED  BY <2>1, <2>2
  <1>5. ~AskIndex /\ ~MarketTick /\ (\A e \in Endpoints : ~Probe(e)) /\ (\A m \in Listings : ~Turn(m) /\ ~Hold(m))
    BY DEF AskIndex, MarketTick, Probe, Turn, Hold
  <1> QED  BY <1>2, <1>3, <1>4, <1>5 DEF MarketNext

\* A page offers a hire only of a provider that answered in the last LoadTimeout + Ttl
\* (project_market, SnapshotCache.get), whoever waits for whose load and however loads end.
THEOREM OffersAreHeard == MarketSpec => OffersWereHeard
  <1>1. MarketInit => MarketInv
    BY MarketNumbers DEF MarketInit, MarketInv, NoLoad, EmptySnapshot, LoadShape, SnapshotShape, HeardWithin
  <1>2. MarketInit => PagesOK
    BY DEF MarketInit, PagesOK
  <1>3. PagesOK /\ [MarketNext]_marketVars => PagesOK'
    BY DEF PagesOK, MarketNext, marketVars, AskIndex, EndLoad, FailLoad, Handed, MarketTick, Probe, Lookup, Turn, Hold
  <1>4. MarketInv /\ PagesOK /\ [MarketNext]_marketVars =>
          /\ MarketInv'
          /\ [\A r \in Readers : reader'[r] # reader[r] =>
                \A l \in reader'[r].offers : heard[l] <= LoadTimeout + Ttl]_marketVars
    BY MarketGoesOn, OffersHeard
  <1> QED  BY <1>1, <1>2, <1>3, <1>4, PTL DEF MarketSpec, OffersWereHeard

-----------------------------------------------------------------------------
(* PluginHarness *)

\* A set of numbers that is not empty has a least member.
LEMMA LeastOf ==
  ASSUME NEW T, T \subseteq Nat, T # {}
  PROVE  \E m \in T : \A n \in T : m <= n
  <1> DEFINE R == {ss \in Nat \X Nat : ss[1] < ss[2]}
  <1>1. IsWellFoundedOn(R, Nat)  BY NatLessThanWellFounded DEF OpToRel
  <1>2. PICK m \in T : \A n \in T : ~(<<n, m>> \in R)
    <2> HIDE DEF R
    <2> QED  BY <1>1, WFMin
  <1>3. ASSUME NEW n \in T  PROVE m <= n
    <2>1. n \in Nat /\ m \in Nat /\ <<n, m>> \in Nat \X Nat  OBVIOUS
    <2>2. <<n, m>> \in R <=> n < m  BY <2>1
    <2>3. ~(n < m)  BY <1>2, <2>2
    <2> QED  BY <2>1, <2>3
  <1> QED  BY <1>3

PlacedUpTo(f, n) == f = [i \in 0 .. n |-> IF i = 0 THEN <<>> ELSE PlaceOne(f[i - 1])]

LEMMA PlacedDefined ==
  ASSUME NEW n \in Nat  PROVE \E f : PlacedUpTo(f, n)
  <1> DEFINE T == {k \in Nat : ~\E f : PlacedUpTo(f, k)}
  <1>1. CASE T = {}  BY <1>1
  <1>2. CASE T # {}
    <2>1. PICK k \in T : \A j \in T : k <= j  BY <1>2, LeastOf
    <2>2. CASE k = 0
      <3>1. PlacedUpTo([i \in 0 .. 0 |-> <<>>], 0)  BY DEF PlacedUpTo
      <3> QED  BY <2>1, <2>2, <3>1
    <2>3. CASE k # 0
      <3>1. k \in Nat /\ k - 1 \in Nat /\ k - 1 \notin T  BY <2>1, <2>3
      <3>2. PICK f : PlacedUpTo(f, k - 1)  BY <3>1
      <3> DEFINE g == [i \in 0 .. k |-> IF i = k THEN PlaceOne(f[k - 1]) ELSE f[i]]
      <3>3. \A i \in 0 .. k : g[i] = IF i = 0 THEN <<>> ELSE PlaceOne(g[i - 1])
        <4> SUFFICES ASSUME NEW i \in 0 .. k
                     PROVE  g[i] = IF i = 0 THEN <<>> ELSE PlaceOne(g[i - 1])
          OBVIOUS
        <4>1. i # 0 => i - 1 \in 0 .. k - 1 /\ i - 1 # k /\ i - 1 \in 0 .. k  BY <3>1
        <4>2. i # 0 => g[i - 1] = f[i - 1]  BY <4>1
        <4>3. CASE i = k  BY <2>3, <4>2, <4>3
        <4>4. CASE i # k
          <5>1. i \in 0 .. k - 1 /\ g[i] = f[i]  BY <3>1, <4>4
          <5>2. f[i] = IF i = 0 THEN <<>> ELSE PlaceOne(f[i - 1])  BY <3>2, <5>1 DEF PlacedUpTo
          <5> QED  BY <4>2, <5>1, <5>2
        <4> QED  BY <4>3, <4>4
      <3>4. g = [i \in 0 .. k |-> g[i]]  OBVIOUS
      <3> HIDE DEF g
      <3>5. PlacedUpTo(g, k)  BY <3>3, <3>4 DEF PlacedUpTo
      <3> QED  BY <2>1, <3>5
    <2> QED  BY <2>2, <2>3
  <1> QED  BY <1>1, <1>2

LEMMA PlacedOneByOne ==
  /\ Placed[0] = <<>>
  /\ \A n \in 1 .. Cardinality(Plugins) : Placed[n] = PlaceOne(Placed[n - 1])
  <1> DEFINE N == Cardinality(Plugins)
  <1>1. N \in Nat  BY HarnessConstantsOK, FS_CardinalityType DEF HarnessConstantsOK
  <1>2. Placed = CHOOSE f : PlacedUpTo(f, N)  BY DEF Placed, PlacedUpTo
  <1> HIDE DEF N
  <1>3. PlacedUpTo(Placed, N)  BY <1>1, <1>2, PlacedDefined
  <1>4. \A n \in 0 .. N : Placed[n] = IF n = 0 THEN <<>> ELSE PlaceOne(Placed[n - 1])
    BY <1>3 DEF PlacedUpTo
  <1>5. 0 \in 0 .. N /\ \A n \in 1 .. N : n \in 0 .. N /\ n # 0  BY <1>1
  <1> QED  BY <1>4, <1>5 DEF N

-----------------------------------------------------------------------------
(* PluginHarness: the order of the plugins (_ordered_ids).  What is placed  *)
(* is placed once and behind all it depends on, and the placing only stops  *)
(* when no plugin is ready.                                                 *)

InOrder(s) ==
  /\ s \in Seq(Plugins)
  /\ \A i, k \in 1 .. Len(s) : s[i] = s[k] => i = k
  /\ \A i \in 1 .. Len(s) : \A q \in Deps(s[i]) : \E k \in 1 .. i - 1 : s[k] = q

LEMMA Listed == ASSUME NEW s \in Seq(Plugins)  PROVE ListedIn(s) = {s[i] : i \in 1 .. Len(s)}
  BY DEF ListedIn

LEMMA LeastReady ==
  ASSUME NEW T, T \subseteq Plugins, T # {}
  PROVE  \E p \in T : \A q \in T : p <= q
  <1>1. T \subseteq Nat  BY HarnessConstantsOK DEF HarnessConstantsOK
  <1> QED  BY <1>1, LeastOf

LEMMA PlaceInOrder ==
  ASSUME NEW s, InOrder(s), Ready(s) # {}
  PROVE  InOrder(PlaceOne(s)) /\ Len(PlaceOne(s)) = Len(s) + 1
  <1> DEFINE p == CHOOSE p \in Ready(s) : \A q \in Ready(s) : p <= q
  <1>1. p \in Ready(s)
    <2>1. Ready(s) \subseteq Plugins  BY DEF Ready
    <2> QED  BY <2>1, LeastReady
  <1>2. PlaceOne(s) = Append(s, p)  BY DEF PlaceOne
  <1> HIDE DEF p
  <1>3. s \in Seq(Plugins) /\ Len(s) \in Nat  BY DEF InOrder
  <1>4. p \in Plugins /\ p \notin ListedIn(s) /\ Deps(p) \subseteq ListedIn(s)  BY <1>1 DEF Ready
  <1>5. \A i \in 1 .. Len(s) : s[i] # p  BY <1>3, <1>4, Listed
  <1>6. \A q \in Deps(p) : \E k \in 1 .. Len(s) : s[k] = q  BY <1>3, <1>4, Listed
  <1> DEFINE t == Append(s, p)
  <1>7. /\ t \in Seq(Plugins) /\ Len(t) = Len(s) + 1 /\ t[Len(s) + 1] = p
        /\ \A i \in 1 .. Len(s) : t[i] = s[i]
    BY <1>3, <1>4
  <1> HIDE DEF t
  <1>8. ASSUME NEW i \in 1 .. Len(t), NEW k \in 1 .. Len(t), t[i] = t[k]  PROVE i = k
    BY <1>3, <1>5, <1>7, <1>8 DEF InOrder
  <1>9. ASSUME NEW i \in 1 .. Len(t), NEW q \in Deps(t[i])  PROVE \E k \in 1 .. i - 1 : t[k] = q
    <2>1. CASE i = Len(s) + 1
      <3>1. PICK k \in 1 .. Len(s) : s[k] = q  BY <1>6, <1>7, <1>9, <2>1
      <3>2. k \in 1 .. i - 1 /\ t[k] = q  BY <1>3, <1>7, <2>1, <3>1
      <3> QED  BY <3>2
    <2>2. CASE i # Len(s) + 1
      <3>1. i \in 1 .. Len(s) /\ t[i] = s[i]  BY <1>3, <1>7, <2>2
      <3>2. PICK k \in 1 .. i - 1 : s[k] = q  BY <1>9, <3>1 DEF InOrder
      <3>3. k \in 1 .. Len(s)  BY <1>3, <3>1
      <3> QED  BY <1>7, <3>2, <3>3
    <2> QED  BY <2>1, <2>2
  <1>10. InOrder(t)  BY <1>7, <1>8, <1>9 DEF InOrder
  <1> QED  BY <1>2, <1>7, <1>10 DEF t

PlacedSoFar(n) == InOrder(Placed[n]) /\ (Len(Placed[n]) = n \/ Ready(Placed[n]) = {})

LEMMA PluginsCounted == Cardinality(Plugins) \in Nat /\ IsFiniteSet(Plugins)
  BY HarnessConstantsOK, FS_CardinalityType DEF HarnessConstantsOK

LEMMA PlacedInOrder == \A n \in 0 .. Cardinality(Plugins) : PlacedSoFar(n)
  <1> DEFINE N == Cardinality(Plugins)
             T == {n \in 0 .. N : ~PlacedSoFar(n)}
  <1>1. N \in Nat  BY PluginsCounted
  <1>2. CASE T = {}  BY <1>2
  <1>3. CASE T # {}
    <2>1. T \subseteq Nat  BY <1>1
    <2>2. PICK n \in T : \A k \in T : n <= k
      <3> HIDE DEF T
      <3> QED  BY <1>3, <2>1, LeastOf
    <2>3. n \in 0 .. N /\ ~PlacedSoFar(n)  OBVIOUS
    <2>4. CASE n = 0
      <3>1. <<>> \in Seq(Plugins) /\ Len(<<>>) = 0  OBVIOUS
      <3>2. InOrder(<<>>)  BY <3>1 DEF InOrder
      <3>3. Placed[0] = <<>>  BY PlacedOneByOne
      <3> QED  BY <2>3, <2>4, <3>1, <3>2, <3>3 DEF PlacedSoFar
    <2>5. CASE n # 0
      <3>1. n \in 1 .. N /\ n - 1 \in 0 .. N /\ ~(n <= n - 1)  BY <1>1, <2>3, <2>5
      <3>2. PlacedSoFar(n - 1)  BY <2>2, <3>1
      <3> DEFINE s == Placed[n - 1]
      <3>3. Placed[n] = PlaceOne(s)  BY <3>1, PlacedOneByOne
      <3>4. InOrder(s) /\ (Len(s) = n - 1 \/ Ready(s) = {})  BY <3>2 DEF PlacedSoFar
      <3> HIDE DEF s
      <3>5. CASE Ready(s) = {}
        <4>1. PlaceOne(s) = s  BY <3>5 DEF PlaceOne
        <4> QED  BY <2>3, <3>3, <3>4, <3>5, <4>1 DEF PlacedSoFar
      <3>6. CASE Ready(s) # {}
        <4>1. InOrder(PlaceOne(s)) /\ Len(PlaceOne(s)) = Len(s) + 1  BY <3>4, <3>6, PlaceInOrder
        <4>2. Len(PlaceOne(s)) = n  BY <3>1, <3>4, <3>6, <4>1
        <4> QED  BY <2>3, <3>3, <4>1, <4>2 DEF PlacedSoFar
      <3> QED  BY <3>5, <3>6
    <2> QED  BY <2>4, <2>5
  <1> QED  BY <1>2, <1>3

\* All are placed if and only if the plugins can be ranked along their dependencies.
Ranked(rank) == \A p \in Plugins : \A q \in Deps(p) : rank[q] < rank[p]

LEMMA DepsArePlugins == \A p : Deps(p) \subseteq Plugins
  BY DEF Deps, Owners

LEMMA PlacedAll ==
  /\ OrderedIds \in Seq(Plugins)
  /\ ListedIn(OrderedIds) = Plugins <=>
       \E rank \in [Plugins -> 1 .. Cardinality(Plugins)] : Ranked(rank)
  <1> DEFINE N == Cardinality(Plugins)
             s == OrderedIds
  <1>1. N \in Nat /\ IsFiniteSet(Plugins)  BY PluginsCounted
  <1>2. InOrder(s) /\ (Len(s) = N \/ Ready(s) = {})
    BY <1>1, PlacedInOrder DEF OrderedIds, PlacedSoFar
  <1> HIDE DEF s
  <1>3. s \in Seq(Plugins) /\ Len(s) \in Nat  BY <1>2 DEF InOrder
  <1>4. ListedIn(s) = {s[i] : i \in 1 .. Len(s)}  BY <1>3, Listed
  <1>5. ListedIn(s) \subseteq Plugins  BY <1>3, <1>4
  <1>6. IsFiniteSet(1 .. Len(s)) /\ Cardinality(1 .. Len(s)) = Len(s)
    <2>1. 1 \in Int /\ Len(s) \in Int /\ (1 > Len(s) => Len(s) = 0) /\ Len(s) - 1 + 1 = Len(s)  BY <1>3
    <2> QED  BY <2>1, FS_Interval
  <1>7. s \in Injection(1 .. Len(s), Plugins)
    BY <1>2, <1>3 DEF InOrder, Injection, IsInjective
  <1>8. ASSUME Len(s) = N  PROVE ListedIn(s) = Plugins
    <2>1. s \in Surjection(1 .. Len(s), Plugins)  BY <1>1, <1>6, <1>7, <1>8, FS_Injection
    <2> QED  BY <1>4, <1>5, <2>1 DEF Surjection
  <1>9. Len(s) <= N  BY <1>1, <1>6, <1>7, FS_Injection
  <1>10. ASSUME ListedIn(s) = Plugins
         PROVE  \E rank \in [Plugins -> 1 .. N] : Ranked(rank)
    <2> DEFINE rank == [p \in Plugins |-> CHOOSE i \in 1 .. Len(s) : s[i] = p]
    <2>1. ASSUME NEW p \in Plugins  PROVE rank[p] \in 1 .. Len(s) /\ s[rank[p]] = p
      <3>1. \E i \in 1 .. Len(s) : s[i] = p  BY <1>4, <1>10
      <3> QED  BY <3>1
    <2> HIDE DEF rank
    <2>2. ASSUME NEW p \in Plugins, NEW q \in Deps(p)  PROVE rank[q] < rank[p]
      <3>1. q \in Plugins  BY DepsArePlugins
      <3>2. PICK k \in 1 .. rank[p] - 1 : s[k] = q  BY <1>2, <2>1, <2>2 DEF InOrder
      <3>3. k \in 1 .. Len(s)  BY <1>3, <2>1, <3>2
      <3>4. rank[q] = k  BY <1>2, <2>1, <3>1, <3>2, <3>3 DEF InOrder
      <3> QED  BY <2>1, <3>2, <3>4
    <2>3. rank \in [Plugins -> 1 .. N]
      <3>1. \A p \in Plugins : rank[p] \in 1 .. N  BY <1>1, <1>3, <1>9, <2>1
      <3>2. rank = [p \in Plugins |-> rank[p]]  BY DEF rank
      <3> QED  BY <3>1, <3>2
    <2> QED  BY <2>2, <2>3 DEF Ranked
  <1>11. ASSUME NEW rank \in [Plugins -> 1 .. N], Ranked(rank)  PROVE ListedIn(s) = Plugins
    <2> SUFFICES ASSUME ListedIn(s) # Plugins  PROVE FALSE  OBVIOUS
    <2>1. Ready(s) = {}  BY <1>2, <1>8
    <2> DEFINE left == Plugins \ ListedIn(s)
               ranks == {rank[p] : p \in left}
    <2>2. ranks \subseteq Nat /\ ranks # {}  BY <1>5
    <2>3. PICK m \in ranks : \A n \in ranks : m <= n
      <3> HIDE DEF ranks
      <3> QED  BY <2>2, LeastOf
    <2>4. PICK p \in left : m = rank[p]  OBVIOUS
    <2>5. \A q \in left : rank[q] \in ranks /\ rank[p] \in Nat /\ rank[q] \in Nat  OBVIOUS
    <2>6. \A q \in left : ~(rank[q] < rank[p])
      <3> HIDE DEF ranks, left
      <3> QED  BY <2>3, <2>4, <2>5
    <2>7. Deps(p) \subseteq ListedIn(s)
      BY <1>11, <2>6, DepsArePlugins DEF Ranked
    <2>8. p \in Ready(s)  BY <2>7 DEF Ready
    <2> QED  BY <2>1, <2>8
  <1> QED  BY <1>3, <1>10, <1>11 DEF s

-----------------------------------------------------------------------------
(* PluginHarness: plugins that start and stop.  Behind each plugin in       *)
(* _started_order stand all started plugins that use it; backwards, they    *)
(* stand in front of it, and are stopped before it is.                      *)

On(h) == {p \in Plugins : h[p] = "started"}
Uses(req, prov, q, p) == req[q] \intersect prov[p] # {}
UsersBehind(s, on, req, prov) ==
  \A i \in 1 .. Len(s) : \A q \in on :
    Uses(req, prov, q, s[i]) => \E k \in 1 .. Len(s) : k > i /\ s[k] = q
UsersInFront(s, on, req, prov) ==
  \A i \in 1 .. Len(s) : \A q \in on :
    Uses(req, prov, q, s[i]) => \E k \in 1 .. Len(s) : k < i /\ s[k] = q
AllListed(s, on) == \A q \in on : \E i \in 1 .. Len(s) : s[i] = q

LEMMA AppendKeeps ==
  ASSUME NEW s \in Seq(Plugins), NEW on, NEW req, NEW prov, UsersBehind(s, on, req, prov), AllListed(s, on),
         NEW p \in Plugins, NEW next, next = Append(s, p), NEW more, more \subseteq on \union {p},
         \A q \in more : ~Uses(req, prov, q, p)
  PROVE  next \in Seq(Plugins) /\ UsersBehind(next, more, req, prov) /\ AllListed(next, more)
  <1>1. /\ Len(s) \in Nat /\ next \in Seq(Plugins) /\ Len(next) = Len(s) + 1 /\ next[Len(s) + 1] = p
        /\ \A i \in 1 .. Len(s) : next[i] = s[i]
    OBVIOUS
  <1>2. ASSUME NEW i \in 1 .. Len(next), NEW q \in more, Uses(req, prov, q, next[i])
        PROVE  \E k \in 1 .. Len(next) : k > i /\ next[k] = q
    <2>1. i # Len(s) + 1  BY <1>1, <1>2
    <2>2. i \in 1 .. Len(s) /\ next[i] = s[i]  BY <1>1, <2>1
    <2>3. CASE q = p
      <3>1. Len(s) + 1 \in 1 .. Len(next) /\ Len(s) + 1 > i  BY <1>1, <2>2
      <3> QED  BY <1>1, <2>3, <3>1
    <2>4. CASE q # p
      <3>1. q \in on  BY <2>4
      <3>2. PICK k \in 1 .. Len(s) : k > i /\ s[k] = q  BY <1>2, <2>2, <3>1 DEF UsersBehind
      <3>3. k \in 1 .. Len(next) /\ next[k] = q  BY <1>1, <3>2
      <3> QED  BY <3>2, <3>3
    <2> QED  BY <2>3, <2>4
  <1>3. ASSUME NEW q \in more  PROVE \E i \in 1 .. Len(next) : next[i] = q
    <2>1. CASE q = p
      <3>1. Len(s) + 1 \in 1 .. Len(next)  BY <1>1
      <3> QED  BY <1>1, <2>1, <3>1
    <2>2. CASE q # p
      <3>1. PICK i \in 1 .. Len(s) : s[i] = q  BY <2>2 DEF AllListed
      <3>2. i \in 1 .. Len(next) /\ next[i] = q  BY <1>1, <3>1
      <3> QED  BY <3>2
    <2> QED  BY <2>1, <2>2
  <1> QED  BY <1>1, <1>2, <1>3 DEF UsersBehind, AllListed

\* Taking an element out of a sequence: where the others go.
LEMMA TakenOut ==
  ASSUME NEW s \in Seq(Plugins), NEW m \in 1 .. Len(s),
         NEW next, next = SubSeq(s, 1, m - 1) \o SubSeq(s, m + 1, Len(s))
  PROVE  /\ next \in Seq(Plugins) /\ Len(next) = Len(s) - 1
         /\ \A i \in 1 .. Len(s) - 1 : next[i] = IF i < m THEN s[i] ELSE s[i + 1]
  <1> DEFINE a == SubSeq(s, 1, m - 1)
             b == SubSeq(s, m + 1, Len(s))
  <1>1. Len(s) \in Nat /\ m \in Nat /\ 1 <= m /\ m <= Len(s)  OBVIOUS
  <1>2. a \in Seq(Plugins) /\ Len(a) = m - 1 /\ \A i \in 1 .. m - 1 : a[i] = s[i]
    <2>1. Len(a) = m - 1  BY <1>1
    <2>2. ASSUME NEW i \in 1 .. m - 1  PROVE a[i] = s[i] /\ s[i] \in Plugins
      <3>1. i \in 1 .. Len(s) /\ 1 + (i - 1) = i  BY <1>1
      <3> QED  BY <1>1, <3>1
    <2>3. a \in Seq(Plugins)  BY <1>1, <2>1, <2>2
    <2> QED  BY <2>1, <2>2, <2>3
  <1>3. b \in Seq(Plugins) /\ Len(b) = Len(s) - m /\ \A i \in 1 .. Len(s) - m : b[i] = s[m + i]
    <2>1. Len(b) = Len(s) - m  BY <1>1
    <2>2. ASSUME NEW i \in 1 .. Len(s) - m  PROVE b[i] = s[m + i] /\ s[m + i] \in Plugins
      <3>1. m + i \in 1 .. Len(s) /\ (m + 1) + (i - 1) = m + i  BY <1>1
      <3> QED  BY <1>1, <3>1
    <2>3. b \in Seq(Plugins)  BY <1>1, <2>1, <2>2
    <2> QED  BY <2>1, <2>2, <2>3
  <1>4. next = a \o b  OBVIOUS
  <1> HIDE DEF a, b
  <1>5. /\ next \in Seq(Plugins) /\ Len(next) = Len(a) + Len(b)
        /\ \A i \in 1 .. Len(a) + Len(b) : next[i] = IF i <= Len(a) THEN a[i] ELSE b[i - Len(a)]
    <2>1. a \in Seq(Plugins) /\ b \in Seq(Plugins)  BY <1>2, <1>3
    <2>2. /\ a \o b \in Seq(Plugins) /\ Len(a \o b) = Len(a) + Len(b)
          /\ \A i \in 1 .. Len(a) + Len(b) : (a \o b)[i] = IF i <= Len(a) THEN a[i] ELSE b[i - Len(a)]
      BY <2>1, ConcatProperties, Zenon
    <2> QED  BY <1>4, <2>2
  <1>6. Len(a) + Len(b) = Len(s) - 1  BY <1>1, <1>2, <1>3
  <1>7. ASSUME NEW i \in 1 .. Len(s) - 1  PROVE next[i] = IF i < m THEN s[i] ELSE s[i + 1]
    <2>1. next[i] = IF i <= Len(a) THEN a[i] ELSE b[i - Len(a)]  BY <1>5, <1>6
    <2>2. CASE i < m
      <3>1. i \in 1 .. m - 1 /\ i <= Len(a)  BY <1>1, <1>2, <2>2
      <3> QED  BY <1>2, <2>1, <2>2, <3>1
    <2>3. CASE ~(i < m)
      <3>1. i - Len(a) \in 1 .. Len(s) - m /\ ~(i <= Len(a)) /\ m + (i - Len(a)) = i + 1
        BY <1>1, <1>2, <2>3
      <3> QED  BY <1>3, <2>1, <2>3, <3>1
    <2> QED  BY <2>2, <2>3
  <1> QED  BY <1>5, <1>6, <1>7

LEMMA WithoutOne ==
  ASSUME NEW s \in Seq(Plugins), NEW p, \E i \in 1 .. Len(s) : s[i] = p
  PROVE  \E m \in 1 .. Len(s) :
           s[m] = p /\ Without(s, p) = SubSeq(s, 1, m - 1) \o SubSeq(s, m + 1, Len(s))
  <1> DEFINE T == {i \in 1 .. Len(s) : s[i] = p}
  <1>1. T \subseteq Nat /\ T # {} /\ DOMAIN s = 1 .. Len(s) /\ Len(s) \in Nat  OBVIOUS
  <1>2. PICK m \in T : \A i \in T : m <= i
    <2> HIDE DEF T
    <2> QED  BY <1>1, LeastOf
  <1>3. \A k \in 1 .. m - 1 : s[k] # p
    <2> SUFFICES ASSUME NEW k \in 1 .. m - 1, s[k] = p  PROVE FALSE  OBVIOUS
    <2>1. k \in 1 .. Len(s) /\ ~(m <= k)  BY <1>1
    <2> QED  BY <1>2, <2>1
  <1>4. \E i \in DOMAIN s : s[i] = p /\ \A k \in 1 .. i - 1 : s[k] # p  BY <1>1, <1>3
  <1> DEFINE i == CHOOSE i \in DOMAIN s : s[i] = p /\ \A k \in 1 .. i - 1 : s[k] # p
  <1>5. i \in 1 .. Len(s) /\ s[i] = p  BY <1>1, <1>4
  <1>6. Without(s, p) = SubSeq(s, 1, i - 1) \o SubSeq(s, i + 1, Len(s))  BY DEF Without
  <1> HIDE DEF i
  <1> QED  BY <1>5, <1>6

LEMMA WithoutKeeps ==
  ASSUME NEW s \in Seq(Plugins), NEW on, NEW req, NEW prov, UsersBehind(s, on, req, prov), AllListed(s, on),
         NEW p \in on, NEW next, next = Without(s, p), NEW rest, rest \subseteq on \ {p}
  PROVE  next \in Seq(Plugins) /\ UsersBehind(next, rest, req, prov) /\ AllListed(next, rest)
  <1>1. \E i \in 1 .. Len(s) : s[i] = p  BY DEF AllListed
  <1>2. PICK m \in 1 .. Len(s) :
          s[m] = p /\ next = SubSeq(s, 1, m - 1) \o SubSeq(s, m + 1, Len(s))
    BY <1>1, WithoutOne
  <1>3. /\ next \in Seq(Plugins) /\ Len(next) = Len(s) - 1
        /\ \A i \in 1 .. Len(s) - 1 : next[i] = IF i < m THEN s[i] ELSE s[i + 1]
    BY <1>2, TakenOut
  <1>4. Len(s) \in Nat  OBVIOUS
  <1> DEFINE Old(i) == IF i < m THEN i ELSE i + 1
  <1>5. \A i \in 1 .. Len(next) : Old(i) \in 1 .. Len(s) /\ Old(i) # m /\ next[i] = s[Old(i)]
    BY <1>3, <1>4
  <1>6. ASSUME NEW k \in 1 .. Len(s), k # m
        PROVE  \E i \in 1 .. Len(next) : Old(i) = k
    <2>1. CASE k < m
      <3>1. k \in 1 .. Len(next) /\ Old(k) = k  BY <1>3, <1>4, <2>1
      <3> QED  BY <3>1
    <2>2. CASE ~(k < m)
      <3>1. k - 1 \in 1 .. Len(next) /\ Old(k - 1) = k  BY <1>3, <1>4, <1>6, <2>2
      <3> QED  BY <3>1
    <2> QED  BY <2>1, <2>2
  <1>7. \A i, j \in 1 .. Len(next) : Old(i) < Old(j) => i < j
    BY <1>3, <1>4
  <1> HIDE DEF Old
  <1>8. ASSUME NEW i \in 1 .. Len(next), NEW q \in rest, Uses(req, prov, q, next[i])
        PROVE  \E k \in 1 .. Len(next) : k > i /\ next[k] = q
    <2>1. q \in on /\ q # p /\ Uses(req, prov, q, s[Old(i)])  BY <1>5, <1>8
    <2>2. PICK k \in 1 .. Len(s) : k > Old(i) /\ s[k] = q  BY <1>5, <2>1 DEF UsersBehind
    <2>3. k # m  BY <1>2, <2>1, <2>2
    <2>4. PICK j \in 1 .. Len(next) : Old(j) = k  BY <1>6, <2>3
    <2>5. Old(i) < Old(j)  BY <1>5, <2>2, <2>4
    <2>6. i < j /\ next[j] = q  BY <1>5, <1>7, <2>2, <2>4, <2>5
    <2> QED  BY <1>3, <1>4, <2>6
  <1>9. ASSUME NEW q \in rest  PROVE \E i \in 1 .. Len(next) : next[i] = q
    <2>1. PICK k \in 1 .. Len(s) : s[k] = q  BY DEF AllListed
    <2>2. k # m  BY <1>2, <2>1
    <2>3. PICK j \in 1 .. Len(next) : Old(j) = k  BY <1>6, <2>2
    <2> QED  BY <1>5, <2>1, <2>3
  <1> QED  BY <1>3, <1>8, <1>9 DEF UsersBehind, AllListed

LEMMA BackwardsKeeps ==
  ASSUME NEW s \in Seq(Plugins), NEW on, NEW req, NEW prov, UsersBehind(s, on, req, prov), AllListed(s, on),
         NEW rest, rest \subseteq on
  PROVE  /\ Backwards(s) \in Seq(Plugins)
         /\ UsersInFront(Backwards(s), rest, req, prov) /\ AllListed(Backwards(s), rest)
  <1> DEFINE b == Backwards(s)
             n == Len(s)
  <1>1. n \in Nat /\ DOMAIN s = 1 .. n  OBVIOUS
  <1>2. b = [i \in 1 .. n |-> s[n + 1 - i]]  BY <1>1 DEF Backwards
  <1>3. \A i \in 1 .. n : n + 1 - i \in 1 .. n /\ n + 1 - (n + 1 - i) = i  BY <1>1
  <1>4. b \in Seq(Plugins) /\ Len(b) = n /\ \A i \in 1 .. n : b[i] = s[n + 1 - i]
    BY <1>1, <1>2, <1>3
  <1> HIDE DEF b
  <1>5. ASSUME NEW i \in 1 .. n, NEW q \in rest, Uses(req, prov, q, b[i])
        PROVE  \E k \in 1 .. n : k < i /\ b[k] = q
    <2>1. Uses(req, prov, q, s[n + 1 - i]) /\ n + 1 - i \in 1 .. n  BY <1>3, <1>4, <1>5
    <2>2. PICK k \in 1 .. n : k > n + 1 - i /\ s[k] = q  BY <2>1 DEF UsersBehind
    <2>3. n + 1 - k \in 1 .. n /\ n + 1 - k < i /\ b[n + 1 - k] = q
      BY <1>1, <1>3, <1>4, <2>2
    <2> QED  BY <2>3
  <1>6. ASSUME NEW q \in rest  PROVE \E i \in 1 .. n : b[i] = q
    <2>1. PICK k \in 1 .. n : s[k] = q  BY DEF AllListed
    <2>2. n + 1 - k \in 1 .. n /\ b[n + 1 - k] = q  BY <1>3, <1>4, <2>1
    <2> QED  BY <2>2
  <1> QED  BY <1>4, <1>5, <1>6 DEF UsersInFront, AllListed, b

LEMMA TailKeeps ==
  ASSUME NEW s \in Seq(Plugins), s # <<>>, NEW on, NEW req, NEW prov,
         UsersInFront(s, on, req, prov), AllListed(s, on),
         NEW rest, rest \subseteq on \ {Head(s)}
  PROVE  /\ Tail(s) \in Seq(Plugins) /\ Head(s) \in Plugins
         /\ UsersInFront(Tail(s), rest, req, prov) /\ AllListed(Tail(s), rest)
         /\ \A q \in rest : ~Uses(req, prov, q, Head(s))
  <1> DEFINE t == Tail(s)
  <1>1. /\ t \in Seq(Plugins) /\ Head(s) \in Plugins /\ Len(s) \in Nat /\ Len(s) >= 1 /\ s[1] = Head(s)
        /\ Len(t) = Len(s) - 1 /\ \A i \in 1 .. Len(t) : t[i] = s[i + 1]
    OBVIOUS
  <1> HIDE DEF t
  <1>2. ASSUME NEW k \in 1 .. Len(s), k # 1  PROVE k - 1 \in 1 .. Len(t) /\ t[k - 1] = s[k]
    <2>1. k - 1 \in 1 .. Len(t) /\ (k - 1) + 1 = k  BY <1>1, <1>2
    <2> QED  BY <1>1, <2>1
  <1>3. ASSUME NEW i \in 1 .. Len(t), NEW q \in rest, Uses(req, prov, q, t[i])
        PROVE  \E k \in 1 .. Len(t) : k < i /\ t[k] = q
    <2>1. i + 1 \in 1 .. Len(s) /\ Uses(req, prov, q, s[i + 1])  BY <1>1, <1>3
    <2>2. PICK k \in 1 .. Len(s) : k < i + 1 /\ s[k] = q  BY <2>1 DEF UsersInFront
    <2>3. k # 1  BY <1>1, <2>2
    <2>4. k - 1 < i  BY <1>1, <2>2
    <2> QED  BY <1>2, <2>2, <2>3, <2>4
  <1>4. ASSUME NEW q \in rest  PROVE \E i \in 1 .. Len(t) : t[i] = q
    <2>1. PICK k \in 1 .. Len(s) : s[k] = q  BY DEF AllListed
    <2>2. k # 1  BY <1>1, <2>1
    <2> QED  BY <1>2, <2>1, <2>2
  <1>5. ASSUME NEW q \in rest, Uses(req, prov, q, Head(s))  PROVE FALSE
    <2>1. 1 \in 1 .. Len(s) /\ Uses(req, prov, q, s[1])  BY <1>1, <1>5
    <2>2. PICK k \in 1 .. Len(s) : k < 1  BY <2>1 DEF UsersInFront
    <2> QED  BY <2>2
  <1> QED  BY <1>1, <1>3, <1>4, <1>5 DEF UsersInFront, AllListed, t

Phase == {"discovered", "loaded", "started", "failed", "stopped", "unloaded"}
Held(h, req, sv) == \A q \in On(h) : req[q] \subseteq sv
\* Without restarts: whatever can be resolved was left by a plugin that still has it.
HeldBySome(h, prov, sv) == \A c \in sv : \E p \in Plugins : c \in prov[p] /\ h[p] \in {"started", "failed"}

HarnessTypes ==
  /\ provides \in [Plugins -> SUBSET Caps] /\ requires \in [Plugins -> SUBSET Caps]
  /\ handle \in [Plugins -> Phase]
  /\ started \in Seq(Plugins) /\ todo \in Seq(Plugins) /\ pluginRestarts \in Nat
StartInv ==
  /\ Held(handle, requires, services)
  /\ UsersBehind(started, On(handle), requires, provides)
  /\ AllListed(started, On(handle))
  /\ harnessPhase \in {"configured", "ordering"} => On(handle) = {} /\ services = {} /\ started = <<>>
StopInv ==
  /\ harnessPhase \in {"stopping", "stopped"} =>
       UsersInFront(todo, On(handle), requires, provides) /\ AllListed(todo, On(handle))
  /\ harnessPhase = "stopped" => todo = <<>>
  /\ harnessPhase = "restarting" => todo # <<>> /\ pluginRestarts > 0
  /\ pluginRestarts = 0 => HeldBySome(handle, provides, services)
HarnessInv == HarnessTypes /\ StartInv /\ StopInv

LEMMA HarnessStarts == HarnessInit => HarnessInv
  <1> SUFFICES ASSUME HarnessInit  PROVE HarnessInv  OBVIOUS
  <1>1. HarnessTypes  BY DEF HarnessInit, HarnessTypes, Phase
  <1>2. On(handle) = {}  BY DEF HarnessInit, On
  <1>3. StartInv  BY <1>2 DEF HarnessInit, StartInv, Held, UsersBehind, AllListed
  <1>4. StopInv  BY DEF HarnessInit, StopInv, HeldBySome
  <1> QED  BY <1>1, <1>3, <1>4 DEF HarnessInv

\* One plugin changes its state: who is started then.
LEMMA OneTurns ==
  ASSUME NEW h \in [Plugins -> Phase], NEW p \in Plugins, NEW x \in Phase, NEW next, next = [h EXCEPT ![p] = x]
  PROVE  /\ next \in [Plugins -> Phase] /\ next[p] = x /\ \A q \in Plugins \ {p} : next[q] = h[q]
         /\ x = "started" => On(next) = On(h) \union {p}
         /\ x # "started" => On(next) = On(h) \ {p}
  <1>1. next \in [Plugins -> Phase] /\ next[p] = x /\ \A q \in Plugins \ {p} : next[q] = h[q]  OBVIOUS
  <1> QED  BY <1>1 DEF On

\* A plugin that starts: nobody started uses it yet.
LEMMA StartOneKeeps ==
  ASSUME HarnessTypes, StartInv, NEW p \in Plugins, StartOne(p)
  PROVE  /\ handle' \in [Plugins -> Phase] /\ started' \in Seq(Plugins) /\ On(handle') = On(handle) \union {p}
         /\ Held(handle', requires, services') /\ UsersBehind(started', On(handle'), requires, provides)
         /\ AllListed(started', On(handle'))
         /\ HeldBySome(handle, provides, services) => HeldBySome(handle', provides, services')
  <1>1. /\ handle' \in [Plugins -> Phase] /\ On(handle') = On(handle) \union {p}
        /\ handle'[p] = "started" /\ \A q \in Plugins \ {p} : handle'[q] = handle[q]
    <2>1. handle' = [handle EXCEPT ![p] = "started"] /\ handle \in [Plugins -> Phase] /\ "started" \in Phase
      BY DEF StartOne, HarnessTypes, Phase
    <2> QED  BY <2>1, OneTurns
  <1>2. /\ requires[p] \subseteq services /\ provides[p] \intersect services = {}
        /\ services' = services \union provides[p] /\ started' = Append(started, p)
    BY DEF StartOne, Provided
  <1>3. Held(handle', requires, services')  BY <1>1, <1>2 DEF StartInv, Held
  <1>4. \A q \in On(handle') : ~Uses(requires, provides, q, p)
    BY <1>1, <1>2 DEF StartInv, Held, Uses
  <1>5. started' \in Seq(Plugins) /\ UsersBehind(started', On(handle'), requires, provides) /\ AllListed(started', On(handle'))
    <2>1. started \in Seq(Plugins) /\ UsersBehind(started, On(handle), requires, provides) /\ AllListed(started, On(handle))
      BY DEF HarnessTypes, StartInv
    <2> QED  BY <1>1, <1>2, <1>4, <2>1, AppendKeeps
  <1>6. HeldBySome(handle, provides, services) => HeldBySome(handle', provides, services')
    BY <1>1, <1>2 DEF HeldBySome
  <1> QED  BY <1>1, <1>3, <1>5, <1>6

\* Fewer are started, more can be resolved.
LEMMA FewerStarted ==
  ASSUME NEW h, NEW next, NEW req, NEW prov, NEW s, NEW sv, NEW more, On(next) \subseteq On(h), sv \subseteq more,
         Held(h, req, sv), UsersBehind(s, On(h), req, prov), AllListed(s, On(h))
  PROVE  Held(next, req, more) /\ UsersBehind(s, On(next), req, prov) /\ AllListed(s, On(next))
  <1>1. Held(next, req, more)  BY DEF Held
  <1>2. UsersBehind(s, On(next), req, prov)
    <2> SUFFICES ASSUME NEW i \in 1 .. Len(s), NEW q \in On(next), Uses(req, prov, q, s[i])
                 PROVE  \E k \in 1 .. Len(s) : k > i /\ s[k] = q
      BY DEF UsersBehind
    <2>1. q \in On(h)  OBVIOUS
    <2> QED  BY <2>1 DEF UsersBehind
  <1>3. AllListed(s, On(next))  BY DEF AllListed
  <1> QED  BY <1>1, <1>2, <1>3

LEMMA FailOneKeeps ==
  ASSUME HarnessTypes, StartInv, NEW p \in Plugins, NEW x \in Phase, x = "started" => handle[p] = "started", FailOne(p, x)
  PROVE  /\ handle' \in [Plugins -> Phase] /\ started' = started /\ On(handle') \subseteq On(handle)
         /\ Held(handle', requires, services') /\ UsersBehind(started', On(handle'), requires, provides)
         /\ AllListed(started', On(handle'))
         /\ x = "failed" /\ HeldBySome(handle, provides, services) => HeldBySome(handle', provides, services')
  <1>1. /\ handle' \in [Plugins -> Phase] /\ On(handle') \subseteq On(handle)
        /\ handle'[p] = x /\ \A q \in Plugins \ {p} : handle'[q] = handle[q]
    <2>1. handle' = [handle EXCEPT ![p] = x] /\ handle \in [Plugins -> Phase]
      BY DEF FailOne, HarnessTypes
    <2>2. handle' \in [Plugins -> Phase] /\ handle'[p] = x /\ \A q \in Plugins \ {p} : handle'[q] = handle[q]
      BY <2>1
    <2>3. On(handle') \subseteq On(handle)
      <3> SUFFICES ASSUME NEW q \in Plugins, handle'[q] = "started"  PROVE handle[q] = "started"  BY DEF On
      <3> QED  BY <2>2
    <2> QED  BY <2>2, <2>3
  <1>2. /\ started' = started /\ services \subseteq services'
        /\ services' = services \/ services' = services \union provides[p]
    BY DEF FailOne, Provided
  <1>3. /\ Held(handle', requires, services') /\ UsersBehind(started, On(handle'), requires, provides)
        /\ AllListed(started, On(handle'))
    BY <1>1, <1>2, FewerStarted DEF StartInv
  <1>4. ASSUME x = "failed", HeldBySome(handle, provides, services)  PROVE HeldBySome(handle', provides, services')
    <2> SUFFICES ASSUME NEW c \in services'
                 PROVE  \E q \in Plugins : c \in provides[q] /\ handle'[q] \in {"started", "failed"}
      BY DEF HeldBySome
    <2>1. CASE c \in services
      <3>1. PICK q \in Plugins : c \in provides[q] /\ handle[q] \in {"started", "failed"}
        BY <1>4, <2>1 DEF HeldBySome
      <3>2. handle'[q] \in {"started", "failed"}  BY <1>1, <1>4, <3>1
      <3> QED  BY <3>1, <3>2
    <2>2. CASE c \notin services
      <3>1. c \in provides[p]  BY <1>2, <2>2
      <3> QED  BY <1>1, <1>4, <3>1
    <2> QED  BY <2>1, <2>2
  <1> QED  BY <1>1, <1>2, <1>3, <1>4

\* A plugin that stops, when nobody started uses it.
LEMMA StopOneKeeps ==
  ASSUME HarnessTypes, StartInv, NEW p \in Plugins, StopOne(p),
         handle[p] = "started" => \A q \in On(handle) \ {p} : ~Uses(requires, provides, q, p)
  PROVE  /\ handle' \in [Plugins -> Phase] /\ started' \in Seq(Plugins) /\ On(handle') = On(handle) \ {p}
         /\ Held(handle', requires, services') /\ UsersBehind(started', On(handle'), requires, provides)
         /\ AllListed(started', On(handle'))
         /\ HeldBySome(handle, provides, services) => HeldBySome(handle', provides, services')
  <1>0. /\ handle \in [Plugins -> Phase] /\ started \in Seq(Plugins)
        /\ UsersBehind(started, On(handle), requires, provides) /\ AllListed(started, On(handle))
    BY DEF HarnessTypes, StartInv
  <1>1. CASE handle[p] # "started"
    <2>1. UNCHANGED <<handle, started, services>>  BY <1>1 DEF StopOne
    <2>2. p \notin On(handle)  BY <1>1 DEF On
    <2>3. Held(handle, requires, services)  BY DEF StartInv
    <2>4. On(handle) = On(handle) \ {p}  BY <2>2
    <2>5. handle' = handle /\ started' = started /\ services' = services  BY <2>1
    <2> QED  BY <1>0, <2>3, <2>4, <2>5
  <1>2. CASE handle[p] = "started"
    <2>1. /\ handle' = [handle EXCEPT ![p] = "unloaded"] /\ started' = Without(started, p)
          /\ services' = services \ provides[p]
      BY <1>2 DEF StopOne
    <2>2. /\ handle' \in [Plugins -> Phase] /\ On(handle') = On(handle) \ {p}
          /\ \A q \in Plugins \ {p} : handle'[q] = handle[q]
      <3>1. "unloaded" \in Phase /\ "unloaded" # "started"  BY DEF Phase
      <3> QED  BY <1>0, <2>1, <3>1, OneTurns
    <2>3. p \in On(handle)  BY <1>2 DEF On
    <2>4. started' \in Seq(Plugins) /\ UsersBehind(started', On(handle'), requires, provides) /\ AllListed(started', On(handle'))
      <3>1. On(handle') \subseteq On(handle) \ {p}  BY <2>2
      <3>2. started' = Without(started, p)  BY <2>1
      <3> QED  BY <1>0, <2>3, <3>1, <3>2, WithoutKeeps
    <2>5. Held(handle', requires, services')
      BY <1>2, <2>1, <2>2 DEF StartInv, Held, Uses
    <2>6. ASSUME HeldBySome(handle, provides, services)  PROVE HeldBySome(handle', provides, services')
      <3> SUFFICES ASSUME NEW c \in services'
                   PROVE  \E q \in Plugins : c \in provides[q] /\ handle'[q] \in {"started", "failed"}
        BY DEF HeldBySome
      <3>1. c \in services /\ c \notin provides[p]  BY <2>1
      <3>2. PICK q \in Plugins : c \in provides[q] /\ handle[q] \in {"started", "failed"}
        BY <2>6, <3>1 DEF HeldBySome
      <3>3. q # p  BY <3>1, <3>2
      <3> QED  BY <2>2, <3>2, <3>3
    <2> QED  BY <2>2, <2>4, <2>5, <2>6
  <1> QED  BY <1>1, <1>2

LEMMA FirstOfTodo ==
  ASSUME NEW s \in Seq(Plugins), s # <<>>
  PROVE  Head(s) \in Plugins /\ Tail(s) \in Seq(Plugins)
  OBVIOUS

\* Stopping begins with everything in reverse order.
LEMMA StopsBackwards ==
  ASSUME HarnessTypes, StartInv
  PROVE  /\ Backwards(started) \in Seq(Plugins)
         /\ UsersInFront(Backwards(started), On(handle), requires, provides)
         /\ AllListed(Backwards(started), On(handle))
  <1>1. /\ started \in Seq(Plugins) /\ UsersBehind(started, On(handle), requires, provides)
        /\ AllListed(started, On(handle))
    BY DEF HarnessTypes, StartInv
  <1> QED  BY <1>1, BackwardsKeeps

\* Every step keeps the invariant.
LEMMA ConfigureKeeps == ASSUME HarnessInv, Configure  PROVE HarnessInv'
  <1> USE DEF HarnessInv
  <1>1. HarnessTypes'
    <2>1. provides' \in [Plugins -> SUBSET Caps]
      <3>1. {{}} \union {{c} : c \in Caps} \subseteq SUBSET Caps  OBVIOUS
      <3> QED  BY <3>1 DEF Configure
    <2> QED  BY <2>1 DEF HarnessTypes, Configure
  <1>2. /\ On(handle) = {} /\ services = {} /\ started = <<>> /\ harnessPhase' = "ordering"
        /\ handle' = handle /\ services' = services /\ started' = started /\ pluginRestarts' = pluginRestarts
    BY DEF Configure, StartInv
  <1>3. StartInv'  BY <1>2 DEF StartInv, Held, UsersBehind, AllListed
  <1>4. StopInv'  BY <1>2 DEF StopInv, HeldBySome
  <1> QED  BY <1>1, <1>3, <1>4

LEMMA StartAllKeeps == ASSUME HarnessInv, StartAll  PROVE HarnessInv'
  <1> USE DEF HarnessInv
  <1>1. /\ provides' = provides /\ requires' = requires /\ handle' = handle /\ services' = services
        /\ started' = started /\ pluginRestarts' = pluginRestarts
        /\ On(handle) = {} /\ services = {} /\ started = <<>>
        /\ harnessPhase' \in {"starting", "stopping"}
        /\ harnessPhase' = "starting" => todo' = OrderedIds
        /\ harnessPhase' = "stopping" => todo' = Backwards(started)
    BY DEF StartAll, StartInv
  <1>2. HarnessTypes'
    <2>1. OrderedIds \in Seq(Plugins)  BY PlacedAll
    <2>2. todo' \in Seq(Plugins)  BY <1>1, <2>1, StopsBackwards
    <2> QED  BY <1>1, <2>2 DEF HarnessTypes
  <1>3. StartInv'  BY <1>1 DEF StartInv
  <1>4. StopInv'
    <2>1. /\ UsersInFront(Backwards(started), On(handle), requires, provides)
          /\ AllListed(Backwards(started), On(handle))
      BY StopsBackwards
    <2>2. harnessPhase' \in {"stopping", "stopped"} =>
            UsersInFront(todo', On(handle'), requires', provides') /\ AllListed(todo', On(handle'))
      BY <1>1, <2>1
    <2> QED  BY <1>1, <2>2 DEF StopInv
  <1> QED  BY <1>2, <1>3, <1>4

LEMMA StartNextKeeps == ASSUME HarnessInv, StartNext  PROVE HarnessInv'
  <1> USE DEF HarnessInv
  <1>0. /\ harnessPhase = "starting" /\ todo # <<>> /\ todo \in Seq(Plugins)
        /\ provides' = provides /\ requires' = requires /\ pluginRestarts' = pluginRestarts
    BY DEF StartNext, HarnessTypes
  <1> DEFINE p == Head(todo)
  <1>1. p \in Plugins /\ Tail(todo) \in Seq(Plugins)  BY <1>0, FirstOfTodo
  <1>2. CASE StartOne(p) /\ todo' = Tail(todo) /\ UNCHANGED harnessPhase
    <2>1. /\ handle' \in [Plugins -> Phase] /\ started' \in Seq(Plugins)
          /\ Held(handle', requires, services') /\ UsersBehind(started', On(handle'), requires, provides)
          /\ AllListed(started', On(handle'))
          /\ HeldBySome(handle, provides, services) => HeldBySome(handle', provides, services')
      <3> HIDE DEF p
      <3> QED  BY <1>1, <1>2, StartOneKeeps
    <2>2. HarnessTypes'  BY <1>0, <1>1, <1>2, <2>1 DEF HarnessTypes
    <2>3. StartInv'  BY <1>0, <1>2, <2>1 DEF StartInv
    <2>4. StopInv'  BY <1>0, <1>2, <2>1 DEF StopInv
    <2> QED  BY <2>2, <2>3, <2>4
  <1>3. CASE FailOne(p, "failed") /\ harnessPhase' = "stopping" /\ todo' = Backwards(started)
    <2>1. /\ handle' \in [Plugins -> Phase] /\ started' = started /\ On(handle') \subseteq On(handle)
          /\ Held(handle', requires, services') /\ UsersBehind(started', On(handle'), requires, provides)
          /\ AllListed(started', On(handle'))
          /\ HeldBySome(handle, provides, services) => HeldBySome(handle', provides, services')
      <3>1. "failed" \in Phase /\ "failed" # "started"  BY DEF Phase
      <3> HIDE DEF p
      <3> QED  BY <1>1, <1>3, <3>1, FailOneKeeps
    <2>2. /\ todo' \in Seq(Plugins) /\ UsersInFront(todo', On(handle'), requires, provides)
          /\ AllListed(todo', On(handle'))
      <3>1. started \in Seq(Plugins) /\ UsersBehind(started, On(handle'), requires, provides) /\ AllListed(started, On(handle'))
        BY <2>1 DEF HarnessTypes
      <3>2. todo' = Backwards(started)  BY <1>3
      <3> QED  BY <3>1, <3>2, BackwardsKeeps
    <2>3. HarnessTypes'  BY <1>0, <2>1, <2>2 DEF HarnessTypes
    <2>4. StartInv'  BY <1>0, <1>3, <2>1 DEF StartInv
    <2>5. StopInv'  BY <1>0, <1>3, <2>1, <2>2 DEF StopInv
    <2> QED  BY <2>3, <2>4, <2>5
  <1> QED  BY <1>2, <1>3 DEF StartNext

LEMMA StopAllKeeps == ASSUME HarnessInv, StopAll  PROVE HarnessInv'
  <1> USE DEF HarnessInv
  <1>1. /\ provides' = provides /\ requires' = requires /\ handle' = handle /\ services' = services
        /\ started' = started /\ pluginRestarts' = pluginRestarts
        /\ harnessPhase = "running" /\ harnessPhase' = "stopping" /\ todo' = Backwards(started)
    BY DEF StopAll, StopOrder
  <1>2. /\ todo' \in Seq(Plugins) /\ UsersInFront(todo', On(handle'), requires', provides')
        /\ AllListed(todo', On(handle'))
    BY <1>1, StopsBackwards
  <1>3. HarnessTypes'  BY <1>1, <1>2 DEF HarnessTypes
  <1>4. StartInv'  BY <1>1 DEF StartInv
  <1>5. StopInv'  BY <1>1, <1>2 DEF StopInv
  <1> QED  BY <1>3, <1>4, <1>5

LEMMA StopNextKeeps == ASSUME HarnessInv, StopNext  PROVE HarnessInv'
  <1> USE DEF HarnessInv
  <1>0. /\ harnessPhase = "stopping" /\ harnessPhase' = "stopping"
        /\ todo # <<>> /\ todo \in Seq(Plugins) /\ todo' = Tail(todo)
        /\ provides' = provides /\ requires' = requires /\ pluginRestarts' = pluginRestarts
    BY DEF StopNext, HarnessTypes
  <1> DEFINE p == Head(todo)
  <1>1. p \in Plugins /\ Tail(todo) \in Seq(Plugins)  BY <1>0, FirstOfTodo
  <1>2. ASSUME NEW rest, rest \subseteq On(handle) \ {p}
        PROVE  /\ UsersInFront(Tail(todo), rest, requires, provides) /\ AllListed(Tail(todo), rest)
               /\ \A q \in rest : ~Uses(requires, provides, q, p)
    <2>1. UsersInFront(todo, On(handle), requires, provides) /\ AllListed(todo, On(handle))
      BY <1>0 DEF StopInv
    <2> QED  BY <1>0, <1>2, <2>1, TailKeeps
  <1> HIDE DEF p
  <1>3. CASE StopOne(p)
    <2>1. /\ handle' \in [Plugins -> Phase] /\ started' \in Seq(Plugins) /\ On(handle') = On(handle) \ {p}
          /\ Held(handle', requires, services') /\ UsersBehind(started', On(handle'), requires, provides)
          /\ AllListed(started', On(handle'))
          /\ HeldBySome(handle, provides, services) => HeldBySome(handle', provides, services')
      BY <1>1, <1>2, <1>3, StopOneKeeps
    <2>2. UsersInFront(todo', On(handle'), requires, provides) /\ AllListed(todo', On(handle'))
      BY <1>0, <1>2, <2>1
    <2>3. HarnessTypes'  BY <1>0, <1>1, <2>1 DEF HarnessTypes
    <2>4. StartInv'  BY <1>0, <2>1 DEF StartInv
    <2>5. StopInv'  BY <1>0, <2>1, <2>2 DEF StopInv
    <2> QED  BY <2>3, <2>4, <2>5
  <1>4. CASE handle[p] = "started" /\ handle' = [handle EXCEPT ![p] = "failed"] /\ UNCHANGED <<started, services>>
    <2>1. FailOne(p, "failed")  BY <1>4 DEF FailOne
    <2>2. /\ handle' \in [Plugins -> Phase] /\ started' = started
          /\ Held(handle', requires, services') /\ UsersBehind(started', On(handle'), requires, provides)
          /\ AllListed(started', On(handle'))
          /\ HeldBySome(handle, provides, services) => HeldBySome(handle', provides, services')
      <3>1. "failed" \in Phase /\ "failed" # "started"  BY DEF Phase
      <3> QED  BY <1>1, <2>1, <3>1, FailOneKeeps
    <2>3. On(handle') \subseteq On(handle) \ {p}
      BY <1>1, <1>4, <2>2 DEF On, HarnessTypes
    <2>4. UsersInFront(todo', On(handle'), requires, provides) /\ AllListed(todo', On(handle'))
      BY <1>0, <1>2, <2>3
    <2>5. HarnessTypes'  BY <1>0, <1>1, <2>2 DEF HarnessTypes
    <2>6. StartInv'  BY <1>0, <2>2 DEF StartInv
    <2>7. StopInv'  BY <1>0, <2>2, <2>4 DEF StopInv
    <2> QED  BY <2>5, <2>6, <2>7
  <1> QED  BY <1>3, <1>4 DEF StopNext, p

LEMMA RestartPluginKeeps ==
  ASSUME HarnessInv, NEW p \in Plugins, RestartPlugin(p)  PROVE HarnessInv'
  <1> USE DEF HarnessInv
  <1>0. /\ harnessPhase = "running" /\ provides' = provides /\ requires' = requires
        /\ pluginRestarts' = pluginRestarts + 1 /\ pluginRestarts \in Nat
        /\ pluginRestarts' \in Nat /\ pluginRestarts' > 0
    BY DEF RestartPlugin, HarnessTypes
  <1>1. \A q \in On(handle) : ~Uses(requires, provides, q, p)
    BY DEF RestartPlugin, FreeToRestart, On, Uses
  <1>2. CASE StopOne(p) /\ harnessPhase' = "restarting" /\ todo' = <<p>>
    <2>1. /\ handle' \in [Plugins -> Phase] /\ started' \in Seq(Plugins)
          /\ Held(handle', requires, services') /\ UsersBehind(started', On(handle'), requires, provides)
          /\ AllListed(started', On(handle'))
      BY <1>1, <1>2, StopOneKeeps
    <2>2. todo' \in Seq(Plugins) /\ todo' # <<>>  BY <1>2
    <2>3. HarnessTypes'  BY <1>0, <2>1, <2>2 DEF HarnessTypes
    <2>4. StartInv'  BY <1>0, <1>2, <2>1 DEF StartInv
    <2>5. StopInv'  BY <1>0, <1>2, <2>2 DEF StopInv
    <2> QED  BY <2>3, <2>4, <2>5
  <1>3. CASE /\ handle[p] = "started" /\ handle' \in {handle, [handle EXCEPT ![p] = "stopped"]}
             /\ UNCHANGED <<started, services, harnessPhase, todo>>
    <2>1. handle \in [Plugins -> Phase] /\ started \in Seq(Plugins) /\ todo \in Seq(Plugins)  BY DEF HarnessTypes
    <2>2. handle' \in [Plugins -> Phase] /\ On(handle') \subseteq On(handle)
      <3>1. "stopped" \in Phase /\ "stopped" # "started"  BY DEF Phase
      <3> QED  BY <1>3, <2>1, <3>1 DEF On
    <2>3. started' = started /\ services' = services /\ harnessPhase' = "running" /\ todo' = todo  BY <1>0, <1>3
    <2>4. /\ Held(handle', requires, services) /\ UsersBehind(started, On(handle'), requires, provides)
          /\ AllListed(started, On(handle'))
      <3>1. services \subseteq services  OBVIOUS
      <3> QED  BY <2>2, <3>1, FewerStarted DEF StartInv
    <2>5. HarnessTypes'  BY <1>0, <2>1, <2>2, <2>3 DEF HarnessTypes
    <2>6. StartInv'  BY <1>0, <2>3, <2>4 DEF StartInv
    <2>7. StopInv'  BY <1>0, <2>3 DEF StopInv
    <2> QED  BY <2>5, <2>6, <2>7
  <1> QED  BY <1>2, <1>3 DEF RestartPlugin

LEMMA RestartDoneKeeps == ASSUME HarnessInv, RestartDone  PROVE HarnessInv'
  <1> USE DEF HarnessInv
  <1>0. /\ harnessPhase = "restarting" /\ harnessPhase' = "running" /\ todo' = <<>>
        /\ todo \in Seq(Plugins) /\ todo # <<>> /\ pluginRestarts > 0 /\ pluginRestarts \in Nat
        /\ provides' = provides /\ requires' = requires /\ pluginRestarts' = pluginRestarts
    BY DEF RestartDone, HarnessTypes, StopInv
  <1> DEFINE p == Head(todo)
  <1>1. p \in Plugins  BY <1>0, FirstOfTodo
  <1>2. StartOne(p) \/ FailOne(p, handle[p]) \/ FailOne(p, "loaded")  BY DEF RestartDone, FailOne
  <1> HIDE DEF p
  <1>3. /\ handle' \in [Plugins -> Phase] /\ started' \in Seq(Plugins)
        /\ Held(handle', requires, services') /\ UsersBehind(started', On(handle'), requires, provides)
        /\ AllListed(started', On(handle'))
    <2>1. CASE StartOne(p)  BY <1>1, <2>1, StartOneKeeps
    <2>2. ASSUME NEW x \in Phase, x = "started" => handle[p] = "started", FailOne(p, x)
          PROVE  <1>3!:
      BY <1>1, <2>2, FailOneKeeps DEF HarnessTypes
    <2>3. handle[p] \in Phase  BY <1>1 DEF HarnessTypes
    <2>4. "loaded" \in Phase /\ "loaded" # "started"  BY DEF Phase
    <2> QED  BY <1>2, <2>1, <2>2, <2>3, <2>4
  <1>4. HarnessTypes'  BY <1>0, <1>3 DEF HarnessTypes
  <1>5. StartInv'  BY <1>0, <1>3 DEF StartInv
  <1>6. StopInv'  BY <1>0 DEF StopInv
  <1> QED  BY <1>4, <1>5, <1>6

LEMMA PhaseOnlyKeeps ==
  ASSUME HarnessInv, StartDone \/ StopDone \/ UNCHANGED harnessVars  PROVE HarnessInv'
  <1> USE DEF HarnessInv
  <1>1. /\ provides' = provides /\ requires' = requires /\ handle' = handle /\ services' = services
        /\ started' = started /\ todo' = todo /\ pluginRestarts' = pluginRestarts
    BY DEF StartDone, StopDone, harnessVars
  <1>2. HarnessTypes'  BY <1>1 DEF HarnessTypes
  <1>3. CASE StartDone
    <2>1. harnessPhase' = "running"  BY <1>3 DEF StartDone
    <2> QED  BY <1>1, <1>2, <2>1 DEF StartInv, StopInv
  <1>4. CASE StopDone
    <2>1. harnessPhase = "stopping" /\ harnessPhase' = "stopped" /\ todo = <<>>  BY <1>4 DEF StopDone
    <2> QED  BY <1>1, <1>2, <2>1 DEF StartInv, StopInv
  <1>5. CASE UNCHANGED harnessVars
    <2>1. harnessPhase' = harnessPhase  BY <1>5 DEF harnessVars
    <2> QED  BY <1>1, <1>2, <2>1 DEF StartInv, StopInv
  <1> QED  BY <1>3, <1>4, <1>5

\* The plugins that are started can resolve what they require, and a complete stop leaves
\* nothing, in every state; what _ordered_ids refuses has no order.
LEMMA HarnessGoesOn == HarnessSpec => []HarnessInv
  <1>1. HarnessInv /\ [HarnessNext]_harnessVars => HarnessInv'
    <2> SUFFICES ASSUME HarnessInv, [HarnessNext]_harnessVars  PROVE HarnessInv'  OBVIOUS
    <2> QED  BY ConfigureKeeps, StartAllKeeps, StartNextKeeps, StopAllKeeps, StopNextKeeps,
                RestartPluginKeeps, RestartDoneKeeps, PhaseOnlyKeeps DEF HarnessNext
  <1> QED  BY <1>1, HarnessStarts, PTL DEF HarnessSpec

LEMMA HeldByInv == HarnessInv => CapabilitiesHeld
  <1> SUFFICES ASSUME HarnessInv  PROVE CapabilitiesHeld  OBVIOUS
  <1>1. DependenciesHeld  BY DEF HarnessInv, StartInv, Held, On, DependenciesHeld
  <1>2. StopLeavesNothing
    <2> SUFFICES ASSUME harnessPhase = "stopped"
                 PROVE  /\ \A p \in Plugins : handle[p] # "started"
                        /\ pluginRestarts = 0 =>
                             services \subseteq UNION {provides[p] : p \in {q \in Plugins : handle[q] = "failed"}}
      BY DEF StopLeavesNothing
    <2>1. todo = <<>> /\ AllListed(todo, On(handle))  BY DEF HarnessInv, StopInv
    <2>2. On(handle) = {}  BY <2>1 DEF AllListed
    <2>3. \A p \in Plugins : handle[p] # "started"  BY <2>2 DEF On
    <2>4. ASSUME pluginRestarts = 0, NEW c \in services
          PROVE  c \in UNION {provides[p] : p \in {q \in Plugins : handle[q] = "failed"}}
      <3>1. PICK p \in Plugins : c \in provides[p] /\ handle[p] \in {"started", "failed"}
        BY <2>4 DEF HarnessInv, StopInv, HeldBySome
      <3> QED  BY <2>3, <3>1
    <2> QED  BY <2>3, <2>4
  <1>3. RefusedOnlyIfImpossible
    BY PlacedAll DEF RefusedOnlyIfImpossible, Startable, Ranked
  <1> QED  BY <1>1, <1>2, <1>3 DEF CapabilitiesHeld

\* A started plugin can resolve all it requires, nothing is left started when all was
\* stopped, and an order of starts is refused exactly if there is none.
THEOREM CapabilitiesAlwaysHeld == HarnessSpec => []CapabilitiesHeld
  <1> QED  BY HarnessGoesOn, HeldByInv, PTL

===============================================================================
