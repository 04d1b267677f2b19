------------------------------ MODULE PaidReplay ------------------------------
(***************************************************************************)
(* The replay of a paid delivery from the chain (decision/paid.py): a      *)
(* claim is believed only if eight reads of a node agree on it.            *)
(*                                                                         *)
(* Between two reads the chain may drop the block of the settlement and    *)
(* mine it again in another one, before which other things happened; a     *)
(* node may fail to answer.  What a block says of the claim is a set of    *)
(* facts.  The form of claims and of answers is left out.                  *)
(***************************************************************************)
EXTENDS Integers, FiniteSets

CONSTANTS
  Blocks,     \* blocks that may hold the settlement
  NoBlock,
  Schemas,    \* schemas of the orders on the chain
  Reorgs,     \* bound: how often the block is replaced
  DeepEnough  \* 12 confirmations

ASSUME ReplayConstantsOK == NoBlock \notin Blocks /\ Reorgs \in Nat /\ DeepEnough \in Nat \ {0}

VARIABLES
  facts,     \* what holds at each block
  schema,    \* schema_version of the description of the order
  canonical, \* the block of the settlement on the chain as it is now
  depth,     \* its confirmations
  reorgs,
  replay     \* a run of verify_delivery

replayVars == <<facts, schema, canonical, depth, reorgs, replay>>

-----------------------------------------------------------------------------

\* Of the claim: the router was called for this order and the escrow paid its provider,
\* within the budget; the provider is the wallet of the agent; the buyer does not own
\* the agent; the order is complete, between these two, for this output and this skill.
Facts == {"settled and paid", "wallet", "owner", "order"}
ReviewedSchema == "safehire-live-hire-v1"

NoReplay == [stage |-> "idle", block |-> NoBlock, deep |-> FALSE, clean |-> TRUE]

ReplayInit ==
  /\ facts \in [Blocks -> {Facts} \union {Facts \ {f} : f \in Facts}]
  /\ schema \in Schemas
  /\ canonical \in Blocks /\ depth = 1 /\ reorgs = 0
  /\ replay = NoReplay

-----------------------------------------------------------------------------
(* The chain *)

Confirm ==
  /\ depth < DeepEnough
  /\ depth' = depth + 1
  /\ UNCHANGED <<facts, schema, canonical, reorgs, replay>>
Reorganize(b) ==
  /\ reorgs < Reorgs /\ b # canonical
  /\ reorgs' = reorgs + 1
  /\ canonical' = b
  /\ \/ depth' = 1
     \/ depth' = depth   \* a branch as long as the one it replaces
  /\ replay' = [replay EXCEPT !.clean = FALSE]
  /\ UNCHANGED <<facts, schema>>

-----------------------------------------------------------------------------
(* BscReader and verify_delivery *)

ReadsTo(stage) == replay' = [replay EXCEPT !.stage = stage]
OrRefused(ok, stage) == ReadsTo(IF ok THEN stage ELSE "refused")

StartReplay ==
  /\ replay.stage \in {"idle", "refused", "verified"}
  /\ replay' = [NoReplay EXCEPT !.stage = "receipt"]
ReadReceipt ==
  /\ replay.stage = "receipt"
  /\ replay' = [replay EXCEPT !.stage = "transaction", !.block = canonical]
\* Mixed transaction and receipt blocks are refused.
ReadTransaction == replay.stage = "transaction" /\ OrRefused(canonical = replay.block, "head")
\* Confirmations are counted from the number of the block, whichever chain it is of now.
ReadHead ==
  /\ replay.stage = "head"
  /\ replay' = [replay EXCEPT !.deep = depth >= DeepEnough,
       !.stage = IF depth >= DeepEnough /\ "settled and paid" \in facts[replay.block] THEN "wallet" ELSE "refused"]

\* eth_call at a block by its hash; a node refuses for a block that is not canonical.
\* Mutant: a node is asked for its latest state.
SaysNow(f) == f \in facts[canonical]
Says(f) == canonical = replay.block /\ f \in facts[replay.block]

ReadWallet == replay.stage = "wallet" /\ OrRefused(Says("wallet"), "owner")
ReadOwner == replay.stage = "owner" /\ OrRefused(Says("owner"), "order")
ReadEscrow == replay.stage = "order" /\ OrRefused(Says("order") /\ schema = ReviewedSchema, "canonical")
ReadCanonical == replay.stage = "canonical" /\ OrRefused(canonical = replay.block, "verified")
ReadFails ==
  /\ replay.stage \notin {"idle", "refused", "verified"}
  /\ replay' = [replay EXCEPT !.stage = "refused", !.clean = FALSE]

Reads ==
  \/ StartReplay \/ ReadReceipt \/ ReadTransaction \/ ReadHead
  \/ ReadWallet \/ ReadOwner \/ ReadEscrow \/ ReadCanonical \/ ReadFails

ReplayNext ==
  \/ Confirm \/ \E b \in Blocks : Reorganize(b)
  \/ Reads /\ UNCHANGED <<facts, schema, canonical, depth, reorgs>>

ReplaySpec == ReplayInit /\ [][ReplayNext]_replayVars

-----------------------------------------------------------------------------
(* Properties *)

ReplayTypeOK ==
  /\ canonical \in Blocks /\ depth \in 1 .. DeepEnough
  /\ replay.block \in Blocks \union {NoBlock}

\* A delivery is verified of one block: everything the claim says holds there, and it is
\* the canonical one when the replay ends, however the chain moved between the reads.
VerifiedAtOneBlock ==
  [][replay.stage # "verified" /\ replay'.stage = "verified" =>
       replay.block = canonical /\ facts[replay.block] = Facts /\ replay.deep]_replayVars

\* A true claim is counted: a replay that no failure and no reorganization disturbed
\* refuses only what is not deep enough, or not as claimed.
TrueClaimIsCounted ==
  replay.stage = "refused" /\ replay.clean /\ replay.deep => facts[replay.block] # Facts

===============================================================================
