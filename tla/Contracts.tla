------------------------------- MODULE Contracts -------------------------------
(***************************************************************************)
(* The contracts of contracts/src: the permission envelope of an executor  *)
(* (ScopedExecutionPolicy), the anchor of ledger heads (EvidenceAnchor)    *)
(* and the registry of agents (AgentRegistry).                             *)
(*                                                                         *)
(* A call is a transaction: it takes effect whole or reverts, and calls of *)
(* different senders are mined in any order, late and more than once.      *)
(* Unsigned integers are checked: an operation that leaves their range     *)
(* reverts.  Lengths of strings, and time stamps of the registry, are left *)
(* out.                                                                    *)
(***************************************************************************)
EXTENDS Integers, FiniteSets

CONSTANTS
  Accounts,      \* senders
  Intents,       \* intent ids the executor was given
  Calls,         \* pairs of target and selector
  AllowedCalls,  \* those the constructor was given
  AgentIds,
  UintMax,       \* the largest unsigned integer, 2^256 - 1 on chain
  MaxPerCall, MaxTotal,  \* maxValuePerCall, maxTotalValue
  MaxSequence    \* bound: sequence numbers anchored

ASSUME ContractsOK ==
  /\ {UintMax, MaxPerCall, MaxTotal, MaxSequence} \subseteq Nat
  /\ MaxPerCall <= MaxTotal /\ MaxTotal <= UintMax   \* the constructor's checks, and the type
  /\ AllowedCalls \subseteq Calls /\ IsFiniteSet(Intents)

VARIABLES
  policy,    \* state of a ScopedExecutionPolicy
  paid,      \* value consumed for each intent (for properties only)
  anchor,    \* state of an EvidenceAnchor
  anchored,  \* events it has emitted, as a set
  agentRow   \* agents of an AgentRegistry

contractVars == <<policy, paid, anchor, anchored, agentRow>>

-----------------------------------------------------------------------------

Owner == CHOOSE a \in Accounts : TRUE        \* deployed the policy and the anchor
Executor == CHOOSE a \in Accounts : a # Owner

Nobody == "0x0"
Unregistered == [owner |-> Nobody, active |-> FALSE]

ContractsInit ==
  /\ policy = [total |-> 0, revoked |-> FALSE, expired |-> FALSE, consumed |-> {}]
  /\ paid = [i \in Intents |-> 0]
  /\ anchor = 0 /\ anchored = {}
  /\ agentRow = [a \in AgentIds |-> Unregistered]

-----------------------------------------------------------------------------
(* ScopedExecutionPolicy *)

FitsTotal(a, b) == a + b <= UintMax /\ a + b <= MaxTotal

Consume(sender, i, c, value) ==
  /\ sender = Executor /\ ~policy.revoked /\ ~policy.expired
  /\ c \in AllowedCalls
  /\ value <= MaxPerCall /\ FitsTotal(policy.total, value)
  /\ i \notin policy.consumed
  /\ policy' = [policy EXCEPT !.total = @ + value, !.consumed = @ \union {i}]
  /\ paid' = [paid EXCEPT ![i] = @ + value]
  /\ UNCHANGED <<anchor, anchored, agentRow>>
Revoke(sender) ==
  /\ sender = Owner
  /\ policy' = [policy EXCEPT !.revoked = TRUE]
  /\ UNCHANGED <<paid, anchor, anchored, agentRow>>

-----------------------------------------------------------------------------
(* EvidenceAnchor *)

\* Mutant: a head may be anchored twice.
LaterLoosely(n) == n >= anchor
Later(n) == n > anchor

Anchor(sender, n, root) ==
  /\ sender = Owner /\ Later(n)
  /\ anchor' = n
  /\ anchored' = anchored \union {[sequence |-> n, root |-> root]}
  /\ UNCHANGED <<policy, paid, agentRow>>

-----------------------------------------------------------------------------
(* AgentRegistry *)

Vacant(a) == agentRow[a].owner = Nobody
Register(sender, a) ==
  /\ Vacant(a)
  /\ agentRow' = [agentRow EXCEPT ![a] = [owner |-> sender, active |-> TRUE]]
  /\ UNCHANGED <<policy, paid, anchor, anchored>>
UpdateAgent(sender, a, active) ==
  /\ agentRow[a].owner = sender   \* nobody sends as the zero address
  /\ agentRow' = [agentRow EXCEPT ![a].active = active]
  /\ UNCHANGED <<policy, paid, anchor, anchored>>

ContractsExpire ==
  /\ policy' = [policy EXCEPT !.expired = TRUE]
  /\ UNCHANGED <<paid, anchor, anchored, agentRow>>

ContractsNext ==
  \/ ContractsExpire
  \/ \E s \in Accounts :
       \/ \E i \in Intents, c \in Calls, v \in 0 .. UintMax : Consume(s, i, c, v)
       \/ Revoke(s)
       \/ \E n \in 0 .. MaxSequence, r \in {"h1", "h2"} : Anchor(s, n, r)
       \/ \E a \in AgentIds : Register(s, a) \/ \E b \in BOOLEAN : UpdateAgent(s, a, b)

ContractsSpec == ContractsInit /\ [][ContractsNext]_contractVars

-----------------------------------------------------------------------------
(* Properties *)

\* Each unit of value that was consumed, with the intent it was consumed for.
UnitsPaid == UNION {{i} \X (1 .. paid[i]) : i \in Intents}

\* All that was ever consumed, of every intent once, stays within the total of the
\* policy: no order, repetition or overflow of calls gets past it.
PaidWithinTotal == Cardinality(UnitsPaid) = policy.total /\ policy.total <= MaxTotal

\* A sequence number is anchored with one root, and the root the contract shows is that
\* of the highest, in whatever order the calls are mined.
OneRootPerSequence ==
  /\ \A x, y \in anchored : x.sequence = y.sequence => x = y
  /\ \A x \in anchored : x.sequence <= anchor

\* Who registered an agent owns it for good.
RegistrantStaysOwner ==
  [][\A a \in AgentIds : agentRow[a].owner # Nobody => agentRow'[a].owner = agentRow[a].owner]_contractVars

\* What the three contracts promise, whoever calls them in whatever order.
ContractsHold == [](PaidWithinTotal /\ OneRootPerSequence) /\ RegistrantStaysOwner

=============================================================================
