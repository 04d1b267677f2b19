--------------------------- MODULE TaskLifecycle ---------------------------
(***************************************************************************)
(* What the execution core promises about a hired task, seen from outside  *)
(* its handlers: the task is opened, simulated, approved, dispatched to    *)
(* the adapter, settled and closed.  A dispatch uses up an approval and    *)
(* needs a policy that has not been withdrawn; a dispatched task can only  *)
(* settle, and only a failure may be approved again.  TaskExecution        *)
(* implements it whatever writes fail and whenever the process dies.       *)
(***************************************************************************)
EXTENDS Naturals

CONSTANTS Tasks, Policies, NoPolicy

VARIABLES
  phase,       \* what a client can see of the task
  owner,       \* the policy the task was created under
  withdrawn,   \* policies that have been revoked
  approvals,   \* approvals given to the task
  dispatches   \* times the adapter was called for the task

vars == <<phase, owner, withdrawn, approvals, dispatches>>

Init ==
  /\ phase = [t \in Tasks |-> "absent"]
  /\ owner = [t \in Tasks |-> NoPolicy]
  /\ withdrawn = {}
  /\ approvals = [t \in Tasks |-> 0]
  /\ dispatches = [t \in Tasks |-> 0]

Open(t, p) ==
  /\ phase[t] = "absent"
  /\ phase' = [phase EXCEPT ![t] = "open"]
  /\ owner' = [owner EXCEPT ![t] = p]
  /\ UNCHANGED <<withdrawn, approvals, dispatches>>

Move(t, from, to) ==
  /\ phase[t] \in from
  /\ phase' = [phase EXCEPT ![t] = to]

Simulate(t) ==
  /\ Move(t, {"open"}, "simulated")
  /\ UNCHANGED <<owner, withdrawn, approvals, dispatches>>

Approve(t) ==
  /\ Move(t, {"simulated", "failed"}, "approved")
  /\ approvals' = [approvals EXCEPT ![t] = @ + 1]
  /\ UNCHANGED <<owner, withdrawn, dispatches>>

Dispatch(t) ==
  /\ Move(t, {"approved"}, "running")
  /\ owner[t] \notin withdrawn
  /\ dispatches' = [dispatches EXCEPT ![t] = @ + 1]
  /\ UNCHANGED <<owner, withdrawn, approvals>>

Settle(t) ==
  /\ \E outcome \in {"done", "failed"} : Move(t, {"running"}, outcome)
  /\ UNCHANGED <<owner, withdrawn, approvals, dispatches>>

Close(t) ==
  /\ Move(t, {"open", "simulated", "approved", "done", "failed"}, "closed")
  /\ UNCHANGED <<owner, withdrawn, approvals, dispatches>>

Withdraw(p) ==
  /\ withdrawn' = withdrawn \union {p}
  /\ UNCHANGED <<phase, owner, approvals, dispatches>>

\* The process dies: what was running settles with what its row already said,
\* or stays running for good.
SettleSome ==
  /\ phase' \in [Tasks -> {"absent", "open", "simulated", "approved",
                           "running", "done", "failed", "closed"}]
  /\ \A t \in Tasks : phase'[t] # phase[t] => phase[t] = "running" /\ phase'[t] = "done"
  /\ UNCHANGED <<owner, withdrawn, approvals, dispatches>>

Next ==
  \/ \E t \in Tasks :
       \/ \E p \in Policies : Open(t, p)
       \/ Simulate(t) \/ Approve(t) \/ Dispatch(t) \/ Settle(t) \/ Close(t)
  \/ \E p \in Policies : Withdraw(p)
  \/ SettleSome

Spec == Init /\ [][Next]_vars
=============================================================================
