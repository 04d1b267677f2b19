--------------------------- MODULE TaskExecution ---------------------------
(***************************************************************************)
(* The off-chain execution core of SafeHire: permission policies, hired    *)
(* tasks, the deterministic risk gate and the execution service            *)
(* (src/proofops/execution/service.py, store.py, risk_gate.py and the      *)
(* hire, task and permission endpoints of apps/api/main.py).               *)
(*                                                                         *)
(* One uvicorn process serves every request on one event loop.  The        *)
(* handlers are coroutines that call a synchronous SQLite store, so a      *)
(* handler runs alone until it returns, EXCEPT at the one await of         *)
(* TaskService.execute, where the adapter works and every other handler    *)
(* may run.  Each committed SQLite transaction is durable at once, so a    *)
(* handler that commits twice is split at the commit: `call' records what  *)
(* the running handler still has to do, and LoopFree says that no handler  *)
(* holds the event loop.                                                   *)
(*                                                                         *)
(* Abstractions.  US dollars are natural numbers.  Whether an intent's     *)
(* agent, chain, target, method, slippage, key and data source fit the     *)
(* policy is one Boolean, inScope.  A simulation is its expiry: a task's   *)
(* request and policy never change, so the request hash and policy id it   *)
(* carries always match.  The ledger is the set of events appended to it   *)
(* (EvidenceLedger models the file).                                       *)
(*                                                                         *)
(* An operator marked "Mutant" is a plausible bug: it stands for the       *)
(* definition that follows it, and some property must then fail.           *)
(***************************************************************************)
EXTENDS Integers, FiniteSets

CONSTANTS
  Tasks,            \* task ids that may be drawn
  Policies,         \* policy ids that may be drawn
  Keys,             \* idempotency keys clients use when they create tasks
  Values,           \* amounts (USD) a client may ask to execute
  PolicyTerms,      \* terms a policy may be created with
  SimulationTTL,    \* life of a simulation in ticks (5 minutes in the code)
  DemoMode,         \* settings.execution_mode = "demo"
  AdapterOutcomes,  \* what the configured adapter may do
  FaultKinds,       \* which of "store", "ledger", "crash" may strike
  NoTask, NoPolicy, \* "no such row"
  MaxTime, MaxDay, MaxVersion, MaxFaults   \* bounds of the model

Outcomes == {"success", "failure", "raise"}
Terms == [maxValue: Nat, dailyValue: Nat, ttl: Nat \ {0}, human: BOOLEAN]

ASSUME ConstantsOK ==
  /\ Values \subseteq Nat
  /\ PolicyTerms \subseteq Terms
  /\ SimulationTTL \in Nat \ {0}
  /\ DemoMode \in BOOLEAN
  /\ AdapterOutcomes \subseteq Outcomes
  /\ NoTask \notin Tasks
  /\ NoPolicy \notin Policies
  /\ Tasks \intersect Policies = {}   \* task_... and pol_...
  /\ IsFiniteSet(Tasks) /\ Tasks # {}
  /\ MaxTime \in Nat /\ MaxDay \in Nat /\ MaxVersion \in Nat /\ MaxFaults \in Nat

VARIABLES
  policy,      \* table policies
  task,        \* table tasks
  keyOwner,    \* table idempotency: the task a creation key belongs to
  spend,       \* table policy_spend: value booked per policy and UTC day
  killSwitch,  \* flag kill_switch
  ledger,      \* events appended to the evidence ledger
  call,        \* the handler working on a task, and where it is
  approved,    \* approvals given to a task, } kept to state
  dispatched,  \* adapter calls made for it,  } properties only,
  booked,      \* bookings made for it        } not in the code
  now, day,    \* wall clock and UTC date
  faults       \* failures so far, at most MaxFaults

history == <<approved, dispatched, booked>>
vars == <<policy, task, keyOwner, spend, killSwitch, ledger, call, history, now, day, faults>>

-----------------------------------------------------------------------------
(* States, rows and the transition table. *)

TaskState == {"draft", "simulated", "approval_required", "approved",
              "executing", "succeeded", "failed", "revoked"}

AllowedTransitions ==
  [s \in TaskState |->
     CASE s = "draft"             -> {"simulated", "revoked"}
       [] s = "simulated"         -> {"approval_required", "revoked"}
       [] s = "approval_required" -> {"approved", "revoked"}
       [] s = "approved"          -> {"executing", "revoked"}
       [] s = "executing"         -> {"succeeded", "failed"}
       [] s = "succeeded"         -> {"revoked"}
       [] s = "failed"            -> {"approved", "revoked"}
       [] s = "revoked"           -> {}]

\* Where the handler of a task is: "hired" (hire_agent created the task, the
\* agent is asked next), "simulated" (first commit of simulate done), "await"
\* (adapter working), "succeeded" (SUCCEEDED committed, add_spend next),
\* "except" (inside the except branch of execute).
Stage == {"none", "hired", "simulated", "await", "succeeded", "except"}

Days == 0 .. MaxDay

PolicyRow == [exists: BOOLEAN, maxValue: Nat, dailyValue: Nat,
              expiresAt: Nat, human: BOOLEAN, revoked: BOOLEAN]
CallRow == [stage: Stage, value: Nat, version: Nat]
TaskRow == [state: TaskState \union {"absent"}, policy: Policies \union {NoPolicy},
            simUntil: Nat, receipt: {"none", "success", "failure"}, version: Nat]

EventKind == {"permission_created", "permission_revoked", "task_created",
              "task_simulated", "task_approved", "task_executed", "task_revoked",
              "risk_allowed", "risk_rejected"}
EventSet == [kind: EventKind, subject: Tasks \union Policies, version: Nat]
Event(kind, subject, version) == [kind |-> kind, subject |-> subject, version |-> version]

AbsentPolicy == [exists |-> FALSE, maxValue |-> 0, dailyValue |-> 0,
                 expiresAt |-> 0, human |-> FALSE, revoked |-> FALSE]
AbsentTask == [state |-> "absent", policy |-> NoPolicy, simUntil |-> 0,
               receipt |-> "none", version |-> 0]
NoCall == [stage |-> "none", value |-> 0, version |-> 0]

Init ==
  /\ policy = [p \in Policies |-> AbsentPolicy]
  /\ task = [t \in Tasks |-> AbsentTask]
  /\ keyOwner = [k \in Keys |-> NoTask]
  /\ spend = [p \in Policies |-> [d \in Days |-> 0]]
  /\ killSwitch = FALSE
  /\ ledger = {}
  /\ call = [t \in Tasks |-> NoCall]
  /\ approved = [t \in Tasks |-> 0]
  /\ dispatched = [t \in Tasks |-> 0]
  /\ booked = [t \in Tasks |-> 0]
  /\ now = 0 /\ day = 0 /\ faults = 0

Exists(t) == task[t].state # "absent"
PolicyOf(t) == policy[task[t].policy]

\* Mutants: no transition is checked; what succeeded may be approved again.
MayBecomeUnchecked(t, s) == Exists(t)
MayBecomeAgain(t, s) ==
  Exists(t) /\ (s \in AllowedTransitions[task[t].state] \/ (s = "approved" /\ task[t].state = "succeeded"))

MayBecome(t, s) == Exists(t) /\ s \in AllowedTransitions[task[t].state]

\* No handler holds the event loop: every call is over or awaits its adapter.
Yielded == {"none", "await"}
LoopFree == \A t \in Tasks : call[t].stage \in Yielded

\* One failure of the environment, within the bound MaxFaults.
Fault(kind) ==
  /\ kind \in FaultKinds
  /\ faults < MaxFaults
  /\ faults' = faults + 1

\* The trailing ledger append of a handler: the event is recorded, or the
\* append raises after the store has committed and the event is lost.
Log(event) ==
  \/ ledger' = ledger \union {event} /\ UNCHANGED faults
  \/ Fault("ledger") /\ UNCHANGED ledger

\* Mutant: the version is not advanced.
UpdateTaskInPlace(t, s, until, receipt) ==
  [task EXCEPT ![t] = [state |-> s, policy |-> task[t].policy, simUntil |-> until,
                       receipt |-> receipt, version |-> task[t].version]]

\* update_task: new state, next version, simulation and receipt given or kept.
UpdateTask(t, s, until, receipt) ==
  [task EXCEPT ![t] = [state |-> s, policy |-> task[t].policy, simUntil |-> until,
                       receipt |-> receipt, version |-> task[t].version + 1]]
Update(t, s) == UpdateTask(t, s, task[t].simUntil, task[t].receipt)

\* Mutant: a failed execution is put back to approved, ready for another try.
UpdateReceiptRetry(t, s, receipt) ==
  UpdateTask(t, IF s = "failed" THEN "approved" ELSE s, task[t].simUntil, receipt)
UpdateReceipt(t, s, receipt) == UpdateTask(t, s, task[t].simUntil, receipt)

\* The handler goes on with the row it read or wrote last (its local `task').
Resume(t, stage, version) ==
  call' = [call EXCEPT ![t] = [stage |-> stage, value |-> call[t].value, version |-> version]]
Done(t) == call' = [call EXCEPT ![t] = NoCall]

\* Mutants: the handler keeps the row it read, not the one it wrote; an
\* exception ends the handler.
GotoStale(t, stage) == Resume(t, stage, task[t].version)
RaiseUnhandled(t) == Done(t)
Goto(t, stage) == Resume(t, stage, task'[t].version)
Raise(t) == Resume(t, "except", call[t].version)

\* update_task is a compare-and-set on the version the handler holds: it writes,
\* or it raises because the row moved on or because SQLite fails.
RowIsCurrent(t) == call[t].version = task[t].version
WriteRaises(t) == (~RowIsCurrent(t) /\ UNCHANGED faults) \/ Fault("store")

-----------------------------------------------------------------------------
(* Permissions. *)

\* Mutant: the time to live is subtracted.
NewPolicyExpired(q) ==
  [exists |-> TRUE, maxValue |-> q.maxValue, dailyValue |-> q.dailyValue,
   expiresAt |-> now - q.ttl, human |-> q.human, revoked |-> FALSE]

NewPolicy(q) == [exists |-> TRUE, maxValue |-> q.maxValue, dailyValue |-> q.dailyValue,
                 expiresAt |-> now + q.ttl, human |-> q.human, revoked |-> FALSE]

CreatePolicy(p, q) ==
  /\ LoopFree
  /\ ~policy[p].exists
  /\ policy' = [policy EXCEPT ![p] = NewPolicy(q)]
  /\ Log(Event("permission_created", p, 0))
  /\ UNCHANGED <<task, keyOwner, spend, killSwitch, call, history, now, day>>

RevokePolicy(p) ==
  /\ LoopFree
  /\ policy[p].exists
  /\ policy' = [policy EXCEPT ![p].revoked = TRUE]
  /\ Log(Event("permission_revoked", p, 0))
  /\ UNCHANGED <<task, keyOwner, spend, killSwitch, call, history, now, day>>

-----------------------------------------------------------------------------
(* Tasks: creation, hire, simulation, approval, revocation. *)

NewTask(p) == [state |-> "draft", policy |-> p, simUntil |-> 0, receipt |-> "none", version |-> 0]

\* A used key raises DuplicateRequestError and changes nothing.
CreateTask(t, p, k) ==
  /\ LoopFree
  /\ policy[p].exists
  /\ keyOwner[k] = NoTask
  /\ ~Exists(t)
  /\ task' = [task EXCEPT ![t] = NewTask(p)]
  /\ keyOwner' = [keyOwner EXCEPT ![k] = t]
  /\ Log(Event("task_created", t, 0))
  /\ UNCHANGED <<policy, spend, killSwitch, call, history, now, day>>

\* hire_agent creates the policy, then the task, then asks the agent.  With a
\* used key the policy stays behind without a task; a failing append or write
\* in between leaves what CreatePolicy and CreateTask leave.
Hire(t, p, k, q) ==
  /\ LoopFree
  /\ ~policy[p].exists
  /\ ~Exists(t)
  /\ policy' = [policy EXCEPT ![p] = NewPolicy([q EXCEPT !.human = TRUE])]
  /\ \/ /\ keyOwner[k] # NoTask
        /\ ledger' = ledger \union {Event("permission_created", p, 0)}
        /\ UNCHANGED <<task, keyOwner, call>>
     \/ /\ keyOwner[k] = NoTask
        /\ task' = [task EXCEPT ![t] = NewTask(p)]
        /\ keyOwner' = [keyOwner EXCEPT ![k] = t]
        /\ ledger' = ledger \union {Event("permission_created", p, 0),
                                    Event("task_created", t, 0)}
        /\ Goto(t, "hired")
  /\ UNCHANGED <<spend, killSwitch, history, now, day, faults>>

\* First commit of simulate: DRAFT becomes SIMULATED and carries its expiry.
RecordSimulation(t) ==
  /\ MayBecome(t, "simulated")
  /\ task' = UpdateTask(t, "simulated", now + SimulationTTL, task[t].receipt)
  /\ Goto(t, "simulated")

Simulate(t) ==
  /\ LoopFree
  /\ RecordSimulation(t)
  /\ UNCHANGED <<policy, keyOwner, spend, killSwitch, ledger, history, now, day, faults>>

\* The agent's engine answers or raises; only a demo deployment then simulates.
InvokeAgent(t) ==
  /\ call[t].stage = "hired"
  /\ \/ DemoMode /\ RecordSimulation(t)
     \/ Done(t) /\ UNCHANGED task
  /\ UNCHANGED <<policy, keyOwner, spend, killSwitch, ledger, history, now, day, faults>>

\* Second commit of simulate, or the write fails and the task stays SIMULATED.
FinishSimulation(t) ==
  /\ call[t].stage = "simulated"
  /\ Done(t)
  /\ \/ /\ RowIsCurrent(t)
        /\ task' = Update(t, "approval_required")
        /\ Log(Event("task_simulated", t, task'[t].version))
     \/ WriteRaises(t) /\ UNCHANGED <<task, ledger>>
  /\ UNCHANGED <<policy, keyOwner, spend, killSwitch, history, now, day>>

\* approve and revoke_task look at the task's state only.
Approve(t) ==
  /\ LoopFree
  /\ MayBecome(t, "approved")
  /\ task[t].version < MaxVersion            \* bound on retries
  /\ task' = Update(t, "approved")
  /\ approved' = [approved EXCEPT ![t] = @ + 1]
  /\ Log(Event("task_approved", t, task'[t].version))
  /\ UNCHANGED <<policy, keyOwner, spend, killSwitch, call, dispatched, booked, now, day>>

RevokeTask(t) ==
  /\ LoopFree
  /\ MayBecome(t, "revoked")
  /\ task' = Update(t, "revoked")
  /\ Log(Event("task_revoked", t, task'[t].version))
  /\ UNCHANGED <<policy, keyOwner, spend, killSwitch, call, history, now, day>>

-----------------------------------------------------------------------------
(* Execution. *)

\* Mutants: revocation is forgotten; the cap of one action is not checked.
PolicyUnexpired(t) == now < PolicyOf(t).expiresAt
WithinDailyCap(t, v) == spend[task[t].policy][day] + v <= PolicyOf(t).dailyValue

PolicyActive(t) == ~PolicyOf(t).revoked /\ now < PolicyOf(t).expiresAt
WithinCaps(t, v) ==
  v <= PolicyOf(t).maxValue /\ spend[task[t].policy][day] + v <= PolicyOf(t).dailyValue

\* RiskGate.evaluate with the facts execute puts into the intent.
Allowed(t, v, inScope) ==
  /\ ~killSwitch
  /\ PolicyActive(t)
  /\ inScope
  /\ WithinCaps(t, v)
  /\ now < task[t].simUntil
  /\ PolicyOf(t).human => task[t].state = "approved"

RejectExecute(t, v, inScope) ==
  /\ LoopFree
  /\ Exists(t)
  /\ ~Allowed(t, v, inScope)
  /\ ledger' = ledger \union {Event("risk_rejected", t, 0)}
  /\ UNCHANGED <<policy, task, keyOwner, spend, killSwitch, call, history, now, day, faults>>

\* The gate allows (and the decision is recorded) but the task cannot leave its
\* state for EXECUTING, or the write that should do it fails.
AllowWithoutEffect(t, v, inScope) ==
  /\ LoopFree
  /\ Exists(t)
  /\ Allowed(t, v, inScope)
  /\ \/ ~MayBecome(t, "executing") /\ UNCHANGED faults
     \/ MayBecome(t, "executing") /\ Fault("store")
  /\ ledger' = ledger \union {Event("risk_allowed", t, task[t].version)}
  /\ UNCHANGED <<policy, task, keyOwner, spend, killSwitch, call, history, now, day>>

\* execute up to its await.
BeginExecute(t, v, inScope) ==
  /\ LoopFree
  /\ Exists(t)
  /\ Allowed(t, v, inScope)
  /\ MayBecome(t, "executing")
  /\ ledger' = ledger \union {Event("risk_allowed", t, task[t].version)}
  /\ task' = Update(t, "executing")
  /\ call' = [call EXCEPT ![t] = [stage |-> "await", value |-> v,
                                    version |-> task'[t].version]]
  /\ dispatched' = [dispatched EXCEPT ![t] = @ + 1]
  /\ UNCHANGED <<policy, keyOwner, spend, killSwitch, approved, booked, now, day, faults>>

\* Mutant: a success is not booked.
AdapterSucceedsUnbooked(t) ==
  /\ LoopFree /\ call[t].stage = "await"
  /\ "success" \in AdapterOutcomes
  /\ task' = UpdateReceipt(t, "succeeded", "success")
  /\ Done(t)
  /\ UNCHANGED <<policy, keyOwner, spend, killSwitch, ledger, history, now, day, faults>>

\* The await returns: a successful receipt is committed first and booked next.
AdapterSucceeds(t) ==
  /\ LoopFree /\ call[t].stage = "await"
  /\ "success" \in AdapterOutcomes
  /\ \/ /\ RowIsCurrent(t)
        /\ task' = UpdateReceipt(t, "succeeded", "success")
        /\ Goto(t, "succeeded")
        /\ UNCHANGED faults
     \/ WriteRaises(t) /\ Raise(t) /\ UNCHANGED task
  /\ UNCHANGED <<policy, keyOwner, spend, killSwitch, ledger, history, now, day>>

AdapterFails(t) ==
  /\ LoopFree /\ call[t].stage = "await"
  /\ "failure" \in AdapterOutcomes
  /\ \/ /\ RowIsCurrent(t)
        /\ task' = UpdateReceipt(t, "failed", "failure")
        /\ Done(t)
        /\ Log(Event("task_executed", t, task'[t].version))
     \/ WriteRaises(t) /\ Raise(t) /\ UNCHANGED <<task, ledger>>
  /\ UNCHANGED <<policy, keyOwner, spend, killSwitch, history, now, day>>

AdapterRaises(t) ==
  /\ LoopFree /\ call[t].stage = "await"
  /\ "raise" \in AdapterOutcomes
  /\ Raise(t)
  /\ UNCHANGED <<policy, task, keyOwner, spend, killSwitch, ledger, history, now, day, faults>>

\* add_spend books on the day it runs; a raise leads into the except branch.
BookSpend(t) ==
  /\ call[t].stage = "succeeded"
  /\ \/ /\ spend' = [spend EXCEPT ![task[t].policy][day] = @ + call[t].value]
        /\ booked' = [booked EXCEPT ![t] = @ + 1]
        /\ Done(t)
        /\ Log(Event("task_executed", t, task[t].version))
     \/ Fault("store") /\ Raise(t) /\ UNCHANGED <<spend, booked, ledger>>
  /\ UNCHANGED <<policy, task, keyOwner, killSwitch, approved, dispatched, now, day>>

\* The except branch writes FAILED over whatever the task's row holds.
ConvertToFailed(t) ==
  /\ call[t].stage = "except"
  /\ Done(t)
  /\ \/ /\ RowIsCurrent(t)
        /\ task' = UpdateReceipt(t, "failed", "failure")
        /\ Log(Event("task_executed", t, task'[t].version))
     \/ WriteRaises(t) /\ UNCHANGED <<task, ledger>>
  /\ UNCHANGED <<policy, keyOwner, spend, killSwitch, history, now, day>>

-----------------------------------------------------------------------------
(* Environment: operator, clock, process death (or cancellation). *)

SetKillSwitch(b) ==
  /\ killSwitch # b
  /\ killSwitch' = b
  /\ UNCHANGED <<policy, task, keyOwner, spend, ledger, call, history, now, day, faults>>

Tick ==
  /\ now < MaxTime
  /\ now' = now + 1
  /\ UNCHANGED <<policy, task, keyOwner, spend, killSwitch, ledger, call, history, day, faults>>

Midnight ==
  /\ day < MaxDay
  /\ day' = day + 1
  /\ UNCHANGED <<policy, task, keyOwner, spend, killSwitch, ledger, call, history, now, faults>>

\* Mutant: an appended event is not on disk yet.
CrashLosesEvent ==
  /\ Fault("crash")
  /\ call' = [t \in Tasks |-> NoCall]
  /\ \E e \in ledger : ledger' = ledger \ {e}
  /\ UNCHANGED <<policy, task, keyOwner, spend, killSwitch, history, now, day>>

Crash ==
  /\ Fault("crash")
  /\ call' = [t \in Tasks |-> NoCall]
  /\ UNCHANGED <<policy, task, keyOwner, spend, killSwitch, ledger, history, now, day>>

-----------------------------------------------------------------------------

Permission == \E p \in Policies :
  \/ RevokePolicy(p)
  \/ \E q \in PolicyTerms : CreatePolicy(p, q)

Creation == \E t \in Tasks, p \in Policies, k \in Keys :
  \/ CreateTask(t, p, k)
  \/ \E q \in PolicyTerms : Hire(t, p, k, q)

Return(t) == AdapterSucceeds(t) \/ AdapterFails(t) \/ AdapterRaises(t)
Continue(t) == InvokeAgent(t) \/ FinishSimulation(t) \/ BookSpend(t) \/ ConvertToFailed(t)

Execute(t) == \E v \in Values, inScope \in BOOLEAN :
  RejectExecute(t, v, inScope) \/ AllowWithoutEffect(t, v, inScope) \/ BeginExecute(t, v, inScope)

TaskStep(t) == Simulate(t) \/ Approve(t) \/ RevokeTask(t) \/ Execute(t) \/ Return(t) \/ Continue(t)

Environment == (\E b \in BOOLEAN : SetKillSwitch(b)) \/ Tick \/ Midnight \/ Crash

Next == Permission \/ Creation \/ (\E t \in Tasks : TaskStep(t)) \/ Environment

Spec == Init /\ [][Next]_vars

\* A handler that holds the loop runs on; an adapter's answer is eventually
\* delivered (DemoExecutionAdapter sleeps once, the remote call has a timeout)
\* and the event loop serves it although other handlers run in between.
Fairness == \A t \in Tasks : WF_vars(Continue(t)) /\ SF_vars(Return(t))

FairSpec == Spec /\ Fairness

\* Clients that never start an execution while another one is in flight.
OneCallAtATime ==
  \A t, u \in Tasks : call[t].stage # "none" /\ call[u].stage # "none" => t = u
SerialSpec == Init /\ [][Next /\ OneCallAtATime']_vars

-----------------------------------------------------------------------------
(* The lifecycle a client sees.  A handler between its commits is not visible *)
(* to other handlers: while the receipt of an answered execution is still     *)
(* being booked (or converted) the task counts as running.                    *)

PhaseOf ==
  [s \in TaskState \union {"absent"} |->
     CASE s \in {"draft", "simulated"} -> "open"
       [] s = "approval_required" -> "simulated"
       [] s = "executing" -> "running"
       [] s = "succeeded" -> "done"
       [] s = "revoked" -> "closed"
       [] s \in {"absent", "approved", "failed"} -> s]

Phase(t) ==
  IF call[t].stage \in {"await", "succeeded", "except"} THEN "running" ELSE PhaseOf[task[t].state]

Lifecycle == INSTANCE TaskLifecycle WITH
  phase <- [t \in Tasks |-> Phase(t)],
  owner <- [t \in Tasks |-> task[t].policy],
  withdrawn <- {p \in Policies : policy[p].revoked},
  approvals <- approved,
  dispatches <- dispatched

-----------------------------------------------------------------------------
(* Properties. *)

TypeOK ==
  /\ policy \in [Policies -> PolicyRow]
  /\ task \in [Tasks -> TaskRow]
  /\ keyOwner \in [Keys -> Tasks \union {NoTask}]
  /\ spend \in [Policies -> [Days -> Nat]]
  /\ killSwitch \in BOOLEAN
  /\ ledger \subseteq EventSet
  /\ call \in [Tasks -> CallRow]
  /\ approved \in [Tasks -> Nat] /\ dispatched \in [Tasks -> Nat] /\ booked \in [Tasks -> Nat]
  /\ now \in Nat /\ day \in Days /\ faults \in Nat

\* A handler in the middle of its work owns its task: the row is in the state
\* the handler left it in, at the version the handler holds (so the optimistic
\* lock of update_task never turns an answered execution into an error), and at
\* most one handler holds the event loop (service.py:simulate, execute).
OwnsTask(t) ==
  /\ call[t].stage # "none" => RowIsCurrent(t)
  /\ call[t].stage = "hired" => task[t].state = "draft"
  /\ call[t].stage = "simulated" => task[t].state = "simulated"
  /\ call[t].stage = "await" => task[t].state = "executing"
  /\ call[t].stage = "succeeded" => task[t].state = "succeeded"
  /\ call[t].stage = "except" => task[t].state \in {"executing", "succeeded"}

CallOwnsTask ==
  /\ \A t \in Tasks : OwnsTask(t)
  /\ \A t, u \in Tasks : call[t].stage \notin Yielded /\ call[u].stage \notin Yielded => t = u

\* One human approval authorises one call of the adapter, whatever retries,
\* crashes and failed writes happen in between (service.py:approve, execute).
OneDispatchPerApproval ==
  \A t \in Tasks :
    dispatched[t] + (IF task[t].state = "approved" THEN 1 ELSE 0) <= approved[t]

\* A task books its value against the daily cap at most once, and only a task
\* whose receipt is and stays a success has booked (service.py:216, add_spend).
BookedOnce ==
  \A t \in Tasks :
    /\ booked[t] <= 1
    /\ booked[t] = 1 => /\ task[t].state \in {"succeeded", "revoked"}
                               /\ task[t].receipt = "success"
                               /\ call[t].stage = "none"

\* Without failures every successful receipt has been booked once its handler
\* is over: nothing executed escapes the daily cap's bookkeeping.
SuccessIsBooked ==
  faults = 0 =>
    \A t \in Tasks :
      task[t].receipt = "success" /\ call[t].stage = "none" => booked[t] = 1

\* Nothing is executing unless the ledger already holds the gate's decision to
\* allow it (service.py:194-205: the append precedes the transition).
ExecutionIsDecided ==
  \A t \in Tasks :
    task[t].state = "executing" =>
      Event("risk_allowed", t, task[t].version - 1) \in ledger

KindOf ==
  [s \in TaskState \ {"simulated", "executing"} |->
     CASE s = "draft" -> "task_created"
       [] s = "approval_required" -> "task_simulated"
       [] s = "approved" -> "task_approved"
       [] s \in {"succeeded", "failed"} -> "task_executed"
       [] s = "revoked" -> "task_revoked"]

\* The ledger never runs ahead of the store: an event about a task names a
\* version the row has reached, and the event of the row's current version
\* names its current state, even if appends or writes fail.
LedgerFollowsStore ==
  \A e \in ledger :
    \A t \in Tasks :
      e.subject = t /\ e.kind \notin {"risk_allowed", "risk_rejected"} =>
        /\ e.version <= task[t].version
        /\ e.version = task[t].version =>
             /\ task[t].state \in DOMAIN KindOf
             /\ e.kind = KindOf[task[t].state]

\* Without failures the ledger is complete: the current version of every task at
\* rest has its event.
LedgerIsComplete ==
  faults = 0 =>
    \A t \in Tasks :
      call[t].stage = "none" /\ task[t].state \in DOMAIN KindOf =>
        Event(KindOf[task[t].state], t, task[t].version) \in ledger

\* What was simulated is what is approved and executed: a recorded simulation is
\* never renewed or replaced, not by a retry after a failure either.
SimulationIsFinal ==
  [][\A t \in Tasks :
       task[t].simUntil # 0 => task'[t].simUntil = task[t].simUntil]_vars

\* Revoking a policy is final: it stays revoked, and from then on the adapter is
\* never called for any of its tasks (service.py:revoke_policy, risk_gate.py:41).
RevocationIsFinal ==
  [][\A p \in Policies : policy[p].revoked =>
       /\ policy'[p].revoked
       /\ \A t \in Tasks :
            task[t].policy = p => dispatched'[t] = dispatched[t]]_vars

\* A revoked task is at rest: no handler that was already running moves its row,
\* calls the adapter for it or books for it afterwards.
RevokedTaskIsFinal ==
  [][\A t \in Tasks : task[t].state = "revoked" =>
       /\ task'[t] = task[t]
       /\ dispatched'[t] = dispatched[t]
       /\ booked'[t] = booked[t]]_vars

\* Every change of state is one of ALLOWED_TRANSITIONS (state_machine.py:6).
OnlyAllowedTransitions ==
  [][\A t \in Tasks :
       Exists(t) /\ task'[t].state # task[t].state
         => task'[t].state \in AllowedTransitions[task[t].state]]_vars

\* The daily cap (docs/03 invariant 3): the value booked on a day stays within it.
SpendWithinDailyCap ==
  \A p \in Policies, d \in Days : spend[p][d] <= policy[p].dailyValue

\* The core implements its promise: seen from outside a running handler, a task
\* lives the lifecycle of TaskLifecycle, whatever fails in between.
ImplementsLifecycle == Lifecycle!Spec

\* How far concurrent executions can overshoot the daily cap: by at most one
\* per-action cap for every further task of the policy.
OvershootIsBounded ==
  \A p \in Policies, d \in Days :
    spend[p][d] <= policy[p].dailyValue + (Cardinality(Tasks) - 1) * policy[p].maxValue

\* An execution does not remain in EXECUTING (service.py:217).
NeverStuckExecuting ==
  \A t \in Tasks : (task[t].state = "executing") ~> (task[t].state # "executing")

\* What is over stays over: a simulation is never renewed and a revoked task never
\* moved, by handlers that began before or retries that come after.
WhatIsOverStays == SimulationIsFinal /\ RevokedTaskIsFinal

\* Without failures what has happened is recorded: successes are booked, and rows have
\* their events.
EffectsAreRecorded == SuccessIsBooked /\ LedgerIsComplete

=============================================================================
