------------------------ MODULE TaskExecution_proofs ------------------------
(***************************************************************************)
(* Theorems about TaskExecution, for every value of its constants, and     *)
(* their proofs.                                                           *)
(***************************************************************************)
EXTENDS TaskExecution, TLAPS

-----------------------------------------------------------------------------
(* What the helpers of the model do. *)

\* update_task leaves row t in its new state at the next version, other rows alone.
LEMMA UpdateTaskEffect ==
  ASSUME TypeOK, NEW t \in Tasks, NEW s \in TaskState, NEW until \in Nat,
         NEW r \in {"none", "success", "failure"}, task' = UpdateTask(t, s, until, r)
  PROVE  /\ task' \in [Tasks -> TaskRow]
         /\ \A u \in Tasks : u # t => task'[u] = task[u]
         /\ task'[t].state = s
         /\ task'[t].version = task[t].version + 1
         /\ task'[t].policy = task[t].policy
         /\ task'[t].simUntil = until
         /\ task'[t].receipt = r
  <1> DEFINE row == [state |-> s, policy |-> task[t].policy, simUntil |-> until,
                     receipt |-> r, version |-> task[t].version + 1]
  <1>1. task \in [Tasks -> TaskRow] /\ task[t] \in TaskRow
    BY DEF TypeOK
  <1>2. row \in TaskRow
    BY <1>1 DEF TaskRow
  <1>3. task' = [task EXCEPT ![t] = row]
    BY DEF UpdateTask
  <1> HIDE DEF row
  <1>4. task'[t] = row
    BY <1>1, <1>3
  <1>5. /\ task' \in [Tasks -> TaskRow]
        /\ \A u \in Tasks : u # t => task'[u] = task[u]
    BY <1>1, <1>2, <1>3
  <1> QED BY <1>4, <1>5 DEF row

LEMMA UpdateEffect ==
  ASSUME TypeOK, NEW t \in Tasks, NEW s \in TaskState, task' = Update(t, s)
  PROVE  /\ task' \in [Tasks -> TaskRow]
         /\ \A u \in Tasks : u # t => task'[u] = task[u]
         /\ task'[t].state = s
         /\ task'[t].version = task[t].version + 1
         /\ task'[t].policy = task[t].policy
         /\ task'[t].simUntil = task[t].simUntil
         /\ task'[t].receipt = task[t].receipt
  <1>1. task[t].simUntil \in Nat /\ task[t].receipt \in {"none", "success", "failure"}
    BY DEF TypeOK, TaskRow
  <1> QED BY <1>1, UpdateTaskEffect DEF Update

LEMMA ReceiptEffect ==
  ASSUME TypeOK, NEW t \in Tasks, NEW s \in TaskState, NEW r \in {"none", "success", "failure"},
         task' = UpdateReceipt(t, s, r)
  PROVE  /\ task' \in [Tasks -> TaskRow]
         /\ \A u \in Tasks : u # t => task'[u] = task[u]
         /\ task'[t].state = s
         /\ task'[t].version = task[t].version + 1
         /\ task'[t].policy = task[t].policy
         /\ task'[t].simUntil = task[t].simUntil
         /\ task'[t].receipt = r
  <1>1. task[t].simUntil \in Nat
    BY DEF TypeOK, TaskRow
  <1> QED BY <1>1, UpdateTaskEffect DEF UpdateReceipt

\* A handler that goes on, or is over, changes its own call only.
LEMMA ResumeEffect ==
  ASSUME TypeOK, NEW t \in Tasks, NEW stage \in Stage, NEW n \in Nat, Resume(t, stage, n)
  PROVE  /\ call' \in [Tasks -> CallRow]
         /\ \A u \in Tasks : u # t => call'[u] = call[u]
         /\ call'[t].stage = stage
         /\ call'[t].value = call[t].value
         /\ call'[t].version = n
  <1> DEFINE row == [stage |-> stage, value |-> call[t].value, version |-> n]
  <1>1. call \in [Tasks -> CallRow] /\ call[t] \in CallRow
    BY DEF TypeOK
  <1>2. row \in CallRow
    BY <1>1 DEF CallRow
  <1>3. call' = [call EXCEPT ![t] = row]
    BY DEF Resume
  <1> HIDE DEF row
  <1>4. call'[t] = row
    BY <1>1, <1>3
  <1>5. /\ call' \in [Tasks -> CallRow]
        /\ \A u \in Tasks : u # t => call'[u] = call[u]
    BY <1>1, <1>2, <1>3
  <1> QED BY <1>4, <1>5 DEF row

LEMMA GotoEffect ==
  ASSUME TypeOK, NEW t \in Tasks, NEW stage \in Stage, task' \in [Tasks -> TaskRow],
         Goto(t, stage)
  PROVE  /\ call' \in [Tasks -> CallRow]
         /\ \A u \in Tasks : u # t => call'[u] = call[u]
         /\ call'[t].stage = stage
         /\ call'[t].value = call[t].value
         /\ call'[t].version = task'[t].version
  <1>1. task'[t].version \in Nat
    BY DEF TaskRow
  <1> QED BY <1>1, ResumeEffect DEF Goto

LEMMA RaiseEffect ==
  ASSUME TypeOK, NEW t \in Tasks, Raise(t)
  PROVE  /\ call' \in [Tasks -> CallRow]
         /\ \A u \in Tasks : u # t => call'[u] = call[u]
         /\ call'[t].stage = "except"
         /\ call'[t].version = call[t].version
  <1>1. call[t].version \in Nat /\ "except" \in Stage
    BY DEF TypeOK, CallRow, Stage
  <1> QED BY <1>1, ResumeEffect DEF Raise

LEMMA DoneEffect ==
  ASSUME TypeOK, NEW t \in Tasks, Done(t)
  PROVE  /\ call' \in [Tasks -> CallRow]
         /\ \A u \in Tasks : u # t => call'[u] = call[u]
         /\ call'[t] = NoCall
         /\ call'[t].stage = "none"
  BY DEF TypeOK, Done, NoCall, CallRow, Stage

\* Recording an event, or losing it, keeps the ledger a set of events and drops none.
LEMMA LogEffect ==
  ASSUME TypeOK, NEW e \in EventSet, Log(e)
  PROVE  /\ ledger' \subseteq EventSet
         /\ ledger \subseteq ledger' /\ ledger' \subseteq ledger \union {e}
         /\ faults' \in Nat
  BY DEF Log, Fault, TypeOK

LEMMA EventType ==
  ASSUME NEW kind \in EventKind, NEW x \in Tasks \union Policies, NEW n \in Nat
  PROVE  Event(kind, x, n) \in EventSet
  BY DEF Event, EventSet

LEMMA LogTask ==
  ASSUME TypeOK, NEW t \in Tasks, NEW kind \in EventKind, task' \in [Tasks -> TaskRow],
         Log(Event(kind, t, task'[t].version))
  PROVE  /\ ledger' \subseteq EventSet
         /\ ledger \subseteq ledger'
         /\ ledger' \subseteq ledger \union {Event(kind, t, task'[t].version)}
         /\ faults' \in Nat
  <1>1. task'[t].version \in Nat
    BY DEF TaskRow
  <1> QED BY <1>1, EventType, LogEffect

LEMMA WriteRaisesEffect ==
  ASSUME TypeOK, NEW t \in Tasks, WriteRaises(t)
  PROVE  faults' \in Nat
  BY DEF TypeOK, WriteRaises, Fault

LEMMA NewPolicyType ==
  ASSUME TypeOK, NEW q \in PolicyTerms
  PROVE  /\ NewPolicy(q) \in PolicyRow
         /\ NewPolicy([q EXCEPT !.human = TRUE]) \in PolicyRow
         /\ NewPolicy(q).dailyValue = q.dailyValue
         /\ NewPolicy([q EXCEPT !.human = TRUE]).dailyValue = q.dailyValue
         /\ ~NewPolicy(q).revoked /\ ~NewPolicy([q EXCEPT !.human = TRUE]).revoked
         /\ NewPolicy(q).exists /\ NewPolicy([q EXCEPT !.human = TRUE]).exists
  <1>1. q \in Terms
    BY ConstantsOK DEF ConstantsOK
  <1>2. [q EXCEPT !.human = TRUE] \in Terms
    BY <1>1 DEF Terms
  <1>3. [q EXCEPT !.human = TRUE].dailyValue = q.dailyValue
    BY <1>1 DEF Terms
  <1>4. now \in Nat
    BY DEF TypeOK
  <1> QED BY <1>1, <1>2, <1>3, <1>4 DEF NewPolicy, PolicyRow, Terms

LEMMA NewTaskType ==
  ASSUME NEW p \in Policies
  PROVE  /\ NewTask(p) \in TaskRow
         /\ NewTask(p) = [state |-> "draft", policy |-> p, simUntil |-> 0,
                          receipt |-> "none", version |-> 0]
  <1>1. NewTask(p) = [state |-> "draft", policy |-> p, simUntil |-> 0,
                      receipt |-> "none", version |-> 0]
    BY DEF NewTask
  <1> QED BY <1>1 DEF TaskRow, TaskState

-----------------------------------------------------------------------------
(* Types. *)

\* The rows, events, handlers and counters keep their types in every state.
THEOREM TypeCorrect == Spec => []TypeOK
  <1>1. Init => TypeOK
    <2> SUFFICES ASSUME Init PROVE TypeOK
      OBVIOUS
    <2> USE DEF Init
    <2>1. AbsentPolicy \in PolicyRow
      BY DEF AbsentPolicy, PolicyRow
    <2>2. AbsentTask \in TaskRow
      BY DEF AbsentTask, TaskRow
    <2>3. NoCall \in CallRow
      BY DEF NoCall, CallRow, Stage
    <2>4. 0 \in Days
      BY ConstantsOK DEF ConstantsOK, Days
    <2>5. policy \in [Policies -> PolicyRow] /\ task \in [Tasks -> TaskRow] /\ call \in [Tasks -> CallRow]
      BY <2>1, <2>2, <2>3
    <2>6. keyOwner \in [Keys -> Tasks \union {NoTask}] /\ spend \in [Policies -> [Days -> Nat]]
      OBVIOUS
    <2> QED BY <2>4, <2>5, <2>6 DEF TypeOK
  <1>2. TypeOK /\ [Next]_vars => TypeOK'
    <2> SUFFICES ASSUME TypeOK, [Next]_vars PROVE TypeOK'
      OBVIOUS
    <2>1. ASSUME NEW p \in Policies, RevokePolicy(p) PROVE TypeOK'
      <3>1. Event("permission_revoked", p, 0) \in EventSet
        BY EventType DEF EventKind
      <3>2. policy' \in [Policies -> PolicyRow]
        BY <2>1 DEF RevokePolicy, PolicyRow, TypeOK
      <3> QED BY <2>1, <3>1, <3>2, LogEffect DEF RevokePolicy, TypeOK, history
    <2>2. ASSUME NEW p \in Policies, NEW q \in PolicyTerms, CreatePolicy(p, q) PROVE TypeOK'
      <3>1. Event("permission_created", p, 0) \in EventSet
        BY EventType DEF EventKind
      <3>2. policy' \in [Policies -> PolicyRow]
        BY <2>2, NewPolicyType DEF CreatePolicy, TypeOK
      <3> QED BY <2>2, <3>1, <3>2, LogEffect DEF CreatePolicy, TypeOK, history
    <2>3. ASSUME NEW t \in Tasks, NEW p \in Policies, NEW k \in Keys, CreateTask(t, p, k)
          PROVE TypeOK'
      <3>1. Event("task_created", t, 0) \in EventSet
        BY EventType DEF EventKind
      <3>2. task' \in [Tasks -> TaskRow] /\ keyOwner' \in [Keys -> Tasks \union {NoTask}]
        BY <2>3, NewTaskType DEF CreateTask, TypeOK
      <3> QED BY <2>3, <3>1, <3>2, LogEffect DEF CreateTask, TypeOK, history
    <2>4. ASSUME NEW t \in Tasks, NEW p \in Policies, NEW k \in Keys, NEW q \in PolicyTerms,
                 Hire(t, p, k, q)
          PROVE TypeOK'
      <3>1. Event("task_created", t, 0) \in EventSet /\ Event("permission_created", p, 0) \in EventSet
        BY EventType DEF EventKind
      <3>2. policy' \in [Policies -> PolicyRow]
        BY <2>4, NewPolicyType DEF Hire, TypeOK
      <3>3. CASE keyOwner[k] # NoTask
        <4>1. UNCHANGED <<task, keyOwner, call>> /\ ledger' = ledger \union {Event("permission_created", p, 0)}
          BY <2>4, <3>3 DEF Hire
        <4> QED BY <2>4, <3>1, <3>2, <4>1 DEF Hire, TypeOK, history
      <3>4. CASE keyOwner[k] = NoTask
        <4>1. /\ task' = [task EXCEPT ![t] = NewTask(p)]
              /\ keyOwner' = [keyOwner EXCEPT ![k] = t]
              /\ ledger' = ledger \union {Event("permission_created", p, 0), Event("task_created", t, 0)}
              /\ Goto(t, "hired")
          BY <2>4, <3>4 DEF Hire
        <4>2. task' \in [Tasks -> TaskRow] /\ keyOwner' \in [Keys -> Tasks \union {NoTask}]
          BY <4>1, NewTaskType DEF TypeOK
        <4>3. call' \in [Tasks -> CallRow]
          BY <4>1, <4>2, GotoEffect DEF Stage
        <4> QED BY <2>4, <3>1, <3>2, <4>1, <4>2, <4>3 DEF Hire, TypeOK, history
      <3> QED BY <3>3, <3>4
    <2>5. ASSUME NEW t \in Tasks, RecordSimulation(t)
          PROVE task' \in [Tasks -> TaskRow] /\ call' \in [Tasks -> CallRow]
      <3>1. now + SimulationTTL \in Nat /\ task[t].receipt \in {"none", "success", "failure"}
        BY ConstantsOK DEF ConstantsOK, TypeOK, TaskRow
      <3>2. task' \in [Tasks -> TaskRow]
        BY <2>5, <3>1, UpdateTaskEffect DEF RecordSimulation, TaskState
      <3> QED BY <2>5, <3>2, GotoEffect DEF RecordSimulation, Stage
    <2>6. ASSUME NEW t \in Tasks, Simulate(t) PROVE TypeOK'
      BY <2>5, <2>6 DEF Simulate, TypeOK, history
    <2>7. ASSUME NEW t \in Tasks, InvokeAgent(t) PROVE TypeOK'
      <3>1. task' \in [Tasks -> TaskRow] /\ call' \in [Tasks -> CallRow]
        BY <2>5, <2>7, DoneEffect DEF InvokeAgent, TypeOK
      <3> QED BY <2>7, <3>1 DEF InvokeAgent, TypeOK, history
    <2>8. ASSUME NEW t \in Tasks, FinishSimulation(t) PROVE TypeOK'
      <3>1. call' \in [Tasks -> CallRow]
        BY <2>8, DoneEffect DEF FinishSimulation
      <3>2. task' \in [Tasks -> TaskRow] /\ ledger' \subseteq EventSet /\ faults' \in Nat
        BY <2>8, UpdateEffect, LogTask, WriteRaisesEffect
           DEF FinishSimulation, TaskState, EventKind, TypeOK
      <3> QED BY <2>8, <3>1, <3>2 DEF FinishSimulation, TypeOK, history
    <2>9. ASSUME NEW t \in Tasks, Approve(t) PROVE TypeOK'
      <3>1. task' \in [Tasks -> TaskRow]
        BY <2>9, UpdateEffect DEF Approve, TaskState
      <3>2. ledger' \subseteq EventSet /\ faults' \in Nat
        BY <2>9, <3>1, LogTask DEF Approve, EventKind
      <3>3. approved' \in [Tasks -> Nat]
        BY <2>9 DEF Approve, TypeOK
      <3> QED BY <2>9, <3>1, <3>2, <3>3 DEF Approve, TypeOK
    <2>10. ASSUME NEW t \in Tasks, RevokeTask(t) PROVE TypeOK'
      <3>1. task' \in [Tasks -> TaskRow]
        BY <2>10, UpdateEffect DEF RevokeTask, TaskState
      <3>2. ledger' \subseteq EventSet /\ faults' \in Nat
        BY <2>10, <3>1, LogTask DEF RevokeTask, EventKind
      <3> QED BY <2>10, <3>1, <3>2 DEF RevokeTask, TypeOK, history
    <2>11. ASSUME NEW t \in Tasks, NEW v \in Values, NEW b \in BOOLEAN, RejectExecute(t, v, b)
           PROVE TypeOK'
      <3>1. Event("risk_rejected", t, 0) \in EventSet
        BY EventType DEF EventKind
      <3> QED BY <2>11, <3>1 DEF RejectExecute, TypeOK, history
    <2>12. ASSUME NEW t \in Tasks
           PROVE Event("risk_allowed", t, task[t].version) \in EventSet
      <3>1. task[t].version \in Nat
        BY DEF TypeOK, TaskRow
      <3> QED BY <3>1, EventType DEF EventKind
    <2>13. ASSUME NEW t \in Tasks, NEW v \in Values, NEW b \in BOOLEAN, AllowWithoutEffect(t, v, b)
           PROVE TypeOK'
      <3>1. faults' \in Nat
        BY <2>13 DEF AllowWithoutEffect, Fault, TypeOK
      <3>2. ledger' \subseteq EventSet
        BY <2>12, <2>13 DEF AllowWithoutEffect, TypeOK
      <3> QED BY <2>13, <3>1, <3>2 DEF AllowWithoutEffect, TypeOK, history
    <2>14. ASSUME NEW t \in Tasks, NEW v \in Values, NEW b \in BOOLEAN, BeginExecute(t, v, b)
           PROVE TypeOK'
      <3>1. task' \in [Tasks -> TaskRow]
        BY <2>14, UpdateEffect DEF BeginExecute, TaskState
      <3>2. task'[t].version \in Nat /\ v \in Nat
        BY <3>1, ConstantsOK DEF TaskRow, ConstantsOK
      <3>3. [stage |-> "await", value |-> v, version |-> task'[t].version] \in CallRow
        BY <3>2 DEF CallRow, Stage
      <3>4. call' \in [Tasks -> CallRow] /\ dispatched' \in [Tasks -> Nat]
        BY <2>14, <3>3 DEF BeginExecute, TypeOK
      <3>5. ledger' \subseteq EventSet
        BY <2>12, <2>14 DEF BeginExecute, TypeOK
      <3> QED BY <2>14, <3>1, <3>4, <3>5 DEF BeginExecute, TypeOK
    <2>15. ASSUME NEW t \in Tasks, AdapterSucceeds(t) PROVE TypeOK'
      <3>1. task' \in [Tasks -> TaskRow]
        BY <2>15, ReceiptEffect DEF AdapterSucceeds, TaskState, TypeOK
      <3>2. call' \in [Tasks -> CallRow]
        BY <2>15, <3>1, GotoEffect, RaiseEffect DEF AdapterSucceeds, Stage
      <3>3. faults' \in Nat
        BY <2>15, WriteRaisesEffect DEF AdapterSucceeds, TypeOK
      <3> QED BY <2>15, <3>1, <3>2, <3>3 DEF AdapterSucceeds, TypeOK, history
    <2>16. ASSUME NEW t \in Tasks, AdapterFails(t) PROVE TypeOK'
      <3>1. task' \in [Tasks -> TaskRow]
        BY <2>16, ReceiptEffect DEF AdapterFails, TaskState, TypeOK
      <3>2. call' \in [Tasks -> CallRow]
        BY <2>16, DoneEffect, RaiseEffect DEF AdapterFails
      <3>3. ledger' \subseteq EventSet /\ faults' \in Nat
        BY <2>16, <3>1, LogTask, WriteRaisesEffect DEF AdapterFails, EventKind, TypeOK
      <3> QED BY <2>16, <3>1, <3>2, <3>3 DEF AdapterFails, TypeOK, history
    <2>17. ASSUME NEW t \in Tasks, AdapterRaises(t) PROVE TypeOK'
      BY <2>17, RaiseEffect DEF AdapterRaises, TypeOK, history
    <2>18. ASSUME NEW t \in Tasks, BookSpend(t) PROVE TypeOK'
      <3>1. call' \in [Tasks -> CallRow]
        BY <2>18, DoneEffect, RaiseEffect DEF BookSpend
      <3>2. Event("task_executed", t, task[t].version) \in EventSet
        <4>1. task[t].version \in Nat
          BY DEF TypeOK, TaskRow
        <4> QED BY <4>1, EventType DEF EventKind
      <3>3. ledger' \subseteq EventSet /\ faults' \in Nat
        BY <2>18, <3>2, LogEffect DEF BookSpend, Fault, TypeOK
      <3>4. booked' \in [Tasks -> Nat]
        BY <2>18 DEF BookSpend, TypeOK
      <3>5. spend' \in [Policies -> [Days -> Nat]]
        <4>1. CASE spend' = spend
          BY <4>1 DEF TypeOK
        <4>2. CASE spend' = [spend EXCEPT ![task[t].policy][day] = @ + call[t].value]
          <5>1. CASE task[t].policy \in Policies
            <6>1. spend[task[t].policy][day] + call[t].value \in Nat
              BY <5>1 DEF TypeOK, CallRow
            <6> QED BY <4>2, <5>1, <6>1 DEF TypeOK
          <5>2. CASE task[t].policy \notin Policies
            BY <4>2, <5>2 DEF TypeOK
          <5> QED BY <5>1, <5>2
        <4> QED BY <2>18, <4>1, <4>2 DEF BookSpend
      <3> QED BY <2>18, <3>1, <3>3, <3>4, <3>5 DEF BookSpend, TypeOK
    <2>19. ASSUME NEW t \in Tasks, ConvertToFailed(t) PROVE TypeOK'
      <3>1. task' \in [Tasks -> TaskRow]
        BY <2>19, ReceiptEffect DEF ConvertToFailed, TaskState, TypeOK
      <3>2. call' \in [Tasks -> CallRow]
        BY <2>19, DoneEffect DEF ConvertToFailed
      <3>3. ledger' \subseteq EventSet /\ faults' \in Nat
        BY <2>19, <3>1, LogTask, WriteRaisesEffect DEF ConvertToFailed, EventKind, TypeOK
      <3> QED BY <2>19, <3>1, <3>2, <3>3 DEF ConvertToFailed, TypeOK, history
    <2>20. CASE Environment
      <3>1. ASSUME NEW b \in BOOLEAN, SetKillSwitch(b) PROVE TypeOK'
        BY <3>1 DEF SetKillSwitch, TypeOK, history
      <3>2. CASE Tick
        BY <3>2 DEF Tick, TypeOK, history
      <3>3. CASE Midnight
        <4>1. day' \in Days
          BY <3>3, ConstantsOK DEF Midnight, Days, TypeOK, ConstantsOK
        <4> QED BY <3>3, <4>1 DEF Midnight, TypeOK, history
      <3>4. CASE Crash
        <4>1. NoCall \in CallRow
          BY DEF NoCall, CallRow, Stage
        <4> QED BY <3>4, <4>1 DEF Crash, Fault, TypeOK, history
      <3> QED BY <2>20, <3>1, <3>2, <3>3, <3>4 DEF Environment
    <2>21. CASE UNCHANGED vars
      BY <2>21 DEF vars, history, TypeOK
    <2> QED
      BY <2>1, <2>2, <2>3, <2>4, <2>6, <2>7, <2>8, <2>9, <2>10, <2>11, <2>13, <2>14, <2>15,
         <2>16, <2>17, <2>18, <2>19, <2>20, <2>21
         DEF Next, Permission, Creation, TaskStep, Execute, Return, Continue
  <1> QED BY <1>1, <1>2, PTL DEF Spec

-----------------------------------------------------------------------------
(* Handlers own their tasks. *)

\* Which states the transition table lets a task leave for a given state.
LEMMA Transitions ==
  ASSUME TypeOK, NEW t \in Tasks
  PROVE  /\ MayBecome(t, "simulated") => task[t].state = "draft"
         /\ MayBecome(t, "approved") => task[t].state \in {"approval_required", "failed"}
         /\ MayBecome(t, "executing") => task[t].state = "approved"
         /\ MayBecome(t, "revoked") => task[t].state \notin {"executing", "revoked", "absent"}
  <1>1. task[t].state \in TaskState \union {"absent"}
    BY DEF TypeOK, TaskRow
  <1>2. Exists(t) => task[t].state \in TaskState
    BY <1>1 DEF Exists
  <1> QED BY <1>2 DEF MayBecome, AllowedTransitions, TaskState, Exists

\* A step that touches one task and its handler, and leaves at most that handler
\* holding the loop, keeps every handler the owner of its task.
LEMMA OwnershipKept ==
  ASSUME CallOwnsTask, NEW t \in Tasks,
         \A u \in Tasks : u # t => task'[u] = task[u] /\ call'[u] = call[u],
         OwnsTask(t)',
         call'[t].stage \in Yielded \/ \A u \in Tasks : u # t => call[u].stage \in Yielded
  PROVE  CallOwnsTask'
  <1>1. ASSUME NEW u \in Tasks PROVE OwnsTask(u)'
    BY <1>1 DEF CallOwnsTask, OwnsTask, RowIsCurrent
  <1>2. ASSUME NEW u \in Tasks, NEW w \in Tasks,
               call'[u].stage \notin Yielded, call'[w].stage \notin Yielded
        PROVE u = w
    BY <1>2 DEF CallOwnsTask
  <1> QED BY <1>1, <1>2 DEF CallOwnsTask, Yielded

\* Every handler owns the task it works on; its compare-and-set never conflicts.
THEOREM CallsOwnTheirTasks == Spec => []CallOwnsTask
  <1>1. Init => CallOwnsTask
    BY DEF Init, CallOwnsTask, OwnsTask, NoCall, Yielded
  <1>2. TypeOK /\ TypeOK' /\ CallOwnsTask /\ [Next]_vars => CallOwnsTask'
    <2> SUFFICES ASSUME TypeOK, TypeOK', CallOwnsTask, [Next]_vars PROVE CallOwnsTask'
      OBVIOUS
    <2>1. ASSUME NEW t \in Tasks PROVE OwnsTask(t)
      BY DEF CallOwnsTask
    <2>2. ASSUME UNCHANGED <<task, call>> PROVE CallOwnsTask'
      BY <2>2 DEF CallOwnsTask, OwnsTask, RowIsCurrent
    <2>3. ASSUME NEW t \in Tasks, call[t].stage \notin Yielded
          PROVE \A u \in Tasks : u # t => call[u].stage \in Yielded
      BY <2>3 DEF CallOwnsTask
    <2>4. ASSUME NEW t \in Tasks, call[t].stage = "none", UNCHANGED call,
                 \A u \in Tasks : u # t => task'[u] = task[u]
          PROVE CallOwnsTask'
      <3>1. OwnsTask(t)'
        BY <2>4 DEF OwnsTask
      <3> QED BY <2>4, <3>1, OwnershipKept DEF Yielded
    <2>5. ASSUME NEW t \in Tasks, LoopFree, task[t].state # "executing" PROVE call[t].stage = "none"
      BY <2>1, <2>5 DEF LoopFree, Yielded, OwnsTask
    <2>6. ASSUME NEW t \in Tasks, NEW p \in Policies, NEW k \in Keys, CreateTask(t, p, k)
          PROVE CallOwnsTask'
      <3>1. task[t].state = "absent"
        BY <2>6 DEF CreateTask, Exists
      <3>2. \A u \in Tasks : u # t => task'[u] = task[u]
        BY <2>6 DEF CreateTask, TypeOK
      <3> QED BY <2>4, <2>5, <2>6, <3>1, <3>2 DEF CreateTask
    <2>7. ASSUME NEW t \in Tasks, NEW p \in Policies, NEW k \in Keys, NEW q \in PolicyTerms,
                 Hire(t, p, k, q)
          PROVE CallOwnsTask'
      <3>1. CASE UNCHANGED <<task, keyOwner, call>>
        BY <2>2, <3>1
      <3>2. CASE task' = [task EXCEPT ![t] = NewTask(p)] /\ Goto(t, "hired")
        <4>1. task'[t] = NewTask(p) /\ \A u \in Tasks : u # t => task'[u] = task[u]
          BY <3>2 DEF TypeOK
        <4>2. task'[t].state = "draft"
          BY <4>1, NewTaskType
        <4>3. /\ \A u \in Tasks : u # t => call'[u] = call[u]
              /\ call'[t].stage = "hired" /\ call'[t].version = task'[t].version
          BY <3>2, GotoEffect DEF Stage, TypeOK
        <4>4. OwnsTask(t)'
          BY <4>2, <4>3 DEF OwnsTask, RowIsCurrent
        <4>5. LoopFree
          BY <2>7 DEF Hire
        <4> QED BY <4>1, <4>3, <4>4, <4>5, OwnershipKept DEF LoopFree
      <3> QED BY <2>7, <3>1, <3>2 DEF Hire
    <2>8. ASSUME NEW t \in Tasks, RecordSimulation(t),
                 \A u \in Tasks : u # t => call[u].stage \in Yielded
          PROVE CallOwnsTask'
      <3>1. now + SimulationTTL \in Nat /\ task[t].receipt \in {"none", "success", "failure"}
        BY ConstantsOK DEF ConstantsOK, TypeOK, TaskRow
      <3>2. task'[t].state = "simulated" /\ \A u \in Tasks : u # t => task'[u] = task[u]
        BY <2>8, <3>1, UpdateTaskEffect DEF RecordSimulation, TaskState
      <3>3. /\ \A u \in Tasks : u # t => call'[u] = call[u]
            /\ call'[t].stage = "simulated" /\ call'[t].version = task'[t].version
        BY <2>8, GotoEffect DEF RecordSimulation, Stage, TypeOK
      <3>4. OwnsTask(t)'
        BY <3>2, <3>3 DEF OwnsTask, RowIsCurrent
      <3> QED BY <2>8, <3>2, <3>3, <3>4, OwnershipKept
    <2>9. ASSUME NEW t \in Tasks, Simulate(t) PROVE CallOwnsTask'
      BY <2>8, <2>9 DEF Simulate, LoopFree
    <2>10. ASSUME NEW t \in Tasks, Done(t), \A u \in Tasks : u # t => task'[u] = task[u]
           PROVE CallOwnsTask'
      <3>1. call'[t].stage = "none" /\ \A u \in Tasks : u # t => call'[u] = call[u]
        BY <2>10, DoneEffect
      <3>2. OwnsTask(t)'
        BY <3>1 DEF OwnsTask
      <3> QED BY <2>10, <3>1, <3>2, OwnershipKept DEF Yielded
    <2>11. ASSUME NEW t \in Tasks, InvokeAgent(t) PROVE CallOwnsTask'
      <3>1. call[t].stage \notin Yielded
        BY <2>11 DEF InvokeAgent, Yielded
      <3> QED BY <2>3, <2>8, <2>10, <2>11, <3>1 DEF InvokeAgent
    <2>12. ASSUME NEW t \in Tasks, FinishSimulation(t) PROVE CallOwnsTask'
      <3>1. \A u \in Tasks : u # t => task'[u] = task[u]
        BY <2>12, UpdateEffect DEF FinishSimulation, TaskState
      <3> QED BY <2>10, <2>12, <3>1 DEF FinishSimulation
    <2>13. ASSUME NEW t \in Tasks, Approve(t) PROVE CallOwnsTask'
      <3>1. task[t].state # "executing"
        BY <2>13, Transitions DEF Approve
      <3>2. \A u \in Tasks : u # t => task'[u] = task[u]
        BY <2>13, UpdateEffect DEF Approve, TaskState
      <3> QED BY <2>4, <2>5, <2>13, <3>1, <3>2 DEF Approve
    <2>14. ASSUME NEW t \in Tasks, RevokeTask(t) PROVE CallOwnsTask'
      <3>1. task[t].state # "executing"
        BY <2>14, Transitions DEF RevokeTask
      <3>2. \A u \in Tasks : u # t => task'[u] = task[u]
        BY <2>14, UpdateEffect DEF RevokeTask, TaskState
      <3> QED BY <2>4, <2>5, <2>14, <3>1, <3>2 DEF RevokeTask
    <2>15. ASSUME NEW t \in Tasks, NEW v \in Values, NEW b \in BOOLEAN, BeginExecute(t, v, b)
           PROVE CallOwnsTask'
      <3>1. task'[t].state = "executing" /\ \A u \in Tasks : u # t => task'[u] = task[u]
        BY <2>15, UpdateEffect DEF BeginExecute, TaskState
      <3>2. /\ call'[t] = [stage |-> "await", value |-> v, version |-> task'[t].version]
            /\ \A u \in Tasks : u # t => call'[u] = call[u]
        BY <2>15 DEF BeginExecute, TypeOK
      <3>3. OwnsTask(t)'
        BY <3>1, <3>2 DEF OwnsTask, RowIsCurrent
      <3> QED BY <3>1, <3>2, <3>3, OwnershipKept DEF Yielded
    <2>16. ASSUME NEW t \in Tasks, Raise(t), UNCHANGED task,
                  task[t].state \in {"executing", "succeeded"}, RowIsCurrent(t),
                  \A u \in Tasks : u # t => call[u].stage \in Yielded
           PROVE CallOwnsTask'
      <3>1. /\ \A u \in Tasks : u # t => call'[u] = call[u]
            /\ call'[t].stage = "except" /\ call'[t].version = call[t].version
        BY <2>16, RaiseEffect
      <3>2. OwnsTask(t)'
        BY <2>16, <3>1 DEF OwnsTask, RowIsCurrent
      <3> QED BY <2>16, <3>1, <3>2, OwnershipKept
    <2>17. ASSUME NEW t \in Tasks, LoopFree, call[t].stage = "await"
           PROVE /\ task[t].state = "executing" /\ RowIsCurrent(t)
                 /\ \A u \in Tasks : u # t => call[u].stage \in Yielded
      BY <2>1, <2>17 DEF OwnsTask, LoopFree
    <2>18. ASSUME NEW t \in Tasks, AdapterSucceeds(t) PROVE CallOwnsTask'
      <3>1. CASE task' = UpdateReceipt(t, "succeeded", "success") /\ Goto(t, "succeeded")
        <4>1. task'[t].state = "succeeded" /\ \A u \in Tasks : u # t => task'[u] = task[u]
          BY <3>1, ReceiptEffect DEF TaskState
        <4>2. /\ \A u \in Tasks : u # t => call'[u] = call[u]
              /\ call'[t].stage = "succeeded" /\ call'[t].version = task'[t].version
          BY <3>1, GotoEffect DEF Stage, TypeOK
        <4>3. OwnsTask(t)'
          BY <4>1, <4>2 DEF OwnsTask, RowIsCurrent
        <4> QED BY <2>17, <2>18, <4>1, <4>2, <4>3, OwnershipKept DEF AdapterSucceeds
      <3>2. CASE Raise(t) /\ UNCHANGED task
        BY <2>16, <2>17, <2>18, <3>2 DEF AdapterSucceeds
      <3> QED BY <2>18, <3>1, <3>2 DEF AdapterSucceeds
    <2>19. ASSUME NEW t \in Tasks, AdapterFails(t) PROVE CallOwnsTask'
      <3>1. CASE task' = UpdateReceipt(t, "failed", "failure") /\ Done(t)
        <4>1. \A u \in Tasks : u # t => task'[u] = task[u]
          BY <3>1, ReceiptEffect DEF TaskState
        <4> QED BY <2>10, <3>1, <4>1
      <3>2. CASE Raise(t) /\ UNCHANGED task
        BY <2>16, <2>17, <2>19, <3>2 DEF AdapterFails
      <3> QED BY <2>19, <3>1, <3>2 DEF AdapterFails
    <2>20. ASSUME NEW t \in Tasks, AdapterRaises(t) PROVE CallOwnsTask'
      BY <2>16, <2>17, <2>20 DEF AdapterRaises
    <2>21. ASSUME NEW t \in Tasks, BookSpend(t) PROVE CallOwnsTask'
      <3>1. /\ task[t].state = "succeeded" /\ RowIsCurrent(t)
            /\ \A u \in Tasks : u # t => call[u].stage \in Yielded
        BY <2>1, <2>3, <2>21 DEF BookSpend, OwnsTask, Yielded
      <3> QED BY <2>10, <2>16, <2>21, <3>1 DEF BookSpend
    <2>22. ASSUME NEW t \in Tasks, ConvertToFailed(t) PROVE CallOwnsTask'
      <3>1. \A u \in Tasks : u # t => task'[u] = task[u]
        BY <2>22, ReceiptEffect DEF ConvertToFailed, TaskState
      <3> QED BY <2>10, <2>22, <3>1 DEF ConvertToFailed
    <2>23. CASE Crash
      BY <2>23 DEF Crash, CallOwnsTask, OwnsTask, NoCall, Yielded
    <2>24. CASE Permission
      BY <2>2, <2>24 DEF Permission, RevokePolicy, CreatePolicy
    <2>25. ASSUME NEW t \in Tasks, NEW v \in Values, NEW b \in BOOLEAN,
                  RejectExecute(t, v, b) \/ AllowWithoutEffect(t, v, b)
           PROVE CallOwnsTask'
      BY <2>2, <2>25 DEF RejectExecute, AllowWithoutEffect
    <2>26. CASE Environment
      BY <2>2, <2>23, <2>26 DEF Environment, SetKillSwitch, Tick, Midnight
    <2>27. CASE UNCHANGED vars
      BY <2>2, <2>27 DEF vars
    <2> QED
      BY <2>6, <2>7, <2>9, <2>11, <2>12, <2>13, <2>14, <2>15, <2>18, <2>19, <2>20, <2>21,
         <2>22, <2>24, <2>25, <2>26, <2>27
         DEF Next, Creation, TaskStep, Execute, Return, Continue
  <1> QED BY <1>1, <1>2, TypeCorrect, PTL DEF Spec

-----------------------------------------------------------------------------
(* What one step may do to one task.  The theorems that follow only look at  *)
(* these cases.                                                              *)

\* The row of t is rewritten by update_task.
Wrote(t, s, until, r) ==
  /\ task'[t].state = s
  /\ task'[t].version = task[t].version + 1
  /\ task'[t].policy = task[t].policy
  /\ task'[t].simUntil = until
  /\ task'[t].receipt = r

Untouched(t) ==
  /\ task'[t] = task[t] /\ call'[t] = call[t]
  /\ approved'[t] = approved[t] /\ dispatched'[t] = dispatched[t] /\ booked'[t] = booked[t]

Counted(t, a, d, b) ==
  approved'[t] = approved[t] + a /\ dispatched'[t] = dispatched[t] + d /\ booked'[t] = booked[t] + b

\* The row stays; the handler of t ends, or enters the except branch.
HandlerMoved(t) ==
  /\ task'[t] = task[t] /\ Counted(t, 0, 0, 0)
  /\ \/ call'[t].stage = "none"
     \/ call'[t].stage = "except" /\ call[t].stage \in {"await", "succeeded"}

Booked(t) ==
  /\ task'[t] = task[t] /\ Counted(t, 0, 0, 1)
  /\ call[t].stage = "succeeded" /\ call'[t].stage = "none"

Created(t) ==
  /\ task[t].state = "absent" /\ Counted(t, 0, 0, 0)
  /\ \E p \in Policies : task'[t] = NewTask(p) /\ policy'[p].exists
  /\ call'[t].stage \in {"none", "hired"}

Simulated(t) ==
  /\ task[t].state = "draft" /\ Counted(t, 0, 0, 0)
  /\ Wrote(t, "simulated", now + SimulationTTL, task[t].receipt)
  /\ call'[t].stage = "simulated"

Presented(t) ==
  /\ task[t].state = "simulated" /\ Counted(t, 0, 0, 0)
  /\ Wrote(t, "approval_required", task[t].simUntil, task[t].receipt)
  /\ call'[t].stage = "none"

Approved(t) ==
  /\ task[t].state \in {"approval_required", "failed"} /\ Counted(t, 1, 0, 0)
  /\ Wrote(t, "approved", task[t].simUntil, task[t].receipt)
  /\ call[t].stage = "none" /\ call'[t].stage = "none"

Revoked(t) ==
  /\ task[t].state \notin {"absent", "executing", "revoked"} /\ Counted(t, 0, 0, 0)
  /\ Wrote(t, "revoked", task[t].simUntil, task[t].receipt)
  /\ call[t].stage = "none" /\ call'[t].stage = "none"

Dispatched(t) ==
  /\ task[t].state = "approved" /\ Counted(t, 0, 1, 0)
  /\ Wrote(t, "executing", task[t].simUntil, task[t].receipt)
  /\ call[t].stage = "none" /\ call'[t].stage = "await"
  /\ Event("risk_allowed", t, task[t].version) \in ledger'
  /\ ~policy[task[t].policy].revoked
  /\ call'[t].value <= policy[task[t].policy].maxValue
  /\ spend[task[t].policy][day] + call'[t].value <= policy[task[t].policy].dailyValue

Succeeded(t) ==
  /\ task[t].state = "executing" /\ Counted(t, 0, 0, 0)
  /\ Wrote(t, "succeeded", task[t].simUntil, "success")
  /\ call[t].stage = "await" /\ call'[t].stage = "succeeded" /\ call'[t].value = call[t].value

Failed(t) ==
  /\ task[t].state \in {"executing", "succeeded"} /\ Counted(t, 0, 0, 0)
  /\ Wrote(t, "failed", task[t].simUntil, "failure")
  /\ call[t].stage \in {"await", "except"} /\ call'[t].stage = "none"

RowStep(t) ==
  \/ Untouched(t) \/ HandlerMoved(t) \/ Booked(t) \/ Created(t) \/ Simulated(t)
  \/ Presented(t) \/ Approved(t) \/ Revoked(t) \/ Dispatched(t) \/ Succeeded(t) \/ Failed(t)

LEMMA RowSteps ==
  ASSUME TypeOK, CallOwnsTask, [Next]_vars, NEW t \in Tasks
  PROVE  RowStep(t)
  <1> USE DEF history
  <1>1. /\ approved[t] \in Nat /\ dispatched[t] \in Nat /\ booked[t] \in Nat
        /\ OwnsTask(t)
    BY DEF TypeOK, CallOwnsTask
  <1>2. ASSUME UNCHANGED <<task, call, approved, dispatched, booked>> PROVE RowStep(t)
    BY <1>2 DEF RowStep, Untouched
  <1>3. ASSUME UNCHANGED history PROVE Counted(t, 0, 0, 0)
    BY <1>1, <1>3 DEF Counted
  <1>4. CASE Permission
    BY <1>2, <1>4 DEF Permission, RevokePolicy, CreatePolicy
  <1>5. CASE UNCHANGED vars
    BY <1>2, <1>5 DEF vars
  <1>6. CASE Environment
    <2>1. CASE Crash
      <3>1. task'[t] = task[t] /\ call'[t].stage = "none"
        BY <2>1 DEF Crash, NoCall
      <3> QED BY <1>3, <2>1, <3>1 DEF Crash, RowStep, HandlerMoved
    <2> QED BY <1>2, <1>6, <2>1 DEF Environment, SetKillSwitch, Tick, Midnight
  <1>7. ASSUME LoopFree, task[t].state # "executing" PROVE call[t].stage = "none"
    BY <1>1, <1>7 DEF LoopFree, Yielded, OwnsTask
  <1>8. CASE Creation
    <2>1. PICK u \in Tasks, p \in Policies, k \in Keys :
            CreateTask(u, p, k) \/ \E q \in PolicyTerms : Hire(u, p, k, q)
      BY <1>8 DEF Creation
    <2>2. task[u].state = "absent" /\ LoopFree /\ UNCHANGED history
      BY <2>1 DEF CreateTask, Hire, Exists
    <2>3. CASE UNCHANGED <<task, call>>
      BY <1>2, <2>2, <2>3
    <2>4. CASE task' = [task EXCEPT ![u] = NewTask(p)] /\ (Goto(u, "hired") \/ UNCHANGED call)
      <3>1. task'[u] = NewTask(p) /\ \A w \in Tasks : w # u => task'[w] = task[w]
        BY <2>4 DEF TypeOK
      <3>2. task' \in [Tasks -> TaskRow]
        BY <2>4, NewTaskType DEF TypeOK
      <3>3. \A w \in Tasks : w # u => call'[w] = call[w]
        BY <2>4, <3>2, GotoEffect DEF Stage
      <3>4. CASE u = t
        <4>1. call'[t].stage \in {"none", "hired"}
          BY <1>7, <2>2, <2>4, <3>2, <3>4, GotoEffect DEF Stage
        <4>2. policy'[p].exists
          BY <2>1, NewPolicyType DEF CreateTask, Hire, TypeOK
        <4> QED BY <1>3, <2>2, <3>1, <3>4, <4>1, <4>2 DEF RowStep, Created
      <3>5. CASE u # t
        BY <2>2, <3>1, <3>3, <3>5 DEF RowStep, Untouched
      <3> QED BY <3>4, <3>5
    <2> QED BY <2>1, <2>3, <2>4 DEF CreateTask, Hire
  <1>9. ASSUME NEW u \in Tasks, TaskStep(u) PROVE RowStep(t)
    <2>0. OwnsTask(u)
      BY DEF CallOwnsTask
    <2>1. ASSUME RecordSimulation(u), UNCHANGED history PROVE RowStep(t)
      <3>1. now + SimulationTTL \in Nat /\ task[u].receipt \in {"none", "success", "failure"}
        BY ConstantsOK DEF ConstantsOK, TypeOK, TaskRow
      <3>2. /\ task' \in [Tasks -> TaskRow]
            /\ \A w \in Tasks : w # u => task'[w] = task[w]
            /\ Wrote(u, "simulated", now + SimulationTTL, task[u].receipt)
        BY <2>1, <3>1, UpdateTaskEffect DEF RecordSimulation, TaskState, Wrote
      <3>3. /\ \A w \in Tasks : w # u => call'[w] = call[w]
            /\ call'[u].stage = "simulated"
        BY <2>1, <3>2, GotoEffect DEF RecordSimulation, Stage
      <3>4. task[u].state = "draft"
        BY <2>1, Transitions DEF RecordSimulation
      <3> QED BY <1>3, <2>1, <3>2, <3>3, <3>4 DEF RowStep, Simulated, Untouched
    <2>2. ASSUME Done(u), UNCHANGED task, UNCHANGED history PROVE RowStep(t)
      BY <1>3, <2>2, DoneEffect DEF RowStep, HandlerMoved, Untouched
    <2>3. ASSUME Raise(u), UNCHANGED task, UNCHANGED history, call[u].stage \in {"await", "succeeded"}
          PROVE RowStep(t)
      BY <1>3, <2>3, RaiseEffect DEF RowStep, HandlerMoved, Untouched
    <2>4. CASE Simulate(u)
      BY <2>1, <2>4 DEF Simulate
    <2>5. CASE InvokeAgent(u)
      BY <2>1, <2>2, <2>5 DEF InvokeAgent
    <2>6. CASE FinishSimulation(u)
      <3>1. CASE task' = Update(u, "approval_required")
        <4>1. /\ \A w \in Tasks : w # u => task'[w] = task[w]
              /\ Wrote(u, "approval_required", task[u].simUntil, task[u].receipt)
          BY <3>1, UpdateEffect DEF TaskState, Wrote
        <4>2. /\ \A w \in Tasks : w # u => call'[w] = call[w]
              /\ call'[u].stage = "none"
          BY <2>6, DoneEffect DEF FinishSimulation
        <4>3. task[u].state = "simulated" /\ UNCHANGED history
          BY <2>0, <2>6 DEF FinishSimulation, OwnsTask
        <4> QED BY <1>3, <4>1, <4>2, <4>3 DEF RowStep, Presented, Untouched
      <3>2. CASE UNCHANGED task
        BY <2>2, <2>6, <3>2 DEF FinishSimulation
      <3> QED BY <2>6, <3>1, <3>2 DEF FinishSimulation
    <2>7. CASE Approve(u)
      <3>1. /\ \A w \in Tasks : w # u => task'[w] = task[w]
            /\ Wrote(u, "approved", task[u].simUntil, task[u].receipt)
        BY <2>7, UpdateEffect DEF Approve, TaskState, Wrote
      <3>2. task[u].state \in {"approval_required", "failed"}
        BY <2>7, Transitions DEF Approve
      <3>3. UNCHANGED <<call, dispatched, booked>> /\ LoopFree
        BY <2>7 DEF Approve
      <3>4. CASE u = t
        <4>1. Counted(t, 1, 0, 0)
          BY <1>1, <2>7, <3>4 DEF Approve, Counted, TypeOK
        <4> QED BY <1>7, <3>1, <3>2, <3>3, <3>4, <4>1 DEF RowStep, Approved
      <3>5. CASE u # t
        <4>1. approved'[t] = approved[t]
          BY <2>7, <3>5 DEF Approve, TypeOK
        <4> QED BY <3>1, <3>3, <3>5, <4>1 DEF RowStep, Untouched
      <3> QED BY <3>4, <3>5
    <2>8. CASE RevokeTask(u)
      <3>1. /\ \A w \in Tasks : w # u => task'[w] = task[w]
            /\ Wrote(u, "revoked", task[u].simUntil, task[u].receipt)
        BY <2>8, UpdateEffect DEF RevokeTask, TaskState, Wrote
      <3>2. task[u].state \notin {"absent", "executing", "revoked"}
        BY <2>8, Transitions DEF RevokeTask
      <3>3. UNCHANGED <<call, approved, dispatched, booked>> /\ LoopFree
        BY <2>8 DEF RevokeTask
      <3> QED BY <1>3, <1>7, <3>1, <3>2, <3>3 DEF RowStep, Revoked, Untouched
    <2>9. CASE Execute(u)
      <3>1. PICK v \in Values, b \in BOOLEAN :
              RejectExecute(u, v, b) \/ AllowWithoutEffect(u, v, b) \/ BeginExecute(u, v, b)
        BY <2>9 DEF Execute
      <3>2. CASE RejectExecute(u, v, b) \/ AllowWithoutEffect(u, v, b)
        BY <1>2, <3>2 DEF RejectExecute, AllowWithoutEffect
      <3>3. CASE BeginExecute(u, v, b)
        <4>1. /\ \A w \in Tasks : w # u => task'[w] = task[w]
              /\ Wrote(u, "executing", task[u].simUntil, task[u].receipt)
          BY <3>3, UpdateEffect DEF BeginExecute, TaskState, Wrote
        <4>2. /\ \A w \in Tasks : w # u => call'[w] = call[w]
              /\ call'[u].stage = "await" /\ call'[u].value = v
          BY <3>3 DEF BeginExecute, TypeOK
        <4>3. task[u].state = "approved"
          BY <3>3, Transitions DEF BeginExecute
        <4>4. /\ UNCHANGED <<approved, booked>> /\ LoopFree
              /\ Event("risk_allowed", u, task[u].version) \in ledger'
              /\ ~policy[task[u].policy].revoked
              /\ v <= policy[task[u].policy].maxValue
              /\ spend[task[u].policy][day] + v <= policy[task[u].policy].dailyValue
          BY <3>3 DEF BeginExecute, Allowed, PolicyActive, WithinCaps, PolicyOf
        <4>5. CASE u = t
          <5>1. Counted(t, 0, 1, 0)
            BY <1>1, <3>3, <4>5 DEF BeginExecute, Counted, TypeOK
          <5> QED BY <1>7, <4>1, <4>2, <4>3, <4>4, <4>5, <5>1 DEF RowStep, Dispatched
        <4>6. CASE u # t
          <5>1. dispatched'[t] = dispatched[t]
            BY <3>3, <4>6 DEF BeginExecute, TypeOK
          <5> QED BY <4>1, <4>2, <4>4, <4>6, <5>1 DEF RowStep, Untouched
        <4> QED BY <4>5, <4>6
      <3> QED BY <3>1, <3>2, <3>3
    <2>10. ASSUME call[u].stage \in {"await", "except"}, UNCHANGED history, Done(u),
                  task' = UpdateReceipt(u, "failed", "failure")
           PROVE RowStep(t)
      <3>1. /\ \A w \in Tasks : w # u => task'[w] = task[w]
            /\ Wrote(u, "failed", task[u].simUntil, "failure")
        BY <2>10, ReceiptEffect DEF TaskState, Wrote
      <3>2. /\ \A w \in Tasks : w # u => call'[w] = call[w]
            /\ call'[u].stage = "none"
        BY <2>10, DoneEffect
      <3>3. task[u].state \in {"executing", "succeeded"}
        BY <2>0, <2>10 DEF OwnsTask
      <3> QED BY <1>3, <2>10, <3>1, <3>2, <3>3 DEF RowStep, Failed, Untouched
    <2>11. CASE AdapterSucceeds(u)
      <3>1. CASE task' = UpdateReceipt(u, "succeeded", "success") /\ Goto(u, "succeeded")
        <4>1. /\ task' \in [Tasks -> TaskRow]
              /\ \A w \in Tasks : w # u => task'[w] = task[w]
              /\ Wrote(u, "succeeded", task[u].simUntil, "success")
          BY <3>1, ReceiptEffect DEF TaskState, Wrote
        <4>2. /\ \A w \in Tasks : w # u => call'[w] = call[w]
              /\ call'[u].stage = "succeeded" /\ call'[u].value = call[u].value
          BY <3>1, <4>1, GotoEffect DEF Stage
        <4>3. task[u].state = "executing" /\ call[u].stage = "await" /\ UNCHANGED history
          BY <2>0, <2>11 DEF AdapterSucceeds, OwnsTask
        <4> QED BY <1>3, <4>1, <4>2, <4>3 DEF RowStep, Succeeded, Untouched
      <3>2. CASE Raise(u) /\ UNCHANGED task
        BY <2>3, <2>11, <3>2 DEF AdapterSucceeds
      <3> QED BY <2>11, <3>1, <3>2 DEF AdapterSucceeds
    <2>12. CASE AdapterFails(u)
      BY <2>3, <2>10, <2>12 DEF AdapterFails
    <2>13. CASE AdapterRaises(u)
      BY <2>3, <2>13 DEF AdapterRaises
    <2>14. CASE BookSpend(u)
      <3>1. CASE booked' = [booked EXCEPT ![u] = @ + 1] /\ Done(u)
        <4>1. /\ \A w \in Tasks : w # u => call'[w] = call[w]
              /\ call'[u].stage = "none"
          BY <3>1, DoneEffect
        <4>2. call[u].stage = "succeeded" /\ UNCHANGED <<task, approved, dispatched>>
          BY <2>14 DEF BookSpend
        <4>3. CASE u = t
          <5>1. Counted(t, 0, 0, 1)
            BY <1>1, <3>1, <4>2, <4>3 DEF Counted, TypeOK
          <5> QED BY <4>1, <4>2, <4>3, <5>1 DEF RowStep, Booked
        <4>4. CASE u # t
          <5>1. booked'[t] = booked[t]
            BY <3>1, <4>4 DEF TypeOK
          <5> QED BY <4>1, <4>2, <4>4, <5>1 DEF RowStep, Untouched
        <4> QED BY <4>3, <4>4
      <3>2. CASE Raise(u) /\ UNCHANGED booked
        BY <2>3, <2>14, <3>2 DEF BookSpend
      <3> QED BY <2>14, <3>1, <3>2 DEF BookSpend
    <2>15. CASE ConvertToFailed(u)
      BY <2>2, <2>10, <2>15 DEF ConvertToFailed
    <2> QED
      BY <1>9, <2>4, <2>5, <2>6, <2>7, <2>8, <2>9, <2>11, <2>12, <2>13, <2>14, <2>15
         DEF TaskStep, Return, Continue
  <1> QED BY <1>4, <1>5, <1>6, <1>8, <1>9 DEF Next

-----------------------------------------------------------------------------
(***************************************************************************)
(* The safety properties of TaskExecution and its refinement of            *)
(* TaskLifecycle.  Each proof of a property looks at the cases RowStep     *)
(* leaves to one task.                                                     *)
(***************************************************************************)

\* What every proof below may assume of the state before a step.
Sound == TypeOK /\ CallOwnsTask

LEMMA SoundAlways == Spec => []Sound
  BY TypeCorrect, CallsOwnTheirTasks, PTL DEF Sound

\* In a typed state the fields of a task have their types.
LEMMA RowTypes ==
  ASSUME TypeOK, NEW t \in Tasks
  PROVE  /\ task[t].state \in TaskState \union {"absent"}
         /\ task[t].policy \in Policies \union {NoPolicy}
         /\ task[t].simUntil \in Nat /\ task[t].version \in Nat
         /\ task[t].receipt \in {"none", "success", "failure"}
         /\ call[t].stage \in Stage /\ call[t].value \in Nat
         /\ approved[t] \in Nat /\ dispatched[t] \in Nat /\ booked[t] \in Nat
  BY DEF TypeOK, TaskRow, CallRow

LEMMA NewTaskFields ==
  ASSUME NEW p
  PROVE  /\ NewTask(p).state = "draft" /\ NewTask(p).policy = p /\ NewTask(p).simUntil = 0
         /\ NewTask(p).receipt = "none" /\ NewTask(p).version = 0
  BY DEF NewTask

\* A step of one task's handlers leaves every other task alone.
LEMMA OthersUntouched ==
  ASSUME TypeOK, NEW u \in Tasks, TaskStep(u), NEW w \in Tasks, w # u
  PROVE  Untouched(w)
  <1> USE DEF history
  <1>1. ASSUME UNCHANGED <<task, call, approved, dispatched, booked>> PROVE Untouched(w)
    BY <1>1 DEF Untouched
  <1>2. ASSUME UNCHANGED <<task, history>>, Done(u) \/ Raise(u) PROVE Untouched(w)
    BY <1>2, DoneEffect, RaiseEffect DEF Untouched
  <1>3. ASSUME RecordSimulation(u), UNCHANGED history PROVE Untouched(w)
    <2>1. now + SimulationTTL \in Nat /\ task[u].receipt \in {"none", "success", "failure"}
      BY ConstantsOK DEF ConstantsOK, TypeOK, TaskRow
    <2>2. task' \in [Tasks -> TaskRow] /\ task'[w] = task[w]
      BY <1>3, <2>1, UpdateTaskEffect DEF RecordSimulation, TaskState
    <2>3. call'[w] = call[w]
      BY <1>3, <2>2, GotoEffect DEF RecordSimulation, Stage
    <2> QED BY <1>3, <2>2, <2>3 DEF Untouched
  <1>4. CASE Simulate(u) \/ InvokeAgent(u)
    BY <1>2, <1>3, <1>4 DEF Simulate, InvokeAgent
  <1>5. CASE FinishSimulation(u)
    <2>1. task'[w] = task[w]
      BY <1>5, UpdateEffect DEF FinishSimulation, TaskState
    <2>2. call'[w] = call[w]
      BY <1>5, DoneEffect DEF FinishSimulation
    <2> QED BY <1>5, <2>1, <2>2 DEF FinishSimulation, Untouched
  <1>6. CASE Approve(u)
    <2>1. task'[w] = task[w]
      BY <1>6, UpdateEffect DEF Approve, TaskState
    <2>2. approved'[w] = approved[w]
      BY <1>6 DEF Approve, TypeOK
    <2> QED BY <1>6, <2>1, <2>2 DEF Approve, Untouched
  <1>7. CASE RevokeTask(u)
    <2>1. task'[w] = task[w]
      BY <1>7, UpdateEffect DEF RevokeTask, TaskState
    <2> QED BY <1>7, <2>1 DEF RevokeTask, Untouched
  <1>8. CASE Execute(u)
    <2>1. ASSUME NEW v \in Values, NEW b \in BOOLEAN, BeginExecute(u, v, b) PROVE Untouched(w)
      <3>1. task'[w] = task[w]
        BY <2>1, UpdateEffect DEF BeginExecute, TaskState
      <3>2. call'[w] = call[w] /\ dispatched'[w] = dispatched[w]
        BY <2>1 DEF BeginExecute, TypeOK
      <3> QED BY <2>1, <3>1, <3>2 DEF BeginExecute, Untouched
    <2> QED BY <1>1, <1>8, <2>1 DEF Execute, RejectExecute, AllowWithoutEffect
  <1>9. ASSUME NEW s \in {"succeeded", "failed"}, NEW r \in {"success", "failure"},
               task' = UpdateReceipt(u, s, r), Goto(u, "succeeded") \/ Done(u), UNCHANGED history
        PROVE Untouched(w)
    <2>1. task' \in [Tasks -> TaskRow] /\ task'[w] = task[w]
      BY <1>9, ReceiptEffect DEF TaskState
    <2>2. call'[w] = call[w]
      BY <1>9, <2>1, GotoEffect, DoneEffect DEF Stage
    <2> QED BY <1>9, <2>1, <2>2 DEF Untouched
  <1>10. CASE Return(u)
    BY <1>2, <1>9, <1>10 DEF Return, AdapterSucceeds, AdapterFails, AdapterRaises
  <1>11. CASE BookSpend(u)
    <2>1. call'[w] = call[w]
      BY <1>11, DoneEffect, RaiseEffect DEF BookSpend
    <2>2. booked'[w] = booked[w]
      BY <1>11 DEF BookSpend, TypeOK
    <2> QED BY <1>11, <2>1, <2>2 DEF BookSpend, Untouched
  <1>12. CASE ConvertToFailed(u)
    BY <1>2, <1>9, <1>12 DEF ConvertToFailed
  <1> QED BY <1>4, <1>5, <1>6, <1>7, <1>8, <1>10, <1>11, <1>12 DEF TaskStep, Continue

-----------------------------------------------------------------------------

\* One human approval authorises at most one call of the adapter.
THEOREM DispatchesNeedApprovals == Spec => []OneDispatchPerApproval
  <1>1. Init => OneDispatchPerApproval
    BY DEF Init, OneDispatchPerApproval, AbsentTask
  <1>2. Sound /\ OneDispatchPerApproval /\ [Next]_vars => OneDispatchPerApproval'
    <2> SUFFICES ASSUME Sound, OneDispatchPerApproval, [Next]_vars, NEW t \in Tasks
                 PROVE  dispatched'[t] + (IF task'[t].state = "approved" THEN 1 ELSE 0) <= approved'[t]
      BY DEF OneDispatchPerApproval
    <2>1. dispatched[t] + (IF task[t].state = "approved" THEN 1 ELSE 0) <= approved[t]
      BY DEF OneDispatchPerApproval
    <2>2. approved[t] \in Nat /\ dispatched[t] \in Nat
      BY RowTypes DEF Sound
    <2>3. RowStep(t)
      BY RowSteps DEF Sound
    <2>4. CASE Approved(t)
      BY <2>1, <2>2, <2>4 DEF Approved, Counted, Wrote
    <2>5. CASE Dispatched(t)
      BY <2>1, <2>2, <2>5 DEF Dispatched, Counted, Wrote
    <2>6. CASE Created(t)
      BY <2>1, <2>2, <2>6, NewTaskFields DEF Created, Counted
    <2>7. CASE Simulated(t) \/ Presented(t) \/ Revoked(t) \/ Succeeded(t) \/ Failed(t)
      <3>1. approved'[t] = approved[t] /\ dispatched'[t] = dispatched[t] /\ task'[t].state # "approved"
        BY <2>2, <2>7 DEF Simulated, Presented, Revoked, Succeeded, Failed, Counted, Wrote
      <3> QED BY <2>1, <2>2, <3>1
    <2>8. CASE Untouched(t) \/ HandlerMoved(t) \/ Booked(t)
      BY <2>1, <2>2, <2>8 DEF Untouched, HandlerMoved, Booked, Counted
    <2> QED BY <2>3, <2>4, <2>5, <2>6, <2>7, <2>8 DEF RowStep
  <1> QED BY <1>1, <1>2, SoundAlways, PTL DEF Spec

\* BookedOnce is inductive once a handler about to book is known to hold a success.
BookingSound ==
  \A t \in Tasks :
    /\ booked[t] <= 1
    /\ booked[t] = 1 => /\ task[t].state \in {"succeeded", "revoked"}
                        /\ task[t].receipt = "success"
                        /\ call[t].stage = "none"
    /\ call[t].stage = "succeeded" => task[t].receipt = "success"

\* A task books at most once, and a booking always stands for a success.
THEOREM BookingsAreUnique == Spec => []BookedOnce
  <1>1. Init => BookingSound
    BY DEF Init, BookingSound, NoCall
  <1>2. Sound /\ BookingSound /\ [Next]_vars => BookingSound'
    <2> SUFFICES ASSUME Sound, BookingSound, [Next]_vars, NEW t \in Tasks
                 PROVE  /\ booked'[t] <= 1
                        /\ booked'[t] = 1 => /\ task'[t].state \in {"succeeded", "revoked"}
                                             /\ task'[t].receipt = "success"
                                             /\ call'[t].stage = "none"
                        /\ call'[t].stage = "succeeded" => task'[t].receipt = "success"
      BY DEF BookingSound
    <2>1. /\ booked[t] <= 1 /\ booked[t] \in Nat
          /\ booked[t] = 1 => /\ task[t].state \in {"succeeded", "revoked"}
                              /\ task[t].receipt = "success"
                              /\ call[t].stage = "none"
          /\ call[t].stage = "succeeded" => task[t].receipt = "success"
      BY RowTypes DEF Sound, BookingSound
    <2>2. OwnsTask(t)
      BY DEF Sound, CallOwnsTask
    <2>3. RowStep(t)
      BY RowSteps DEF Sound
    <2>4. CASE Untouched(t) \/ HandlerMoved(t)
      BY <2>1, <2>4 DEF Untouched, HandlerMoved, Counted
    <2>5. CASE Booked(t)
      BY <2>1, <2>2, <2>5 DEF Booked, Counted, OwnsTask
    <2>6. CASE Revoked(t)
      BY <2>1, <2>6 DEF Revoked, Counted, Wrote
    <2>7. CASE Succeeded(t)
      BY <2>1, <2>7 DEF Succeeded, Counted, Wrote
    <2>8. CASE Failed(t)
      BY <2>1, <2>8 DEF Failed, Counted, Wrote
    <2>9. CASE Created(t) \/ Simulated(t) \/ Presented(t) \/ Approved(t) \/ Dispatched(t)
      BY <2>1, <2>9 DEF Created, Simulated, Presented, Approved, Dispatched, Counted
    <2> QED BY <2>3, <2>4, <2>5, <2>6, <2>7, <2>8, <2>9 DEF RowStep
  <1>3. BookingSound => BookedOnce
    BY DEF BookingSound, BookedOnce
  <1> QED BY <1>1, <1>2, <1>3, SoundAlways, PTL DEF Spec

-----------------------------------------------------------------------------

\* The ledger only grows.
LEMMA LedgerGrows ==
  ASSUME TypeOK, [Next]_vars
  PROVE  ledger \subseteq ledger'
  <1>1. ASSUME NEW e, Log(e) PROVE ledger \subseteq ledger'
    BY <1>1 DEF Log
  <1>2. CASE Permission
    BY <1>1, <1>2 DEF Permission, RevokePolicy, CreatePolicy
  <1>3. CASE Creation
    BY <1>1, <1>3 DEF Creation, CreateTask, Hire
  <1>4. ASSUME NEW t \in Tasks, Execute(t) PROVE ledger \subseteq ledger'
    BY <1>4 DEF Execute, RejectExecute, AllowWithoutEffect, BeginExecute
  <1>5. ASSUME NEW t \in Tasks, Return(t) \/ Continue(t) PROVE ledger \subseteq ledger'
    BY <1>1, <1>5 DEF Return, AdapterSucceeds, AdapterFails, AdapterRaises,
                      Continue, InvokeAgent, FinishSimulation, BookSpend, ConvertToFailed
  <1>6. ASSUME NEW t \in Tasks, Simulate(t) \/ Approve(t) \/ RevokeTask(t)
        PROVE ledger \subseteq ledger'
    BY <1>1, <1>6 DEF Simulate, Approve, RevokeTask
  <1>7. CASE Environment
    BY <1>7 DEF Environment, SetKillSwitch, Tick, Midnight, Crash
  <1>8. CASE UNCHANGED vars
    BY <1>8 DEF vars
  <1> QED BY <1>2, <1>3, <1>4, <1>5, <1>6, <1>7, <1>8 DEF Next, TaskStep

\* Whatever executes, the ledger already holds the gate's decision to allow it.
THEOREM ExecutionsAreDecided == Spec => []ExecutionIsDecided
  <1>1. Init => ExecutionIsDecided
    BY DEF Init, ExecutionIsDecided, AbsentTask
  <1>2. Sound /\ ExecutionIsDecided /\ [Next]_vars => ExecutionIsDecided'
    <2> SUFFICES ASSUME Sound, ExecutionIsDecided, [Next]_vars, NEW t \in Tasks,
                        task'[t].state = "executing"
                 PROVE  Event("risk_allowed", t, task'[t].version - 1) \in ledger'
      BY DEF ExecutionIsDecided, Event
    <2>1. ledger \subseteq ledger' /\ RowStep(t) /\ task[t].version \in Nat
      BY LedgerGrows, RowSteps, RowTypes DEF Sound
    <2>2. CASE Untouched(t) \/ HandlerMoved(t) \/ Booked(t)
      BY <2>1, <2>2 DEF ExecutionIsDecided, Untouched, HandlerMoved, Booked
    <2>3. CASE Dispatched(t)
      <3>1. task'[t].version - 1 = task[t].version
        BY <2>1, <2>3 DEF Dispatched, Wrote
      <3> QED BY <2>3, <3>1 DEF Dispatched
    <2>4. ~Created(t)
      BY NewTaskFields DEF Created
    <2>5. ~(Simulated(t) \/ Presented(t) \/ Approved(t) \/ Revoked(t) \/ Succeeded(t) \/ Failed(t))
      BY DEF Simulated, Presented, Approved, Revoked, Succeeded, Failed, Wrote
    <2> QED BY <2>1, <2>2, <2>3, <2>4, <2>5 DEF RowStep
  <1> QED BY <1>1, <1>2, SoundAlways, PTL DEF Spec

-----------------------------------------------------------------------------

\* Only a simulated task carries a simulation.
SimulationFollowsState ==
  \A t \in Tasks : task[t].state \in {"absent", "draft"} => task[t].simUntil = 0

LEMMA SimulationFollowsStateAlways == Spec => []SimulationFollowsState
  <1>1. Init => SimulationFollowsState
    BY DEF Init, SimulationFollowsState, AbsentTask
  <1>2. Sound /\ SimulationFollowsState /\ [Next]_vars => SimulationFollowsState'
    <2> SUFFICES ASSUME Sound, SimulationFollowsState, [Next]_vars, NEW t \in Tasks,
                        task'[t].state \in {"absent", "draft"}
                 PROVE  task'[t].simUntil = 0
      BY DEF SimulationFollowsState
    <2>1. RowStep(t)
      BY RowSteps DEF Sound
    <2>2. CASE Created(t)
      BY <2>2, NewTaskFields DEF Created
    <2>3. CASE Untouched(t) \/ HandlerMoved(t) \/ Booked(t)
      BY <2>3 DEF SimulationFollowsState, Untouched, HandlerMoved, Booked
    <2>4. ~(Simulated(t) \/ Presented(t) \/ Approved(t) \/ Revoked(t) \/ Dispatched(t)
            \/ Succeeded(t) \/ Failed(t))
      BY DEF Simulated, Presented, Approved, Revoked, Dispatched, Succeeded, Failed, Wrote
    <2> QED BY <2>1, <2>2, <2>3, <2>4 DEF RowStep
  <1> QED BY <1>1, <1>2, SoundAlways, PTL DEF Spec

\* A recorded simulation is never renewed, so nothing runs later than its expiry allows.
THEOREM SimulationsAreFinal == Spec => SimulationIsFinal
  <1>1. Sound /\ SimulationFollowsState /\ [Next]_vars =>
          [\A t \in Tasks : task[t].simUntil # 0 => task'[t].simUntil = task[t].simUntil]_vars
    <2> SUFFICES ASSUME Sound, SimulationFollowsState, [Next]_vars, NEW t \in Tasks,
                        task[t].simUntil # 0
                 PROVE  task'[t].simUntil = task[t].simUntil
      OBVIOUS
    <2>1. RowStep(t) /\ task[t].state \notin {"absent", "draft"}
      BY RowSteps DEF Sound, SimulationFollowsState
    <2> QED
      BY <2>1 DEF RowStep, Untouched, HandlerMoved, Booked, Created, Simulated, Presented, Approved,
                  Revoked, Dispatched, Succeeded, Failed, Wrote
  <1> QED BY <1>1, SoundAlways, SimulationFollowsStateAlways, PTL DEF Spec, SimulationIsFinal

\* No handler moves, dispatches or books a task that has been revoked.
THEOREM RevokedTasksRest == Spec => RevokedTaskIsFinal
  <1>1. Sound /\ [Next]_vars =>
          [\A t \in Tasks : task[t].state = "revoked" =>
             /\ task'[t] = task[t]
             /\ dispatched'[t] = dispatched[t]
             /\ booked'[t] = booked[t]]_vars
    <2> SUFFICES ASSUME Sound, [Next]_vars, NEW t \in Tasks, task[t].state = "revoked"
                 PROVE  /\ task'[t] = task[t]
                        /\ dispatched'[t] = dispatched[t]
                        /\ booked'[t] = booked[t]
      OBVIOUS
    <2>1. /\ RowStep(t) /\ OwnsTask(t)
          /\ dispatched[t] \in Nat /\ booked[t] \in Nat
      BY RowSteps, RowTypes DEF Sound, CallOwnsTask
    <2>2. ~Booked(t)
      BY <2>1 DEF Booked, OwnsTask
    <2>3. ~(Created(t) \/ Simulated(t) \/ Presented(t) \/ Approved(t) \/ Revoked(t) \/ Dispatched(t)
            \/ Succeeded(t) \/ Failed(t))
      BY DEF Created, Simulated, Presented, Approved, Revoked, Dispatched, Succeeded, Failed
    <2> QED BY <2>1, <2>2, <2>3 DEF RowStep, Untouched, HandlerMoved, Counted
  <1> QED BY <1>1, SoundAlways, PTL DEF Spec, RevokedTaskIsFinal

-----------------------------------------------------------------------------

\* Only a policy that exists has been revoked.
RevokedExists == \A p \in Policies : policy[p].revoked => policy[p].exists

\* A step writes at most one policy: it creates it or it revokes it.
PolicyStep(p) ==
  \/ policy'[p] = policy[p]
  \/ /\ ~policy[p].exists
     /\ \E q \in PolicyTerms : policy'[p] \in {NewPolicy(q), NewPolicy([q EXCEPT !.human = TRUE])}
  \/ /\ policy[p].exists
     /\ policy'[p] = [policy[p] EXCEPT !.revoked = TRUE]

LEMMA TaskStepsKeepPolicies ==
  ASSUME NEW t \in Tasks, TaskStep(t)
  PROVE  UNCHANGED policy
  <1>1. ASSUME Execute(t) PROVE UNCHANGED policy
    BY <1>1 DEF Execute, RejectExecute, AllowWithoutEffect, BeginExecute
  <1>2. ASSUME Return(t) \/ Continue(t) PROVE UNCHANGED policy
    BY <1>2 DEF Return, AdapterSucceeds, AdapterFails, AdapterRaises,
                Continue, InvokeAgent, FinishSimulation, BookSpend, ConvertToFailed
  <1>3. ASSUME Simulate(t) \/ Approve(t) \/ RevokeTask(t) PROVE UNCHANGED policy
    BY <1>3 DEF Simulate, Approve, RevokeTask
  <1> QED BY <1>1, <1>2, <1>3 DEF TaskStep

LEMMA PolicySteps ==
  ASSUME TypeOK, [Next]_vars, NEW p \in Policies
  PROVE  PolicyStep(p)
  <1> USE DEF PolicyStep
  <1>1. ASSUME UNCHANGED policy PROVE PolicyStep(p)
    BY <1>1
  <1>2. CASE Permission
    BY <1>2 DEF Permission, RevokePolicy, CreatePolicy, TypeOK
  <1>3. CASE Creation
    <2>1. ASSUME NEW t \in Tasks, NEW q \in Policies, NEW k \in Keys, CreateTask(t, q, k)
          PROVE PolicyStep(p)
      BY <2>1 DEF CreateTask
    <2>2. ASSUME NEW t \in Tasks, NEW q \in Policies, NEW k \in Keys, NEW x \in PolicyTerms,
                 Hire(t, q, k, x)
          PROVE PolicyStep(p)
      BY <2>2 DEF Hire, TypeOK
    <2> QED BY <1>3, <2>1, <2>2 DEF Creation
  <1>4. ASSUME NEW t \in Tasks, TaskStep(t) PROVE PolicyStep(p)
    BY <1>1, <1>4, TaskStepsKeepPolicies
  <1>5. CASE Environment \/ UNCHANGED vars
    BY <1>1, <1>5 DEF Environment, SetKillSwitch, Tick, Midnight, Crash, vars
  <1> QED BY <1>2, <1>3, <1>4, <1>5 DEF Next

LEMMA RevokedExistsAlways == Spec => []RevokedExists
  <1>1. Init => RevokedExists
    BY DEF Init, RevokedExists, AbsentPolicy
  <1>2. TypeOK /\ RevokedExists /\ [Next]_vars => RevokedExists'
    <2> SUFFICES ASSUME TypeOK, RevokedExists, [Next]_vars, NEW p \in Policies, policy'[p].revoked
                 PROVE  policy'[p].exists
      BY DEF RevokedExists
    <2>1. PolicyStep(p) /\ policy[p] \in PolicyRow
      BY PolicySteps DEF TypeOK
    <2> QED BY <2>1, NewPolicyType DEF PolicyStep, RevokedExists, PolicyRow
  <1> QED BY <1>1, <1>2, TypeCorrect, PTL DEF Spec

\* A revoked policy stays revoked, and no task of it reaches the adapter any more.
THEOREM RevocationsAreFinal == Spec => RevocationIsFinal
  <1>1. Sound /\ RevokedExists /\ [Next]_vars =>
          [\A p \in Policies : policy[p].revoked =>
             /\ policy'[p].revoked
             /\ \A t \in Tasks : task[t].policy = p => dispatched'[t] = dispatched[t]]_vars
    <2> SUFFICES ASSUME Sound, RevokedExists, [Next]_vars, NEW p \in Policies, policy[p].revoked
                 PROVE  /\ policy'[p].revoked
                        /\ \A t \in Tasks : task[t].policy = p => dispatched'[t] = dispatched[t]
      OBVIOUS
    <2>1. policy'[p].revoked
      <3>1. PolicyStep(p) /\ policy[p] \in PolicyRow /\ policy[p].exists
        BY PolicySteps DEF Sound, TypeOK, RevokedExists
      <3> QED BY <3>1 DEF PolicyStep, PolicyRow
    <2>2. ASSUME NEW t \in Tasks, task[t].policy = p PROVE dispatched'[t] = dispatched[t]
      <3>1. RowStep(t) /\ dispatched[t] \in Nat
        BY RowSteps, RowTypes DEF Sound
      <3>2. ~Dispatched(t)
        BY <2>2 DEF Dispatched
      <3> QED
        BY <3>1, <3>2 DEF RowStep, Untouched, HandlerMoved, Booked, Created, Simulated, Presented,
                          Approved, Revoked, Succeeded, Failed, Counted
    <2> QED BY <2>1, <2>2
  <1> QED BY <1>1, SoundAlways, RevokedExistsAlways, PTL DEF Spec, RevocationIsFinal

\* Simulations and revocations are final, for every number of tasks and failures.
THEOREM WhatIsOverRests == Spec => WhatIsOverStays
  BY SimulationsAreFinal, RevokedTasksRest DEF WhatIsOverStays

-----------------------------------------------------------------------------
(***************************************************************************)
(* TaskExecution implements TaskLifecycle for every value of its           *)
(* constants: every step of a handler, of a client or of the environment   *)
(* is a step of the lifecycle or invisible, whatever write fails and       *)
(* whenever the process dies.                                              *)
(***************************************************************************)

(* The refinement mapping. *)

Phases == {"absent", "open", "simulated", "approved", "running", "done", "failed", "closed"}

PhaseMap == [t \in Tasks |-> Phase(t)]
OwnerMap == [t \in Tasks |-> task[t].policy]
WithdrawnMap == {p \in Policies : policy[p].revoked}

\* A task without a call that runs for it shows the state of its row.
LEMMA PhaseOfRow ==
  ASSUME NEW t \in Tasks, call[t].stage \in {"none", "hired", "simulated"}
  PROVE  /\ task[t].state = "absent" => Phase(t) = "absent"
         /\ task[t].state \in {"draft", "simulated"} => Phase(t) = "open"
         /\ task[t].state = "approval_required" => Phase(t) = "simulated"
         /\ task[t].state = "approved" => Phase(t) = "approved"
         /\ task[t].state = "executing" => Phase(t) = "running"
         /\ task[t].state = "succeeded" => Phase(t) = "done"
         /\ task[t].state = "failed" => Phase(t) = "failed"
         /\ task[t].state = "revoked" => Phase(t) = "closed"
  BY DEF Phase, PhaseOf, TaskState

\* The same after a step.
LEMMA PhaseOfRowNext ==
  ASSUME NEW t \in Tasks, call'[t].stage \in {"none", "hired", "simulated"}
  PROVE  /\ task'[t].state = "absent" => Phase(t)' = "absent"
         /\ task'[t].state \in {"draft", "simulated"} => Phase(t)' = "open"
         /\ task'[t].state = "approval_required" => Phase(t)' = "simulated"
         /\ task'[t].state = "approved" => Phase(t)' = "approved"
         /\ task'[t].state = "executing" => Phase(t)' = "running"
         /\ task'[t].state = "succeeded" => Phase(t)' = "done"
         /\ task'[t].state = "failed" => Phase(t)' = "failed"
         /\ task'[t].state = "revoked" => Phase(t)' = "closed"
  BY DEF Phase, PhaseOf, TaskState

LEMMA PhaseOfCall ==
  ASSUME NEW t \in Tasks
  PROVE  /\ call[t].stage \in {"await", "succeeded", "except"} => Phase(t) = "running"
         /\ call'[t].stage \in {"await", "succeeded", "except"} => Phase(t)' = "running"
         /\ task'[t] = task[t] /\ call'[t] = call[t] => Phase(t)' = Phase(t)
  BY DEF Phase

LEMMA PhaseType ==
  ASSUME TypeOK, NEW t \in Tasks
  PROVE  Phase(t) \in Phases
  <1>1. task[t].state \in TaskState \union {"absent"} /\ call[t].stage \in Stage
    BY RowTypes
  <1> QED BY <1>1, PhaseOfRow, PhaseOfCall DEF Stage, TaskState, Phases

-----------------------------------------------------------------------------
(* Steps. *)

\* How a step may change what is seen of one task.
Seen(t, from, to, a, d) ==
  /\ Phase(t) \in from /\ Phase(t)' = to
  /\ task'[t].policy = task[t].policy
  /\ approved'[t] = approved[t] + a /\ dispatched'[t] = dispatched[t] + d

SeenStep(t) ==
  \/ /\ Phase(t)' = Phase(t) /\ task'[t].policy = task[t].policy
     /\ approved'[t] = approved[t] /\ dispatched'[t] = dispatched[t]
  \/ /\ Phase(t) = "absent" /\ Phase(t)' = "open" /\ task'[t].policy \in Policies
     /\ approved'[t] = approved[t] /\ dispatched'[t] = dispatched[t]
  \/ Seen(t, {"open"}, "simulated", 0, 0)
  \/ Seen(t, {"simulated", "failed"}, "approved", 1, 0)
  \/ Seen(t, {"approved"}, "running", 0, 1) /\ ~policy[task[t].policy].revoked
  \/ Seen(t, {"running"}, "done", 0, 0)
  \/ Seen(t, {"running"}, "failed", 0, 0)
  \/ Seen(t, {"open", "simulated", "approved", "done", "failed"}, "closed", 0, 0)

\* Every step of a row shows as a step of the lifecycle, or not at all.
LEMMA RowStepIsSeen ==
  ASSUME Sound, NEW t \in Tasks, RowStep(t)
  PROVE  SeenStep(t)
  <1>1. /\ task[t].state \in TaskState \union {"absent"} /\ call[t].stage \in Stage
        /\ approved[t] \in Nat /\ dispatched[t] \in Nat
        /\ OwnsTask(t)
    BY RowTypes DEF Sound, CallOwnsTask
  <1>2. ASSUME call[t].stage = "none", task[t].state # "executing"
        PROVE call[t].stage \in {"none", "hired", "simulated"}
    BY <1>2
  <1>3. CASE Untouched(t)
    BY <1>3, PhaseOfCall DEF Untouched, SeenStep
  <1>4. CASE HandlerMoved(t)
    <2>1. task'[t] = task[t] /\ approved'[t] = approved[t] /\ dispatched'[t] = dispatched[t]
      BY <1>1, <1>4 DEF HandlerMoved, Counted
    <2>2. CASE call'[t].stage = "except"
      BY <1>4, <2>1, <2>2, PhaseOfCall DEF HandlerMoved, SeenStep
    <2>3. CASE call'[t].stage = "none" /\ call[t].stage \in {"none", "hired", "simulated"}
      <3>1. Phase(t)' = Phase(t)
        BY <2>1, <2>3 DEF Phase
      <3> QED BY <2>1, <3>1 DEF SeenStep
    <2>4. CASE call'[t].stage = "none" /\ call[t].stage \in {"await", "succeeded", "except"}
      <3>1. Phase(t) = "running" /\ task[t].state \in {"executing", "succeeded"}
        BY <1>1, <2>4, PhaseOfCall DEF OwnsTask
      <3>2. Phase(t)' \in {"running", "done"}
        BY <2>1, <2>4, <3>1, PhaseOfRowNext
      <3> QED BY <1>1, <2>1, <3>1, <3>2 DEF SeenStep, Seen
    <2> QED BY <1>1, <1>4, <2>2, <2>3, <2>4 DEF HandlerMoved, Stage
  <1>5. CASE Booked(t)
    <2>1. task'[t] = task[t] /\ approved'[t] = approved[t] /\ dispatched'[t] = dispatched[t]
      BY <1>1, <1>5 DEF Booked, Counted
    <2>2. Phase(t) = "running" /\ Phase(t)' = "done"
      BY <1>1, <1>5, <2>1, PhaseOfCall, PhaseOfRowNext DEF Booked, OwnsTask
    <2> QED BY <1>1, <2>1, <2>2 DEF SeenStep, Seen
  <1>6. CASE Created(t)
    <2>1. approved'[t] = approved[t] /\ dispatched'[t] = dispatched[t]
      BY <1>1, <1>6 DEF Created, Counted
    <2>2. call[t].stage = "none"
      BY <1>1, <1>6 DEF Created, OwnsTask, Stage
    <2>3. task'[t].state = "draft" /\ task'[t].policy \in Policies
      BY <1>6, NewTaskFields DEF Created
    <2>4. Phase(t) = "absent" /\ Phase(t)' = "open"
      BY <1>6, <2>2, <2>3, PhaseOfRow, PhaseOfRowNext DEF Created
    <2> QED BY <2>1, <2>3, <2>4 DEF SeenStep
  <1>7. CASE Simulated(t)
    <2>1. call[t].stage \in {"none", "hired"}
      BY <1>1, <1>7 DEF Simulated, OwnsTask, Stage
    <2>2. Phase(t) = "open" /\ Phase(t)' = "open"
      BY <1>7, <2>1, PhaseOfRow, PhaseOfRowNext DEF Simulated, Wrote
    <2> QED BY <1>1, <1>7, <2>2 DEF Simulated, Wrote, Counted, SeenStep
  <1>8. CASE Presented(t)
    <2>1. call[t].stage \in {"none", "simulated"}
      BY <1>1, <1>8 DEF Presented, OwnsTask, Stage
    <2>2. Phase(t) = "open" /\ Phase(t)' = "simulated"
      BY <1>8, <2>1, PhaseOfRow, PhaseOfRowNext DEF Presented, Wrote
    <2> QED BY <1>8, <2>2 DEF Presented, Wrote, Counted, SeenStep, Seen
  <1>9. CASE Approved(t)
    <2>1. Phase(t) \in {"simulated", "failed"} /\ Phase(t)' = "approved"
      BY <1>9, PhaseOfRow, PhaseOfRowNext DEF Approved, Wrote
    <2> QED BY <1>9, <2>1 DEF Approved, Wrote, Counted, SeenStep, Seen
  <1>10. CASE Revoked(t)
    <2>1. Phase(t) \in {"open", "simulated", "approved", "done", "failed"} /\ Phase(t)' = "closed"
      BY <1>1, <1>10, PhaseOfRow, PhaseOfRowNext DEF Revoked, Wrote, TaskState
    <2> QED BY <1>10, <2>1 DEF Revoked, Wrote, Counted, SeenStep, Seen
  <1>11. CASE Dispatched(t)
    <2>1. Phase(t) = "approved" /\ Phase(t)' = "running"
      BY <1>11, PhaseOfRow, PhaseOfCall DEF Dispatched, Wrote
    <2> QED BY <1>11, <2>1 DEF Dispatched, Wrote, Counted, SeenStep, Seen
  <1>12. CASE Succeeded(t)
    <2>1. Phase(t) = "running" /\ Phase(t)' = "running"
      BY <1>12, PhaseOfCall DEF Succeeded
    <2> QED BY <1>1, <1>12, <2>1 DEF Succeeded, Wrote, Counted, SeenStep
  <1>13. CASE Failed(t)
    <2>1. Phase(t) = "running" /\ Phase(t)' = "failed"
      BY <1>13, PhaseOfCall, PhaseOfRowNext DEF Failed, Wrote
    <2> QED BY <1>13, <2>1 DEF Failed, Wrote, Counted, SeenStep, Seen
  <1> QED
    BY <1>3, <1>4, <1>5, <1>6, <1>7, <1>8, <1>9, <1>10, <1>11, <1>12, <1>13 DEF RowStep

\* If one task is seen to move and nothing else changes, the lifecycle moves.
LEMMA SeenStepIsLifecycle ==
  ASSUME Sound, NEW t \in Tasks, SeenStep(t), \A w \in Tasks : w # t => Untouched(w),
         WithdrawnMap' = WithdrawnMap,
         approved' \in [Tasks -> Nat], dispatched' \in [Tasks -> Nat]
  PROVE  [Lifecycle!Next]_(Lifecycle!vars)
  <1> DEFINE ph == PhaseMap  ow == OwnerMap  wd == WithdrawnMap
  <1>1. \A w \in Tasks : w # t => /\ Phase(w)' = Phase(w) /\ task'[w].policy = task[w].policy
                                  /\ approved'[w] = approved[w] /\ dispatched'[w] = dispatched[w]
    BY PhaseOfCall DEF Untouched
  <1>2. approved \in [Tasks -> Nat] /\ dispatched \in [Tasks -> Nat]
    BY DEF Sound, TypeOK
  <1>3. ph' = [ph EXCEPT ![t] = Phase(t)'] /\ ph[t] = Phase(t)
    BY <1>1 DEF PhaseMap
  <1>4. ow' = [ow EXCEPT ![t] = task'[t].policy] /\ ow[t] = task[t].policy
    BY <1>1 DEF OwnerMap
  <1>5. task'[t].policy = task[t].policy => ow' = ow
    BY <1>1, <1>4 DEF OwnerMap
  <1>6. /\ approved'[t] = approved[t] => approved' = approved
        /\ approved'[t] = approved[t] + 1 => approved' = [approved EXCEPT ![t] = @ + 1]
        /\ dispatched'[t] = dispatched[t] => dispatched' = dispatched
        /\ dispatched'[t] = dispatched[t] + 1 => dispatched' = [dispatched EXCEPT ![t] = @ + 1]
    BY <1>1, <1>2
  <1>7. ~policy[task[t].policy].revoked => ow[t] \notin wd
    BY <1>4 DEF WithdrawnMap
  <1>8. Phase(t)' = Phase(t) => ph' = ph
    BY <1>1, <1>3 DEF PhaseMap
  <1>9. approved[t] \in Nat /\ dispatched[t] \in Nat
    BY <1>2
  <1>10. ASSUME NEW from, NEW to, Phase(t) \in from, Phase(t)' = to
         PROVE  Lifecycle!Move(t, from, to)
    BY <1>3, <1>10 DEF Lifecycle!Move, PhaseMap
  <1> USE DEF PhaseMap, OwnerMap, WithdrawnMap
  <1>11. CASE /\ Phase(t)' = Phase(t) /\ task'[t].policy = task[t].policy
              /\ approved'[t] = approved[t] /\ dispatched'[t] = dispatched[t]
    <2>1. ph' = ph /\ ow' = ow /\ wd' = wd /\ approved' = approved /\ dispatched' = dispatched
      BY <1>5, <1>6, <1>8, <1>11
    <2> QED BY <2>1 DEF Lifecycle!vars
  <1>12. CASE /\ Phase(t) = "absent" /\ Phase(t)' = "open" /\ task'[t].policy \in Policies
              /\ approved'[t] = approved[t] /\ dispatched'[t] = dispatched[t]
    <2>1. \E p \in Policies : p = task'[t].policy
      BY <1>12
    <2>2. \E p \in Policies : Lifecycle!Open(t, p)
      BY <1>3, <1>4, <1>6, <1>12, <2>1 DEF Lifecycle!Open
    <2> QED BY <2>2 DEF Lifecycle!Next
  <1>13. CASE Seen(t, {"open"}, "simulated", 0, 0)
    <2>1. Lifecycle!Simulate(t)
      BY <1>5, <1>6, <1>9, <1>10, <1>13 DEF Lifecycle!Simulate, Seen
    <2> QED BY <2>1 DEF Lifecycle!Next
  <1>14. CASE Seen(t, {"simulated", "failed"}, "approved", 1, 0)
    <2>1. Lifecycle!Approve(t)
      BY <1>5, <1>6, <1>9, <1>10, <1>14 DEF Lifecycle!Approve, Seen
    <2> QED BY <2>1 DEF Lifecycle!Next
  <1>15. CASE Seen(t, {"approved"}, "running", 0, 1) /\ ~policy[task[t].policy].revoked
    <2>1. Lifecycle!Dispatch(t)
      BY <1>5, <1>6, <1>7, <1>9, <1>10, <1>15 DEF Lifecycle!Dispatch, Seen
    <2> QED BY <2>1 DEF Lifecycle!Next
  <1>16. CASE Seen(t, {"running"}, "done", 0, 0) \/ Seen(t, {"running"}, "failed", 0, 0)
    <2>1. Lifecycle!Settle(t)
      BY <1>5, <1>6, <1>9, <1>10, <1>16 DEF Lifecycle!Settle, Seen
    <2> QED BY <2>1 DEF Lifecycle!Next
  <1>17. CASE Seen(t, {"open", "simulated", "approved", "done", "failed"}, "closed", 0, 0)
    <2>1. Lifecycle!Close(t)
      BY <1>5, <1>6, <1>9, <1>10, <1>17 DEF Lifecycle!Close, Seen
    <2> QED BY <2>1 DEF Lifecycle!Next
  <1> QED BY <1>11, <1>12, <1>13, <1>14, <1>15, <1>16, <1>17 DEF SeenStep

-----------------------------------------------------------------------------

\* The execution core keeps the promise of TaskLifecycle.
THEOREM CoreImplementsLifecycle == Spec => ImplementsLifecycle
  <1>1. Init => Lifecycle!Init
    <2> SUFFICES ASSUME Init PROVE Lifecycle!Init
      OBVIOUS
    <2>1. ASSUME NEW t \in Tasks PROVE Phase(t) = "absent" /\ task[t].policy = NoPolicy
      BY PhaseOfRow DEF Init, AbsentTask, NoCall
    <2>2. \A p \in Policies : ~policy[p].revoked
      BY DEF Init, AbsentPolicy
    <2> QED BY <2>1, <2>2 DEF Init, Lifecycle!Init
  <1>2. Sound /\ TypeOK' /\ RevokedExists /\ [Next]_vars => [Lifecycle!Next]_(Lifecycle!vars)
    <2> SUFFICES ASSUME Sound, TypeOK', RevokedExists, [Next]_vars
                 PROVE  [Lifecycle!Next]_(Lifecycle!vars)
      OBVIOUS
    <2>1. approved' \in [Tasks -> Nat] /\ dispatched' \in [Tasks -> Nat]
      BY DEF TypeOK
    <2>2. ASSUME NEW t \in Tasks, \A w \in Tasks : w # t => Untouched(w), WithdrawnMap' = WithdrawnMap
          PROVE  [Lifecycle!Next]_(Lifecycle!vars)
      <3>1. SeenStep(t)
        BY RowSteps, RowStepIsSeen DEF Sound
      <3> QED BY <2>1, <2>2, <3>1, SeenStepIsLifecycle
    <2>3. ASSUME UNCHANGED <<task, call, approved, dispatched>>, WithdrawnMap' = WithdrawnMap
          PROVE  UNCHANGED Lifecycle!vars
      <3>1. \A t \in Tasks : Phase(t)' = Phase(t) /\ task'[t].policy = task[t].policy
        BY <2>3, PhaseOfCall
      <3> QED BY <2>3, <3>1 DEF Lifecycle!vars, WithdrawnMap
    <2>4. ASSUME NEW t \in Tasks, TaskStep(t) PROVE [Lifecycle!Next]_(Lifecycle!vars)
      <3>1. WithdrawnMap' = WithdrawnMap
        BY <2>4, TaskStepsKeepPolicies DEF WithdrawnMap
      <3> QED BY <2>2, <2>4, <3>1, OthersUntouched DEF Sound
    <2>5. ASSUME NEW p \in Policies, NEW q, ~policy[p].exists, ~q.revoked,
                 policy' = [policy EXCEPT ![p] = q]
          PROVE  WithdrawnMap' = WithdrawnMap
      <3>1. ~policy[p].revoked /\ ~policy'[p].revoked
        BY <2>5 DEF Sound, TypeOK, RevokedExists
      <3>2. \A r \in Policies : r # p => policy'[r] = policy[r]
        BY <2>5 DEF Sound, TypeOK
      <3> QED BY <3>1, <3>2 DEF WithdrawnMap
    <2>6. CASE Creation
      <3>1. PICK t \in Tasks, p \in Policies, k \in Keys :
              CreateTask(t, p, k) \/ \E q \in PolicyTerms : Hire(t, p, k, q)
        BY <2>6 DEF Creation
      <3>2. WithdrawnMap' = WithdrawnMap
        <4>1. CASE CreateTask(t, p, k)
          BY <4>1 DEF CreateTask, WithdrawnMap
        <4>2. ASSUME NEW q \in PolicyTerms, Hire(t, p, k, q) PROVE WithdrawnMap' = WithdrawnMap
          BY <2>5, <4>2, NewPolicyType DEF Hire, Sound
        <4> QED BY <3>1, <4>1, <4>2
      <3>3. ASSUME NEW w \in Tasks, w # t PROVE Untouched(w)
        <4>1. UNCHANGED history
          BY <3>1 DEF CreateTask, Hire
        <4>2. CASE UNCHANGED <<task, call>>
          BY <4>1, <4>2 DEF Untouched, history
        <4>3. CASE task' = [task EXCEPT ![t] = NewTask(p)] /\ (Goto(t, "hired") \/ UNCHANGED call)
          <5>1. task' \in [Tasks -> TaskRow] /\ task'[w] = task[w]
            BY <3>3, <4>3, NewTaskType DEF Sound, TypeOK
          <5>2. call'[w] = call[w]
            BY <3>3, <4>3, <5>1, GotoEffect DEF Sound, Stage
          <5> QED BY <4>1, <5>1, <5>2 DEF Untouched, history
        <4> QED BY <3>1, <4>2, <4>3 DEF CreateTask, Hire
      <3> QED BY <2>2, <3>2, <3>3
    <2>7. CASE Permission
      <3>1. PICK p \in Policies : RevokePolicy(p) \/ \E q \in PolicyTerms : CreatePolicy(p, q)
        BY <2>7 DEF Permission
      <3>2. UNCHANGED <<task, call, approved, dispatched>>
        BY <3>1 DEF RevokePolicy, CreatePolicy, history
      <3>3. ASSUME NEW q \in PolicyTerms, CreatePolicy(p, q) PROVE WithdrawnMap' = WithdrawnMap
        BY <2>5, <3>3, NewPolicyType DEF CreatePolicy, Sound
      <3>4. CASE RevokePolicy(p)
        <4>1. policy'[p].revoked /\ \A r \in Policies : r # p => policy'[r] = policy[r]
          BY <3>4 DEF RevokePolicy, Sound, TypeOK, PolicyRow
        <4>2. WithdrawnMap' = WithdrawnMap \union {p}
          BY <4>1 DEF WithdrawnMap
        <4>3. [t \in Tasks |-> Phase(t)]' = [t \in Tasks |-> Phase(t)]
          BY <3>2, PhaseOfCall
        <4>4. Lifecycle!Withdraw(p)
          BY <3>2, <4>2, <4>3 DEF Lifecycle!Withdraw, WithdrawnMap
        <4> QED BY <4>4 DEF Lifecycle!Next
      <3> QED BY <2>3, <3>1, <3>2, <3>3, <3>4
    <2>8. CASE Crash
      <3>1. UNCHANGED <<policy, task, approved, dispatched>> /\ \A t \in Tasks : call'[t].stage = "none"
        BY <2>8 DEF Crash, history, NoCall
      <3>2. ASSUME NEW t \in Tasks PROVE Phase(t)' \in Phases
        <4>1. Phase(t) \in Phases /\ SeenStep(t)
          BY RowSteps, RowStepIsSeen, PhaseType DEF Sound
        <4> QED BY <4>1 DEF SeenStep, Seen, Phases
      <3>3. ASSUME NEW t \in Tasks, Phase(t)' # Phase(t) PROVE Phase(t) = "running" /\ Phase(t)' = "done"
        <4>1. OwnsTask(t) /\ call[t].stage \in Stage /\ task'[t] = task[t]
          BY <3>1, RowTypes DEF Sound, CallOwnsTask
        <4>2. CASE call[t].stage \in {"none", "hired", "simulated"}
          BY <3>1, <3>3, <4>1, <4>2 DEF Phase
        <4>3. CASE call[t].stage \in {"await", "succeeded", "except"}
          <5>1. task[t].state \in {"executing", "succeeded"} /\ Phase(t) = "running"
            BY <4>1, <4>3, PhaseOfCall DEF OwnsTask
          <5> QED BY <3>1, <3>3, <4>1, <5>1, PhaseOfRowNext
        <4> QED BY <4>1, <4>2, <4>3 DEF Stage
      <3>4. Lifecycle!SettleSome
        BY <3>1, <3>2, <3>3 DEF Lifecycle!SettleSome, Phases
      <3> QED BY <3>4 DEF Lifecycle!Next
    <2>9. CASE Environment \/ UNCHANGED vars
      BY <2>3, <2>8, <2>9 DEF Environment, SetKillSwitch, Tick, Midnight, vars, history, WithdrawnMap
    <2> QED BY <2>4, <2>6, <2>7, <2>9 DEF Next
  <1> QED BY <1>1, <1>2, SoundAlways, TypeCorrect, RevokedExistsAlways, PTL
           DEF Spec, ImplementsLifecycle, Lifecycle!Spec

===============================================================================
