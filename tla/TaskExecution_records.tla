----------------------- MODULE TaskExecution_records -----------------------
(***************************************************************************)
(* What the ledger and the bookings say of the tasks, for every value of   *)
(* the constants of TaskExecution.                                         *)
(***************************************************************************)
EXTENDS TaskExecution_proofs, FiniteSetTheorems

Recordable == TaskState \ {"simulated", "executing"}

LEMMA Kinds ==
  /\ DOMAIN KindOf = Recordable
  /\ KindOf["draft"] = "task_created" /\ KindOf["approval_required"] = "task_simulated"
  /\ KindOf["approved"] = "task_approved" /\ KindOf["succeeded"] = "task_executed"
  /\ KindOf["failed"] = "task_executed" /\ KindOf["revoked"] = "task_revoked"
  BY DEF KindOf, TaskState, Recordable

\* The event of the row as it is.
RowEvent(t) == Event(KindOf[task[t].state], t, task[t].version)

\* An event that a step appends tells of a decision of the gate, of a policy, or of a
\* row as the step leaves it.
Tells(e) ==
  \/ e.kind \in {"risk_allowed", "risk_rejected"}
  \/ e.subject \in Policies
  \/ \E t \in Tasks : task'[t].state \in Recordable /\ e = RowEvent(t)'

\* A step that rewrites a row and lets its handler go, or books, appends the event of
\* the row; a handler about to book does.
Recorded(t) ==
  /\ call'[t].stage \in {"none", "hired"} /\ task'[t].state \in Recordable
       /\ (task'[t] # task[t] \/ booked'[t] # booked[t]) => RowEvent(t)' \in ledger'
  /\ call[t].stage = "succeeded" => booked'[t] = booked[t] + 1 \/ call'[t] = call[t]

NoFault == faults' = faults

LEMMA LogTells ==
  ASSUME TypeOK, NEW e, Log(e)
  PROVE  /\ \A x \in ledger' \ ledger : x = e
         /\ NoFault => e \in ledger'
  BY DEF TypeOK, Log, Fault, NoFault

\* Writing a row and appending its event.
LEMMA RowIsLogged ==
  ASSUME TypeOK, NEW t \in Tasks, NEW s \in Recordable, task'[t].state = s,
         Log(Event(KindOf[s], t, task'[t].version))
  PROVE  /\ \A e \in ledger' \ ledger : Tells(e)
         /\ NoFault => RowEvent(t)' \in ledger'
  <1>1. RowEvent(t)' = Event(KindOf[s], t, task'[t].version)  BY DEF RowEvent
  <1> QED  BY <1>1, LogTells, Zenon DEF Tells

LEMMA FaultsCount ==
  ASSUME TypeOK, NEW k, Fault(k) PROVE ~NoFault
  BY DEF TypeOK, Fault, NoFault

LEMMA TaskLogs ==
  ASSUME Sound, NEW t \in Tasks, TaskStep(t)
  PROVE  /\ \A e \in ledger' \ ledger : Tells(e)
         /\ NoFault => Recorded(t)
  <1> USE DEF Sound
  <1>0. OwnsTask(t) /\ TypeOK  BY DEF CallOwnsTask
  <1>1. ASSUME UNCHANGED ledger, NoFault => Recorded(t)
        PROVE  (\A e \in ledger' \ ledger : Tells(e)) /\ (NoFault => Recorded(t))
    BY <1>1
  <1>2. ASSUME UNCHANGED <<task, booked>>, call[t].stage # "succeeded" PROVE Recorded(t)
    BY <1>2 DEF Recorded
  <1>3. ASSUME NEW s \in Recordable, task'[t].state = s, Log(Event(KindOf[s], t, task'[t].version)),
               call[t].stage # "succeeded"
        PROVE  (\A e \in ledger' \ ledger : Tells(e)) /\ (NoFault => Recorded(t))
    BY <1>3, RowIsLogged, <1>0 DEF Recorded
  <1>4. CASE Simulate(t) \/ InvokeAgent(t)
    <2>1. ASSUME RecordSimulation(t) PROVE call'[t].stage = "simulated" /\ call[t].stage # "succeeded"
      <3>1. now + SimulationTTL \in Nat /\ task[t].receipt \in {"none", "success", "failure"}
        BY ConstantsOK, <1>0, RowTypes DEF ConstantsOK, TypeOK
      <3>2. task' \in [Tasks -> TaskRow]
        BY <1>0, <2>1, <3>1, UpdateTaskEffect DEF RecordSimulation, TaskState
      <3>3. task[t].state = "draft"  BY <1>0, <2>1, Transitions DEF RecordSimulation
      <3> QED  BY <1>0, <2>1, <3>2, <3>3, GotoEffect DEF RecordSimulation, Stage, OwnsTask
    <2>2. ASSUME RecordSimulation(t) PROVE Recorded(t)
      BY <2>1, <2>2 DEF Recorded
    <2> QED  BY <1>1, <1>2, <1>4, <2>2 DEF Simulate, InvokeAgent, history
  <1>5. CASE FinishSimulation(t)
    <2>1. CASE task' = Update(t, "approval_required") /\ Log(Event("task_simulated", t, task'[t].version))
      <3>1. task'[t].state = "approval_required"  BY <1>0, <2>1, UpdateEffect DEF TaskState
      <3> QED  BY <1>3, <1>5, <2>1, <3>1, Kinds DEF FinishSimulation, Recordable, TaskState
    <2> QED  BY <1>1, <1>2, <1>5, <2>1 DEF FinishSimulation, history
  <1>6. CASE Approve(t)
    <2>1. task'[t].state = "approved"  BY <1>0, <1>6, UpdateEffect DEF Approve, TaskState
    <2>2. call[t].stage # "succeeded"  BY <1>0, <1>6 DEF Approve, LoopFree, Yielded
    <2> QED  BY <1>3, <1>6, <2>1, <2>2, Kinds DEF Approve, Recordable, TaskState
  <1>7. CASE RevokeTask(t)
    <2>1. task'[t].state = "revoked"  BY <1>0, <1>7, UpdateEffect DEF RevokeTask, TaskState
    <2>2. call[t].stage # "succeeded"  BY <1>0, <1>7 DEF RevokeTask, LoopFree, Yielded
    <2> QED  BY <1>3, <1>7, <2>1, <2>2, Kinds DEF RevokeTask, Recordable, TaskState
  <1>8. CASE Execute(t)
    <2>1. PICK v \in Values, b \in BOOLEAN :
            RejectExecute(t, v, b) \/ AllowWithoutEffect(t, v, b) \/ BeginExecute(t, v, b)
      BY <1>8 DEF Execute
    <2>2. \A e \in ledger' \ ledger : Tells(e)
      <3>1. \A e \in ledger' \ ledger : e.kind \in {"risk_allowed", "risk_rejected"}
        BY <2>1 DEF RejectExecute, AllowWithoutEffect, BeginExecute, Event
      <3> QED  BY <3>1, Zenon DEF Tells
    <2>3. call[t].stage # "succeeded"
      BY <2>1 DEF RejectExecute, AllowWithoutEffect, BeginExecute, LoopFree, Yielded
    <2>4. CASE BeginExecute(t, v, b)
      <3>1. call'[t].stage = "await"  BY <1>0, <2>4 DEF BeginExecute, TypeOK
      <3> QED  BY <2>2, <2>3, <3>1 DEF Recorded
    <2>5. CASE RejectExecute(t, v, b) \/ AllowWithoutEffect(t, v, b)
      BY <1>2, <2>2, <2>3, <2>5 DEF RejectExecute, AllowWithoutEffect, history
    <2> QED  BY <2>1, <2>4, <2>5
  <1>9. ASSUME task' = UpdateReceipt(t, "failed", "failure"), call[t].stage # "succeeded",
               Log(Event("task_executed", t, task'[t].version))
        PROVE  (\A e \in ledger' \ ledger : Tells(e)) /\ (NoFault => Recorded(t))
    <2>1. task'[t].state = "failed"  BY <1>0, <1>9, ReceiptEffect DEF TaskState
    <2> QED  BY <1>3, <1>9, <2>1, Kinds DEF Recordable, TaskState
  <1>10. CASE AdapterSucceeds(t)
    <2>1. UNCHANGED ledger /\ call[t].stage # "succeeded"  BY <1>10 DEF AdapterSucceeds
    <2>2. CASE task' = UpdateReceipt(t, "succeeded", "success") /\ Goto(t, "succeeded")
      <3>1. call'[t].stage = "succeeded"
        BY <1>0, <2>2, ReceiptEffect, GotoEffect DEF TaskState, Stage
      <3> QED  BY <1>1, <2>1, <3>1 DEF Recorded
    <2> QED  BY <1>1, <1>2, <1>10, <2>1, <2>2 DEF AdapterSucceeds, history
  <1>11. CASE AdapterFails(t)
    BY <1>1, <1>2, <1>9, <1>11 DEF AdapterFails, history
  <1>12. CASE AdapterRaises(t)
    BY <1>1, <1>2, <1>12 DEF AdapterRaises, history
  <1>13. CASE BookSpend(t)
    <2>1. CASE booked' = [booked EXCEPT ![t] = @ + 1] /\ Log(Event("task_executed", t, task[t].version))
      <3>1. task' = task /\ task[t].state = "succeeded"  BY <1>0, <1>13 DEF BookSpend, OwnsTask
      <3>2. booked'[t] = booked[t] + 1  BY <1>0, <2>1 DEF TypeOK
      <3>3. Log(Event(KindOf["succeeded"], t, task'[t].version))  BY <2>1, <3>1, Kinds
      <3>4. (\A e \in ledger' \ ledger : Tells(e)) /\ (NoFault => RowEvent(t)' \in ledger')
        BY <1>0, <3>1, <3>3, RowIsLogged DEF Recordable, TaskState
      <3> QED  BY <3>2, <3>4 DEF Recorded
    <2>2. CASE Fault("store") /\ UNCHANGED ledger
      BY <1>0, <2>2, FaultsCount
    <2> QED  BY <1>13, <2>1, <2>2 DEF BookSpend
  <1>14. CASE ConvertToFailed(t)
    BY <1>1, <1>2, <1>9, <1>14 DEF ConvertToFailed, history
  <1> QED
    BY <1>4, <1>5, <1>6, <1>7, <1>8, <1>10, <1>11, <1>12, <1>13, <1>14 DEF TaskStep, Return, Continue

LEMMA StepLogs ==
  ASSUME Sound, [Next]_vars
  PROVE  /\ \A e \in ledger' \ ledger : Tells(e)
         /\ NoFault => \A t \in Tasks : Recorded(t)
  <1> USE DEF Sound
  <1>1. ASSUME NEW t \in Tasks, Untouched(t) PROVE Recorded(t)
    BY <1>1 DEF Untouched, Recorded
  <1>2. ASSUME NEW u \in Tasks, TaskStep(u)
        PROVE  (\A e \in ledger' \ ledger : Tells(e)) /\ (NoFault => \A t \in Tasks : Recorded(t))
    BY <1>1, <1>2, TaskLogs, OthersUntouched
  <1>3. ASSUME NEW p \in Policies, NEW e, NEW kind, e = Event(kind, p, 0) PROVE Tells(e)
    BY <1>3 DEF Tells, Event
  <1>4. ASSUME UNCHANGED <<task, call, approved, dispatched, booked>> PROVE \A t \in Tasks : Recorded(t)
    BY <1>1, <1>4 DEF Untouched
  <1>5. CASE Permission
    <2>1. PICK p \in Policies, kind \in {"permission_created", "permission_revoked"} : Log(Event(kind, p, 0))
      BY <1>5 DEF Permission, RevokePolicy, CreatePolicy
    <2>2. \A e \in ledger' \ ledger : Tells(e)  BY <1>3, <2>1, LogTells
    <2> QED  BY <1>4, <1>5, <2>2 DEF Permission, RevokePolicy, CreatePolicy, history
  <1>6. CASE Creation
    <2>1. PICK t \in Tasks, p \in Policies, k \in Keys :
            CreateTask(t, p, k) \/ \E q \in PolicyTerms : Hire(t, p, k, q)
      BY <1>6 DEF Creation
    <2>2. CASE UNCHANGED <<task, call>> /\ ledger' = ledger \union {Event("permission_created", p, 0)}
               /\ UNCHANGED history
      BY <1>3, <1>4, <2>2 DEF history
    <2>3. ASSUME task' = [task EXCEPT ![t] = NewTask(p)]
          PROVE  /\ \A u \in Tasks : u # t => task'[u] = task[u]
                 /\ task'[t].state = "draft" /\ task'[t].state \in Recordable
                 /\ RowEvent(t)' = Event("task_created", t, 0)
                 /\ task' \in [Tasks -> TaskRow]
      <3>1. task'[t] = NewTask(p) /\ (\A u \in Tasks : u # t => task'[u] = task[u])
        BY <2>3 DEF TypeOK
      <3>2. task' \in [Tasks -> TaskRow]  BY <2>3, NewTaskType DEF TypeOK
      <3> QED  BY <3>1, <3>2, NewTaskFields, Kinds DEF RowEvent, Recordable, TaskState
    <2>4. CASE CreateTask(t, p, k)
      <3>1. task' = [task EXCEPT ![t] = NewTask(p)] /\ Log(Event("task_created", t, 0)) /\ LoopFree
            /\ UNCHANGED <<call, history>>
        BY <2>4 DEF CreateTask
      <3>2. \A e \in ledger' \ ledger : Tells(e)  BY <2>3, <3>1, LogTells, Zenon DEF Tells
      <3>3. NoFault => RowEvent(t)' \in ledger'  BY <2>3, <3>1, LogTells
      <3>4. \A u \in Tasks : u # t => Recorded(u)  BY <1>1, <2>3, <3>1 DEF Untouched, history
      <3>5. call[t].stage # "succeeded"  BY <3>1 DEF LoopFree, Yielded
      <3> QED  BY <3>2, <3>3, <3>4, <3>5 DEF Recorded
    <2>5. ASSUME NEW q \in PolicyTerms, Hire(t, p, k, q), task' = [task EXCEPT ![t] = NewTask(p)],
                 ledger' = ledger \union {Event("permission_created", p, 0), Event("task_created", t, 0)},
                 Goto(t, "hired")
          PROVE  (\A e \in ledger' \ ledger : Tells(e)) /\ (NoFault => \A u \in Tasks : Recorded(u))
      <3>1. \A e \in ledger' \ ledger : Tells(e)
        <4>1. ASSUME NEW e, e = Event("task_created", t, 0) PROVE Tells(e)
          BY <2>3, <2>5, <4>1, Zenon DEF Tells
        <4> QED  BY <1>3, <2>5, <4>1
      <3>2. RowEvent(t)' \in ledger'  BY <2>3, <2>5
      <3>3. \A u \in Tasks : u # t => call'[u] = call[u]
        BY <2>3, <2>5, GotoEffect DEF Stage
      <3>4. UNCHANGED history /\ LoopFree  BY <2>5 DEF Hire
      <3>5. \A u \in Tasks : u # t => Recorded(u)  BY <1>1, <2>3, <2>5, <3>3, <3>4 DEF Untouched, history
      <3>6. call[t].stage # "succeeded"  BY <3>4 DEF LoopFree, Yielded
      <3> QED  BY <3>1, <3>2, <3>5, <3>6 DEF Recorded
    <2> QED  BY <2>1, <2>2, <2>4, <2>5 DEF Hire
  <1>7. CASE Environment
    <2>1. CASE Crash
      BY <2>1, FaultsCount DEF Crash
    <2> QED  BY <1>4, <1>7, <2>1 DEF Environment, SetKillSwitch, Tick, Midnight, history
  <1>8. CASE UNCHANGED vars
    BY <1>4, <1>8 DEF vars, history
  <1> QED  BY <1>2, <1>5, <1>6, <1>7, <1>8 DEF Next

-----------------------------------------------------------------------------

\* What a step leaves of a row: the row itself, its next version, or a new task.
LEMMA VersionsRise ==
  ASSUME Sound, [Next]_vars, NEW t \in Tasks
  PROVE  \/ task'[t] = task[t]
         \/ task'[t].version = task[t].version + 1 /\ task'[t].state # "absent" /\ task[t].state # "absent"
         \/ task[t].state = "absent" /\ task'[t].state = "draft" /\ task'[t].version = 0
  <1>1. RowStep(t)  BY RowSteps DEF Sound
  <1>2. CASE Created(t)
    BY <1>2, NewTaskFields DEF Created
  <1> QED
    BY <1>1, <1>2 DEF RowStep, Untouched, HandlerMoved, Booked, Simulated, Presented, Approved,
                      Revoked, Dispatched, Succeeded, Failed, Wrote

\* A task id that was not drawn has no version: the ledger says nothing of it.
AbsentIsNew == \A t \in Tasks : task[t].state = "absent" => task[t].version = 0

\* No append that fails, no write that is refused and no crash makes the ledger say
\* more of a task, or something else, than the store.
THEOREM TheLedgerFollows == Spec => []LedgerFollowsStore
  <1>1. Init => LedgerFollowsStore /\ AbsentIsNew
    BY DEF Init, LedgerFollowsStore, AbsentIsNew, AbsentTask
  <1>2. Sound /\ LedgerFollowsStore /\ AbsentIsNew /\ [Next]_vars => LedgerFollowsStore' /\ AbsentIsNew'
    <2> SUFFICES ASSUME Sound, LedgerFollowsStore, AbsentIsNew, [Next]_vars
                 PROVE  LedgerFollowsStore' /\ AbsentIsNew'
      OBVIOUS
    <2>1. AbsentIsNew'
      BY VersionsRise DEF AbsentIsNew
    <2>2. ASSUME NEW e \in ledger', NEW t \in Tasks, e.subject = t,
                 e.kind \notin {"risk_allowed", "risk_rejected"}
          PROVE  /\ e.version <= task'[t].version
                 /\ e.version = task'[t].version =>
                      task'[t].state \in Recordable /\ e.kind = KindOf[task'[t].state]
      <3>1. CASE e \in ledger
        <4>1. /\ e.version <= task[t].version
              /\ e.version = task[t].version =>
                   task[t].state \in Recordable /\ e.kind = KindOf[task[t].state]
          BY <2>2, <3>1, Kinds DEF LedgerFollowsStore
        <4>2. e.version \in Nat /\ task[t].version \in Nat
          BY <3>1, RowTypes DEF Sound, TypeOK, EventSet
        <4>3. ~(task[t].state = "absent" /\ task'[t].state = "draft" /\ task'[t].version = 0)
          BY <4>1, <4>2 DEF AbsentIsNew, Recordable, TaskState
        <4>4. CASE task'[t] = task[t]
          BY <4>1, <4>4
        <4>5. CASE task'[t].version = task[t].version + 1
          BY <4>1, <4>2, <4>5
        <4> QED  BY <4>3, <4>4, <4>5, VersionsRise
      <3>2. CASE e \notin ledger
        <4>1. Tells(e)  BY <3>2, StepLogs
        <4>2. e.subject \notin Policies  BY <2>2, ConstantsOK DEF ConstantsOK
        <4>3. PICK u \in Tasks : task'[u].state \in Recordable /\ e = RowEvent(u)'
          BY <2>2, <4>1, <4>2 DEF Tells
        <4>4. e.subject = u /\ e.kind = KindOf[task'[u].state] /\ e.version = task'[u].version
          BY <4>3 DEF RowEvent, Event
        <4>5. task'[t].version \in Nat
          BY VersionsRise, RowTypes DEF Sound
        <4> QED  BY <2>2, <4>3, <4>4, <4>5
      <3> QED  BY <3>1, <3>2
    <2> QED  BY <2>1, <2>2, Kinds DEF LedgerFollowsStore
  <1> QED  BY <1>1, <1>2, SoundAlways, PTL DEF Spec

-----------------------------------------------------------------------------

\* While nothing has failed: a success is booked or about to be, the except branch is
\* one of an adapter that raised, and a row whose handler is not between two commits
\* has its event.
Accounted(t) ==
  /\ task[t].receipt = "success" => booked[t] = 1 \/ call[t].stage = "succeeded"
  /\ call[t].stage = "except" => task[t].state = "executing"
  /\ call[t].stage \in {"none", "hired"} /\ task[t].state \in Recordable => RowEvent(t) \in ledger

\* Only what has succeeded carries a successful receipt.
SuccessIsKept == \A t \in Tasks : task[t].receipt = "success" => task[t].state \in {"succeeded", "revoked"}

EffectsInv == (faults = 0 => \A t \in Tasks : Accounted(t)) /\ SuccessIsKept

LEMMA SuccessKept ==
  ASSUME Sound, SuccessIsKept, [Next]_vars
  PROVE  SuccessIsKept'
  <1> SUFFICES ASSUME NEW t \in Tasks, task'[t].receipt = "success"
               PROVE  task'[t].state \in {"succeeded", "revoked"}
    BY DEF SuccessIsKept
  <1>1. RowStep(t)  BY RowSteps DEF Sound
  <1>2. ~Created(t)  BY NewTaskFields DEF Created
  <1> QED
    BY <1>1, <1>2 DEF SuccessIsKept, RowStep, Untouched, HandlerMoved, Booked, Simulated, Presented, Approved,
                      Revoked, Dispatched, Succeeded, Failed, Wrote

LEMMA FaultsOnlyCount ==
  ASSUME Sound, [Next]_vars, faults' = 0
  PROVE  NoFault
  <1>1. faults \in Nat  BY DEF Sound, TypeOK
  <1>2. ASSUME NEW k, Fault(k) PROVE FALSE  BY <1>1, <1>2 DEF Fault
  <1>3. ASSUME NEW e, Log(e) PROVE NoFault  BY <1>2, <1>3 DEF Log, NoFault
  <1>4. ASSUME NEW t \in Tasks, WriteRaises(t) PROVE NoFault  BY <1>2, <1>4 DEF WriteRaises, NoFault
  <1>5. CASE Permission  BY <1>3, <1>5 DEF Permission, RevokePolicy, CreatePolicy
  <1>6. CASE Creation  BY <1>3, <1>6 DEF Creation, CreateTask, Hire, NoFault
  <1>7. ASSUME NEW t \in Tasks, Execute(t) PROVE NoFault
    BY <1>2, <1>7 DEF Execute, RejectExecute, AllowWithoutEffect, BeginExecute, NoFault
  <1>8. ASSUME NEW t \in Tasks, Return(t) \/ Continue(t) PROVE NoFault
    BY <1>2, <1>3, <1>4, <1>8 DEF Return, AdapterSucceeds, AdapterFails, AdapterRaises,
                      Continue, InvokeAgent, FinishSimulation, BookSpend, ConvertToFailed, NoFault
  <1>9. ASSUME NEW t \in Tasks, Simulate(t) \/ Approve(t) \/ RevokeTask(t) PROVE NoFault
    BY <1>3, <1>9 DEF Simulate, Approve, RevokeTask, NoFault
  <1>10. CASE Environment
    BY <1>2, <1>10 DEF Environment, SetKillSwitch, Tick, Midnight, Crash, NoFault
  <1>11. CASE UNCHANGED vars  BY <1>11 DEF vars, NoFault
  <1> QED  BY <1>5, <1>6, <1>7, <1>8, <1>9, <1>10, <1>11 DEF Next, TaskStep

LEMMA AccountKept ==
  ASSUME Sound, SuccessIsKept, BookedOnce, [Next]_vars, NoFault, NEW t \in Tasks, Accounted(t)
  PROVE  Accounted(t)'
  <1>1. RowStep(t) /\ Recorded(t) /\ OwnsTask(t) /\ ledger \subseteq ledger' /\ booked[t] \in Nat
    BY RowSteps, StepLogs, LedgerGrows, RowTypes DEF Sound, CallOwnsTask
  <1>2. CASE Untouched(t)
    BY <1>1, <1>2 DEF Untouched, Accounted, RowEvent
  <1>3. CASE HandlerMoved(t)
    <2>1. task'[t] = task[t] /\ booked'[t] = booked[t]  BY <1>1, <1>3 DEF HandlerMoved, Counted
    <2>2. call[t].stage = "succeeded" => call'[t] = call[t]  BY <1>1, <2>1 DEF Recorded
    <2>3. call'[t].stage = "none" \/ (call'[t].stage = "except" /\ call[t].stage = "await")
      <3>1. call'[t].stage = "none" \/ (call'[t].stage = "except" /\ call[t].stage \in {"await", "succeeded"})
        BY <1>3 DEF HandlerMoved
      <3>2. call[t].stage = "succeeded" => call'[t].stage = "succeeded"
        BY <2>2
      <3> QED  BY <3>1, <3>2
    <2>4. RowEvent(t)' = RowEvent(t)  BY <2>1 DEF RowEvent
    <2>5. CASE call[t].stage = "succeeded"
      BY <2>2, <2>3, <2>5
    <2>6. CASE call[t].stage # "succeeded"
      <3>1. task[t].receipt = "success" => booked[t] = 1  BY <2>6 DEF Accounted
      <3>2. call'[t].stage = "except" => task[t].state = "executing"
        BY <1>1, <2>3 DEF OwnsTask
      <3>3. task[t].state \in Recordable => call[t].stage \in {"none", "hired"}
        BY <1>1, <2>6, RowTypes DEF Accounted, OwnsTask, Recordable, TaskState, Sound, Stage
      <3> QED  BY <1>1, <2>1, <2>4, <3>1, <3>2, <3>3 DEF Accounted
    <2> QED  BY <2>5, <2>6
  <1>4. CASE Booked(t)
    <2>1. task'[t] = task[t] /\ call'[t].stage = "none" /\ booked'[t] = booked[t] + 1
      BY <1>1, <1>4 DEF Booked, Counted
    <2>2. booked[t] # 1 /\ booked[t] <= 1  BY <1>4 DEF Booked, BookedOnce
    <2>3. booked'[t] = 1  BY <1>1, <2>1, <2>2
    <2> QED  BY <1>1, <2>1, <2>3 DEF Recorded, Accounted
  <1>5. CASE Created(t)
    BY <1>1, <1>5, NewTaskFields DEF Created, Recorded, Accounted
  <1>6. CASE Simulated(t)
    BY <1>1, <1>6 DEF Simulated, Wrote, Accounted, Counted, SuccessIsKept, Recordable
  <1>7. CASE Presented(t) \/ Approved(t)
    BY <1>1, <1>7 DEF Presented, Approved, Wrote, Accounted, Counted, SuccessIsKept, Recorded
  <1>8. CASE Revoked(t)
    BY <1>1, <1>8 DEF Revoked, Wrote, Accounted, Counted, Recorded
  <1>9. CASE Dispatched(t)
    BY <1>1, <1>9 DEF Dispatched, Wrote, Accounted, Counted, SuccessIsKept
  <1>10. CASE Succeeded(t)
    BY <1>1, <1>10 DEF Succeeded, Wrote, Accounted
  <1>11. CASE Failed(t)
    BY <1>1, <1>11 DEF Failed, Wrote, Accounted, Recorded
  <1> QED  BY <1>1, <1>2, <1>3, <1>4, <1>5, <1>6, <1>7, <1>8, <1>9, <1>10, <1>11 DEF RowStep

\* Without failures no success is missing from the bookings and no row from the ledger.
THEOREM EffectsAlwaysRecorded == Spec => []EffectsAreRecorded
  <1>1. Init => EffectsInv
    BY DEF Init, EffectsInv, SuccessIsKept, Accounted, AbsentTask, NoCall, Recordable, TaskState
  <1>2. Sound /\ BookedOnce /\ EffectsInv /\ [Next]_vars => EffectsInv'
    BY SuccessKept, FaultsOnlyCount, AccountKept DEF EffectsInv, NoFault
  <1>3. EffectsInv => EffectsAreRecorded
    BY Kinds DEF EffectsInv, EffectsAreRecorded, SuccessIsBooked, LedgerIsComplete, Accounted, RowEvent
  <1> QED  BY <1>1, <1>2, <1>3, SoundAlways, BookingsAreUnique, PTL DEF Spec

-----------------------------------------------------------------------------
(* The daily cap.  The gate's check and the booking are separated by the      *)
(* adapter call, so the proofs carry the room the gate has seen along with    *)
(* the call.  Serial clients keep the cap, whatever fails and however often   *)
(* the date changes while an adapter works; concurrent ones overshoot it by   *)
(* at most what the other tasks may execute.                                  *)

PoliciesOfTasksExist ==
  \A t \in Tasks : Exists(t) => task[t].policy \in Policies /\ policy[task[t].policy].exists

\* Nothing has been booked for a policy that does not exist, or on a later day.
NothingBookedAhead ==
  \A p \in Policies, d \in Days : ~policy[p].exists \/ d > day => spend[p][d] = 0

\* A call that may still book fits into what is left of today's cap.
CallFits ==
  \A t \in Tasks : call[t].stage \in {"await", "succeeded"} =>
    spend[task[t].policy][day] + call[t].value <= policy[task[t].policy].dailyValue

CapInvariant ==
  OneCallAtATime /\ PoliciesOfTasksExist /\ NothingBookedAhead /\ CallFits /\ SpendWithinDailyCap

-----------------------------------------------------------------------------

\* What a step may do to the bookings and the date.
Books(u) ==
  /\ call[u].stage = "succeeded" /\ call'[u].stage = "none"
  /\ spend' = [spend EXCEPT ![task[u].policy][day] = @ + call[u].value]
  /\ day' = day /\ UNCHANGED <<task, policy>>

SpendStep ==
  \/ spend' = spend /\ day' = day
  \/ spend' = spend /\ day' = day + 1 /\ UNCHANGED <<task, call, policy>>
  \/ \E u \in Tasks : Books(u)

LEMMA SpendSteps ==
  ASSUME TypeOK, [Next]_vars
  PROVE  SpendStep
  <1> USE DEF SpendStep
  <1>1. CASE Permission \/ Creation
    BY <1>1 DEF Permission, RevokePolicy, CreatePolicy, Creation, CreateTask, Hire
  <1>2. ASSUME NEW t \in Tasks, Execute(t) PROVE SpendStep
    BY <1>2 DEF Execute, RejectExecute, AllowWithoutEffect, BeginExecute
  <1>3. ASSUME NEW t \in Tasks, Return(t) PROVE SpendStep
    BY <1>3 DEF Return, AdapterSucceeds, AdapterFails, AdapterRaises
  <1>4. ASSUME NEW t \in Tasks, BookSpend(t) PROVE SpendStep
    BY <1>4, DoneEffect DEF BookSpend, Books
  <1>5. ASSUME NEW t \in Tasks, InvokeAgent(t) \/ FinishSimulation(t) \/ ConvertToFailed(t)
        PROVE SpendStep
    BY <1>5 DEF InvokeAgent, FinishSimulation, ConvertToFailed
  <1>6. ASSUME NEW t \in Tasks, Simulate(t) \/ Approve(t) \/ RevokeTask(t) PROVE SpendStep
    BY <1>6 DEF Simulate, Approve, RevokeTask
  <1>7. CASE Environment \/ UNCHANGED vars
    BY <1>7 DEF Environment, SetKillSwitch, Tick, Midnight, Crash, vars
  <1> QED BY <1>1, <1>2, <1>3, <1>4, <1>5, <1>6, <1>7 DEF Next, TaskStep, Continue

\* A policy that exists goes on existing on the same terms.
LEMMA TermsAreFixed ==
  ASSUME TypeOK, [Next]_vars, NEW p \in Policies, policy[p].exists
  PROVE  /\ policy'[p].exists
         /\ policy'[p].dailyValue = policy[p].dailyValue /\ policy'[p].maxValue = policy[p].maxValue
  <1>1. PolicyStep(p) /\ policy[p] \in PolicyRow
    BY PolicySteps DEF TypeOK
  <1> QED BY <1>1 DEF PolicyStep, PolicyRow

\* The types of the numbers the gate compares.
LEMMA NumberTypes ==
  ASSUME TypeOK, TypeOK', [Next]_vars
  PROVE  /\ \A p \in Policies : /\ policy[p].dailyValue \in Nat /\ policy'[p].dailyValue \in Nat
                               /\ policy[p].maxValue \in Nat /\ policy'[p].maxValue \in Nat
         /\ \A p \in Policies, d \in Days : spend[p][d] \in Nat /\ spend'[p][d] \in Nat
         /\ \A t \in Tasks : call[t].value \in Nat
         /\ day \in Days /\ day' \in Days /\ Days \subseteq Nat
  <1>1. day \in Days /\ day' \in Days /\ Days \subseteq Nat
    BY DEF TypeOK, Days
  <1>2. \A t \in Tasks : call[t].value \in Nat
    BY RowTypes
  <1>3. \A p \in Policies : policy[p] \in PolicyRow /\ policy'[p] \in PolicyRow
    BY DEF TypeOK
  <1>4. \A p \in Policies, d \in Days : spend[p][d] \in Nat /\ spend'[p][d] \in Nat
    BY DEF TypeOK
  <1> QED BY <1>1, <1>2, <1>3, <1>4 DEF PolicyRow

\* A booking is made for a policy that exists, and changes one number.
LEMMA BookingEffect ==
  ASSUME Sound, PoliciesOfTasksExist, NEW u \in Tasks, Books(u)
  PROVE  /\ task[u].policy \in Policies /\ policy[task[u].policy].exists
         /\ spend'[task[u].policy][day] = spend[task[u].policy][day] + call[u].value
         /\ \A p \in Policies, d \in Days :
              p # task[u].policy \/ d # day => spend'[p][d] = spend[p][d]
  <1>1. OwnsTask(u) /\ spend \in [Policies -> [Days -> Nat]] /\ day \in Days
    BY DEF Sound, CallOwnsTask, TypeOK
  <1>2. task[u].policy \in Policies /\ policy[task[u].policy].exists
    BY <1>1 DEF Books, OwnsTask, PoliciesOfTasksExist, Exists
  <1> QED BY <1>1, <1>2 DEF Books

LEMMA BookingFrame ==
  ASSUME Sound, TypeOK', PoliciesOfTasksExist, NothingBookedAhead, [Next]_vars
  PROVE  PoliciesOfTasksExist' /\ NothingBookedAhead'
  <1>1. TypeOK /\ SpendStep /\ \A t \in Tasks : RowStep(t)
    BY SpendSteps, RowSteps DEF Sound
  <1>2. PoliciesOfTasksExist'
    <2> SUFFICES ASSUME NEW t \in Tasks, task'[t].state # "absent"
                 PROVE  task'[t].policy \in Policies /\ policy'[task'[t].policy].exists
      BY DEF PoliciesOfTasksExist, Exists
    <2>1. CASE Created(t)
      BY <2>1, NewTaskFields DEF Created
    <2>2. CASE ~Created(t)
      <3>1. task'[t].policy = task[t].policy /\ task[t].state # "absent"
        BY <1>1, <2>2 DEF RowStep, Untouched, HandlerMoved, Booked, Simulated, Presented, Approved,
                          Revoked, Dispatched, Succeeded, Failed, Wrote
      <3> QED BY <1>1, <3>1, TermsAreFixed DEF PoliciesOfTasksExist, Exists
    <2> QED BY <2>1, <2>2
  <1>3. NothingBookedAhead'
    <2> SUFFICES ASSUME NEW p \in Policies, NEW d \in Days, ~policy'[p].exists \/ d > day'
                 PROVE  spend'[p][d] = 0
      BY DEF NothingBookedAhead
    <2>1. day <= day' /\ day \in Nat /\ day' \in Nat /\ d \in Nat
      <3>1. day' = day \/ day' = day + 1
        BY <1>1 DEF SpendStep, Books
      <3> QED BY <1>1, <3>1, NumberTypes
    <2>2. spend[p][d] = 0
      BY <1>1, <2>1, TermsAreFixed DEF NothingBookedAhead
    <2>3. ASSUME NEW u \in Tasks, Books(u) PROVE spend'[p][d] = 0
      <3>1. day' = day /\ policy' = policy
        BY <2>3 DEF Books
      <3>2. p # task[u].policy \/ d # day
        BY <2>1, <2>3, <3>1, BookingEffect
      <3> QED BY <2>2, <2>3, <3>2, BookingEffect
    <2> QED BY <1>1, <2>2, <2>3 DEF SpendStep
  <1> QED BY <1>2, <1>3

LEMMA CapInvariantKept ==
  ASSUME Sound, CapInvariant, [Next]_vars, OneCallAtATime', TypeOK'
  PROVE  CapInvariant'
  <1>1. TypeOK /\ SpendStep /\ \A t \in Tasks : RowStep(t) /\ OwnsTask(t)
    BY SpendSteps, RowSteps DEF Sound, CallOwnsTask
  <1>2. /\ \A p \in Policies : policy[p].dailyValue \in Nat /\ policy'[p].dailyValue \in Nat
        /\ \A p \in Policies, d \in Days : spend[p][d] \in Nat
        /\ \A t \in Tasks : call[t].value \in Nat
        /\ day \in Days /\ day' \in Days /\ Days \subseteq Nat
    BY <1>1, NumberTypes
  <1>3. ASSUME NEW t \in Tasks, task[t].state # "absent"
        PROVE  task[t].policy \in Policies /\ policy[task[t].policy].exists
    BY <1>3 DEF CapInvariant, PoliciesOfTasksExist, Exists
  <1>4. ASSUME NEW u \in Tasks, Books(u)
        PROVE  /\ task[u].policy \in Policies /\ policy[task[u].policy].exists
               /\ spend'[task[u].policy][day] = spend[task[u].policy][day] + call[u].value
               /\ \A p \in Policies, d \in Days :
                    p # task[u].policy \/ d # day => spend'[p][d] = spend[p][d]
    BY <1>4, BookingEffect DEF CapInvariant
  <1>5. PoliciesOfTasksExist' /\ NothingBookedAhead'
    BY BookingFrame DEF CapInvariant
  <1>7. SpendWithinDailyCap'
    <2> SUFFICES ASSUME NEW p \in Policies, NEW d \in Days
                 PROVE  spend'[p][d] <= policy'[p].dailyValue
      BY DEF SpendWithinDailyCap
    <2>1. spend[p][d] <= policy'[p].dailyValue
      <3>1. CASE policy[p].exists
        BY <1>1, <3>1, TermsAreFixed DEF CapInvariant, SpendWithinDailyCap
      <3>2. CASE ~policy[p].exists
        BY <1>2, <3>2 DEF CapInvariant, NothingBookedAhead
      <3> QED BY <3>1, <3>2
    <2>2. ASSUME NEW u \in Tasks, Books(u) PROVE spend'[p][d] <= policy'[p].dailyValue
      <3>1. spend[task[u].policy][day] + call[u].value <= policy[task[u].policy].dailyValue
        BY <2>2 DEF CapInvariant, CallFits, Books
      <3> QED BY <1>4, <2>1, <2>2, <3>1 DEF Books
    <2> QED BY <1>1, <2>1, <2>2 DEF SpendStep
  <1>8. CallFits'
    <2> SUFFICES ASSUME NEW t \in Tasks, call'[t].stage \in {"await", "succeeded"}
                 PROVE  spend'[task'[t].policy][day'] + call'[t].value <= policy'[task'[t].policy].dailyValue
      BY DEF CallFits
    <2> DEFINE p == task[t].policy
    <2>1. /\ call[t].stage \in {"await", "succeeded"} /\ task'[t] = task[t] /\ call'[t] = call[t]
          \/ Dispatched(t) \/ Succeeded(t)
      BY <1>1 DEF RowStep, Untouched, HandlerMoved, Booked, Created, Simulated, Presented, Approved,
                  Revoked, Failed
    <2>2. /\ p \in Policies /\ policy[p].exists /\ policy'[p].dailyValue = policy[p].dailyValue
          /\ task'[t].policy = p
      <3>1. task[t].state # "absent" /\ task'[t].policy = p
        BY <1>1, <2>1 DEF OwnsTask, Dispatched, Succeeded, Wrote
      <3> QED BY <1>1, <1>3, <3>1, TermsAreFixed
    <2>3. spend[p][day] + call'[t].value <= policy[p].dailyValue
      BY <2>1 DEF Dispatched, Succeeded, CapInvariant, CallFits
    <2>4. ASSUME NEW u \in Tasks PROVE ~Books(u)
      <3>1. SUFFICES ASSUME Books(u) PROVE FALSE
        OBVIOUS
      <3>2. task' = task /\ u # t /\ call[u].stage = "succeeded"
        BY <3>1 DEF Books
      <3>3. task[t].version \in Nat
        BY <1>1, RowTypes
      <3>4. call[t].stage # "none"
        BY <2>1, <3>2, <3>3 DEF Dispatched, Succeeded, Wrote
      <3> QED BY <3>2, <3>4 DEF CapInvariant, OneCallAtATime
    <2>5. call'[t].value \in Nat
      BY DEF TypeOK, CallRow
    <2>6. CASE spend' = spend /\ day' = day
      BY <2>2, <2>3, <2>6
    <2>7. CASE spend' = spend /\ day' = day + 1
      <3>1. spend'[p][day'] = 0 /\ spend[p][day] \in Nat
        BY <1>2, <2>2, <2>7 DEF CapInvariant, NothingBookedAhead
      <3> QED BY <1>2, <2>2, <2>3, <2>5, <3>1
    <2> QED BY <1>1, <2>4, <2>6, <2>7 DEF SpendStep
  <1> QED BY <1>5, <1>7, <1>8 DEF CapInvariant

\* Clients that execute one task at a time never exceed a daily cap.
THEOREM SerialClientsKeepTheCap == SerialSpec => []SpendWithinDailyCap
  <1>1. Init => CapInvariant
    <2> SUFFICES ASSUME Init PROVE CapInvariant
      OBVIOUS
    <2>1. OneCallAtATime /\ CallFits
      BY DEF Init, NoCall, OneCallAtATime, CallFits
    <2>2. PoliciesOfTasksExist
      BY DEF Init, AbsentTask, PoliciesOfTasksExist, Exists
    <2>3. NothingBookedAhead /\ SpendWithinDailyCap
      BY DEF Init, AbsentPolicy, NothingBookedAhead, SpendWithinDailyCap
    <2> QED BY <2>1, <2>2, <2>3 DEF CapInvariant
  <1>2. [Next /\ OneCallAtATime']_vars => [Next]_vars
    OBVIOUS
  <1>3. Sound /\ TypeOK' /\ CapInvariant /\ [Next /\ OneCallAtATime']_vars => CapInvariant'
    <2> SUFFICES ASSUME Sound, TypeOK', CapInvariant, [Next /\ OneCallAtATime']_vars
                 PROVE  CapInvariant'
      OBVIOUS
    <2>1. OneCallAtATime'
      BY DEF CapInvariant, OneCallAtATime, vars
    <2> QED BY <2>1, CapInvariantKept
  <1>4. CapInvariant => SpendWithinDailyCap
    BY DEF CapInvariant
  <1>5. SerialSpec => Spec
    BY <1>2, PTL DEF SerialSpec, Spec
  <1> QED BY <1>1, <1>3, <1>4, <1>5, SoundAlways, TypeCorrect, PTL DEF SerialSpec

-----------------------------------------------------------------------------
(* How far concurrent executions overshoot the cap. *)

\* Calls of a policy that may still book.
InFlight(p) == {t \in Tasks : call[t].stage \in {"await", "succeeded"} /\ task[t].policy = p}

CallsCapped ==
  \A p \in Policies : \A t \in InFlight(p) :
    call[t].value <= policy[p].maxValue /\ call[t].value <= policy[p].dailyValue

\* What is booked, with the calls F in flight, stays within the bound: all of them are
\* cheap enough, or all but one, whose value the gate has added up.
HasRoom(F, booking, c, max, bound) ==
  \/ booking + Cardinality(F) * max <= bound
  \/ \E t \in F : booking + c[t].value + (Cardinality(F) - 1) * max <= bound

Bound(p) == policy[p].dailyValue + (Cardinality(Tasks) - 1) * policy[p].maxValue

OvershootInv ==
  /\ PoliciesOfTasksExist /\ NothingBookedAhead /\ CallsCapped /\ OvershootIsBounded
  /\ \A p \in Policies : HasRoom(InFlight(p), spend[p][day], call, policy[p].maxValue, Bound(p))

LEMMA Times ==
  ASSUME NEW n \in Nat, NEW m \in Nat
  PROVE  /\ n * m \in Nat /\ (n + 1) * m = n * m + m /\ (n - 1) * m = n * m - m
         /\ \A k \in Nat : n <= k => n * m <= k * m
  <1>1. n * m \in Nat /\ (n + 1) * m = n * m + m /\ (n - 1) * m = n * m - m  OBVIOUS
  <1>2. ASSUME NEW k \in Nat, n <= k PROVE n * m <= k * m
    <2>1. k - n \in Nat  BY <1>2
    <2>2. (k - n) * m \in Nat  BY <2>1
    <2>3. k * m = n * m + (k - n) * m  BY <2>1
    <2> QED  BY <1>1, <2>2, <2>3
  <1> QED  BY <1>1, <1>2

LEMMA RoomAfterLeaving ==
  ASSUME NEW F, IsFiniteSet(F), NEW u \in F, NEW s \in Nat, NEW m \in Nat, NEW b \in Nat, NEW c,
         \A t \in F : c[t].value \in Nat /\ c[t].value <= m,
         HasRoom(F, s, c, m, b)
  PROVE  HasRoom(F \ {u}, s + c[u].value, c, m, b) /\ HasRoom(F \ {u}, s, c, m, b)
  <1> DEFINE n == Cardinality(F)
  <1>1. n \in Nat /\ n - 1 \in Nat /\ Cardinality(F \ {u}) = n - 1
    <2>1. n \in Nat /\ Cardinality(F \ {u}) = n - 1 /\ Cardinality(F \ {u}) \in Nat
      BY FS_CardinalityType, FS_RemoveElement
    <2> QED  BY <2>1
  <1> HIDE DEF n
  <1>2. /\ n * m \in Nat /\ (n - 1) * m = n * m - m /\ (n - 1) * m \in Nat
        /\ ((n - 1) - 1) * m = (n - 1) * m - m
    BY <1>1, Times
  <1>3. HasRoom(F, s, c, m, b) <=> \/ s + n * m <= b
                                   \/ \E t \in F : s + c[t].value + (n - 1) * m <= b
    BY Zenon DEF HasRoom, n
  <1>4. ASSUME NEW x
        PROVE  HasRoom(F \ {u}, x, c, m, b)
                 <=> \/ x + (n - 1) * m <= b
                     \/ \E t \in F \ {u} : x + c[t].value + ((n - 1) - 1) * m <= b
    BY <1>1, Zenon DEF HasRoom
  <1>5. CASE s + n * m <= b
    <2>1. s + c[u].value + (n - 1) * m <= b /\ s + (n - 1) * m <= b  BY <1>2, <1>5
    <2> QED  BY <1>4, <2>1
  <1>6. ASSUME NEW t \in F, s + c[t].value + (n - 1) * m <= b
        PROVE  HasRoom(F \ {u}, s + c[u].value, c, m, b) /\ HasRoom(F \ {u}, s, c, m, b)
    <2>1. s + (n - 1) * m <= b  BY <1>2, <1>6
    <2>2. CASE t = u
      BY <1>4, <1>6, <2>1, <2>2
    <2>3. CASE t # u
      <3>1. (s + c[u].value) + c[t].value + ((n - 1) - 1) * m <= b  BY <1>2, <1>6
      <3> QED  BY <1>4, <2>1, <2>3, <3>1
    <2> QED  BY <2>2, <2>3
  <1> QED  BY <1>3, <1>5, <1>6

LEMMA RoomAfterEntering ==
  ASSUME NEW F \in SUBSET Tasks, NEW u \in Tasks, u \notin F, NEW s \in Nat, NEW d \in Nat, NEW m \in Nat, NEW c,
         c[u].value \in Nat, s + c[u].value <= d
  PROVE  HasRoom(F \union {u}, s, c, m, d + (Cardinality(Tasks) - 1) * m)
  <1> DEFINE n == Cardinality(F)
             all == Cardinality(Tasks)
  <1>1. n \in Nat /\ all \in Nat /\ Cardinality(F \union {u}) = n + 1 /\ n + 1 <= all
    <2>1. IsFiniteSet(F) /\ F \union {u} \in SUBSET Tasks
      BY ConstantsOK, FS_Subset DEF ConstantsOK
    <2>2. n \in Nat /\ all \in Nat /\ Cardinality(F \union {u}) = n + 1
      BY <2>1, ConstantsOK, FS_CardinalityType, FS_AddElement DEF ConstantsOK
    <2>3. Cardinality(F \union {u}) <= all  BY <2>1, ConstantsOK, FS_Subset DEF ConstantsOK
    <2> QED  BY <2>2, <2>3
  <1> HIDE DEF n, all
  <1>2. n <= all - 1 /\ all - 1 \in Nat  BY <1>1
  <1>3. n * m <= (all - 1) * m /\ n * m \in Nat /\ (all - 1) * m \in Nat  BY <1>1, <1>2, Times
  <1>4. s + c[u].value + n * m <= d + (all - 1) * m  BY <1>3
  <1>5. (n + 1) - 1 = n  BY <1>1
  <1>6. s + c[u].value + (Cardinality(F \union {u}) - 1) * m <= d + (all - 1) * m
    BY <1>1, <1>4, <1>5, Zenon
  <1> QED  BY <1>6, Zenon DEF HasRoom, all

\* On a new day nothing is booked, and each call in flight was let through by the cap.
LEMMA RoomOnNewDay ==
  ASSUME NEW F \in SUBSET Tasks, NEW d \in Nat, NEW m \in Nat, NEW c,
         \A t \in F : c[t].value \in Nat /\ c[t].value <= d
  PROVE  HasRoom(F, 0, c, m, d + (Cardinality(Tasks) - 1) * m)
  <1>1. CASE F = {}
    <2>1. Cardinality(F) = 0 /\ Cardinality(Tasks) \in Nat /\ Cardinality(Tasks) # 0
      BY <1>1, ConstantsOK, FS_EmptySet, FS_CardinalityType DEF ConstantsOK
    <2>2. Cardinality(Tasks) - 1 \in Nat  BY <2>1
    <2>3. (Cardinality(Tasks) - 1) * m \in Nat  BY <2>2, Times
    <2>4. 0 + Cardinality(F) * m <= d + (Cardinality(Tasks) - 1) * m  BY <2>1, <2>3
    <2> QED  BY <2>4, Zenon DEF HasRoom
  <1>2. CASE F # {}
    <2>1. PICK u \in F : TRUE  BY <1>2
    <2>2. F = (F \ {u}) \union {u} /\ u \notin F \ {u} /\ F \ {u} \in SUBSET Tasks /\ u \in Tasks
      BY <2>1
    <2>3. HasRoom((F \ {u}) \union {u}, 0, c, m, d + (Cardinality(Tasks) - 1) * m)
      <3>1. c[u].value \in Nat /\ 0 + c[u].value <= d  BY <2>1
      <3> QED  BY <2>2, <3>1, RoomAfterEntering
    <2> QED  BY <2>2, <2>3, Zenon
  <1> QED  BY <1>1, <1>2

\* The room left is no negative number.
LEMMA RoomIsBound ==
  ASSUME NEW F, IsFiniteSet(F), NEW s \in Nat, NEW m \in Nat, NEW b \in Nat, NEW c,
         \A t \in F : c[t].value \in Nat, HasRoom(F, s, c, m, b)
  PROVE  s <= b
  <1> DEFINE n == Cardinality(F)
  <1>1. n \in Nat /\ (F # {} => n - 1 \in Nat)  BY FS_CardinalityType, FS_EmptySet
  <1>2. s + n * m <= b \/ \E t \in F : s + c[t].value + (n - 1) * m <= b
    BY Zenon DEF HasRoom
  <1> HIDE DEF n
  <1>3. n * m \in Nat /\ (F # {} => (n - 1) * m \in Nat)  BY <1>1, Times
  <1> QED  BY <1>2, <1>3

LEMMA RoomOfSameCalls ==
  ASSUME NEW F, NEW s, NEW m, NEW b, NEW c, NEW d, \A t \in F : c[t].value = d[t].value,
         HasRoom(F, s, c, m, b)
  PROVE  HasRoom(F, s, d, m, b)
  BY DEF HasRoom

LEMMA BoundType == ASSUME TypeOK, NEW p \in Policies PROVE Bound(p) \in Nat
  <1>1. policy[p].dailyValue \in Nat /\ policy[p].maxValue \in Nat
    BY DEF TypeOK, PolicyRow
  <1>2. Cardinality(Tasks) \in Nat /\ Cardinality(Tasks) # 0
    BY ConstantsOK, FS_CardinalityType, FS_EmptySet DEF ConstantsOK
  <1>3. Cardinality(Tasks) - 1 \in Nat  BY <1>2
  <1>4. (Cardinality(Tasks) - 1) * policy[p].maxValue \in Nat  BY <1>1, <1>3, Times
  <1> QED  BY <1>1, <1>4 DEF Bound

\* A step moves the handler of one task, or it is a crash.
LEMMA OneTaskMoves ==
  ASSUME Sound, [Next]_vars
  PROVE  \/ \E u \in Tasks : \A w \in Tasks : w # u => Untouched(w)
         \/ (\A t \in Tasks : call'[t].stage = "none") /\ UNCHANGED <<task, policy, spend, day>>
  <1> USE DEF Sound
  <1>1. ASSUME UNCHANGED <<task, call, approved, dispatched, booked>>
        PROVE  \E u \in Tasks : \A w \in Tasks : w # u => Untouched(w)
    BY <1>1, ConstantsOK DEF ConstantsOK, Untouched
  <1>2. ASSUME NEW u \in Tasks, TaskStep(u) PROVE \A w \in Tasks : w # u => Untouched(w)
    BY <1>2, OthersUntouched
  <1>3. CASE Permission
    BY <1>1, <1>3 DEF Permission, RevokePolicy, CreatePolicy, history
  <1>4. CASE Creation
    <2>1. PICK t \in Tasks, p \in Policies, k \in Keys :
            CreateTask(t, p, k) \/ \E q \in PolicyTerms : Hire(t, p, k, q)
      BY <1>4 DEF Creation
    <2>2. CASE UNCHANGED <<task, call>>
      BY <1>1, <2>1, <2>2 DEF CreateTask, Hire, history
    <2>3. CASE task' = [task EXCEPT ![t] = NewTask(p)] /\ (Goto(t, "hired") \/ UNCHANGED call)
      <3>1. \A w \in Tasks : w # t => task'[w] = task[w]  BY <2>3 DEF TypeOK
      <3>2. task' \in [Tasks -> TaskRow]  BY <2>3, NewTaskType DEF TypeOK
      <3>3. \A w \in Tasks : w # t => call'[w] = call[w]  BY <2>3, <3>2, GotoEffect DEF Stage
      <3> QED  BY <2>1, <3>1, <3>3 DEF CreateTask, Hire, history, Untouched
    <2> QED  BY <2>1, <2>2, <2>3 DEF CreateTask, Hire
  <1>5. CASE Environment
    <2>1. CASE Crash  BY <2>1 DEF Crash, NoCall
    <2> QED  BY <1>1, <1>5, <2>1 DEF Environment, SetKillSwitch, Tick, Midnight, history
  <1>6. CASE UNCHANGED vars
    BY <1>1, <1>6 DEF vars, history
  <1> QED  BY <1>2, <1>3, <1>4, <1>5, <1>6 DEF Next

\* A call in flight was in flight before, with its value, or passes the gate in the step.
LEMMA FlightSteps ==
  ASSUME Sound, PoliciesOfTasksExist, [Next]_vars, NEW p \in Policies, NEW t \in Tasks, t \in InFlight(p)'
  PROVE  /\ policy[p].exists
         /\ task[t].policy = p
         /\ (t \in InFlight(p) /\ call'[t].value = call[t].value) \/ (Dispatched(t) /\ t \notin InFlight(p))
  <1>1. RowStep(t) /\ OwnsTask(t)  BY RowSteps DEF Sound, CallOwnsTask
  <1>2. call'[t].stage \in {"await", "succeeded"} /\ task'[t].policy = p  BY DEF InFlight
  <1>3. Untouched(t) \/ Dispatched(t) \/ Succeeded(t)
    BY <1>1, <1>2 DEF RowStep, HandlerMoved, Booked, Created, Simulated, Presented, Approved, Revoked, Failed
  <1>4. task[t].policy = p /\ task[t].state # "absent"
    BY <1>1, <1>2, <1>3 DEF Untouched, Dispatched, Succeeded, Wrote, OwnsTask
  <1>5. policy[p].exists  BY <1>4 DEF PoliciesOfTasksExist, Exists
  <1>6. (t \in InFlight(p) /\ call'[t].value = call[t].value) \/ (Dispatched(t) /\ t \notin InFlight(p))
    BY <1>2, <1>3, <1>4 DEF InFlight, Untouched, Dispatched, Succeeded
  <1> QED  BY <1>4, <1>5, <1>6

LEMMA CallsStayCapped ==
  ASSUME Sound, TypeOK', PoliciesOfTasksExist, CallsCapped, [Next]_vars PROVE CallsCapped'
  <1> SUFFICES ASSUME NEW p \in Policies, NEW t \in InFlight(p)'
               PROVE  call'[t].value <= policy'[p].maxValue /\ call'[t].value <= policy'[p].dailyValue
    BY DEF CallsCapped
  <1>1. t \in Tasks  BY DEF InFlight
  <1>2. /\ policy[p].exists /\ task[t].policy = p
        /\ (t \in InFlight(p) /\ call'[t].value = call[t].value) \/ Dispatched(t)
    BY <1>1, FlightSteps
  <1>3. policy'[p].maxValue = policy[p].maxValue /\ policy'[p].dailyValue = policy[p].dailyValue
    BY <1>2, TermsAreFixed DEF Sound
  <1>4. ASSUME Dispatched(t) PROVE call'[t].value <= policy[p].maxValue /\ call'[t].value <= policy[p].dailyValue
    <2>1. call'[t].value <= policy[p].maxValue /\ spend[p][day] + call'[t].value <= policy[p].dailyValue
      BY <1>2, <1>4 DEF Dispatched
    <2>2. spend[p][day] \in Nat /\ call'[t].value \in Nat /\ policy[p].dailyValue \in Nat
      BY <1>1, NumberTypes DEF Sound, TypeOK, CallRow
    <2> QED  BY <2>1, <2>2
  <1> QED  BY <1>2, <1>3, <1>4 DEF CallsCapped

\* What is booked of a policy changes by a booking of one of its calls in flight.
LEMMA BookingStep ==
  ASSUME Sound, PoliciesOfTasksExist, [Next]_vars, day' = day, NEW p \in Policies
  PROVE  \/ spend'[p][day] = spend[p][day]
         \/ \E u \in InFlight(p) : Books(u) /\ spend'[p][day] = spend[p][day] + call[u].value
  <1>1. day \in Nat  BY DEF Sound, TypeOK, Days
  <1>2. spend' = spend \/ \E u \in Tasks : Books(u)
    BY <1>1, SpendSteps DEF SpendStep, Sound
  <1>3. ASSUME NEW u \in Tasks, Books(u), spend'[p][day] # spend[p][day]
        PROVE  u \in InFlight(p) /\ spend'[p][day] = spend[p][day] + call[u].value
    <2>1. task[u].policy = p  BY <1>3, BookingEffect DEF Sound, TypeOK
    <2> QED  BY <1>3, <2>1, BookingEffect DEF Books, InFlight
  <1> QED  BY <1>2, <1>3

LEMMA RoomKept ==
  ASSUME Sound, TypeOK', OvershootInv, [Next]_vars, NEW p \in Policies
  PROVE  HasRoom(InFlight(p)', spend'[p][day'], call', policy'[p].maxValue, Bound(p)')
  <1>1. /\ TypeOK /\ PoliciesOfTasksExist /\ NothingBookedAhead /\ CallsCapped
        /\ HasRoom(InFlight(p), spend[p][day], call, policy[p].maxValue, Bound(p))
    BY DEF OvershootInv, Sound
  <1>2. /\ Bound(p)' \in Nat /\ Bound(p) \in Nat
        /\ policy[p].maxValue \in Nat /\ policy'[p].maxValue \in Nat /\ policy'[p].dailyValue \in Nat
        /\ day \in Nat /\ day \in Days /\ day' \in Days
        /\ \A d \in Days : spend[p][d] \in Nat
        /\ \A t \in Tasks : call[t].value \in Nat /\ call'[t].value \in Nat
    <2>1. \A t \in Tasks : call[t].value \in Nat /\ call'[t].value \in Nat
      BY <1>1 DEF TypeOK, CallRow
    <2>2. Bound(p)' \in Nat /\ Bound(p) \in Nat
      <3>1. Bound(p) \in Nat  BY <1>1, BoundType
      <3>2. policy'[p].dailyValue \in Nat /\ policy'[p].maxValue \in Nat  BY <1>1, NumberTypes
      <3>3. Cardinality(Tasks) \in Nat /\ Cardinality(Tasks) # 0
        BY ConstantsOK, FS_CardinalityType, FS_EmptySet DEF ConstantsOK
      <3>4. Cardinality(Tasks) - 1 \in Nat  BY <3>3
      <3>5. (Cardinality(Tasks) - 1) * policy'[p].maxValue \in Nat  BY <3>2, <3>4, Times
      <3> QED  BY <3>1, <3>2, <3>5 DEF Bound
    <2> QED  BY <1>1, <2>1, <2>2, NumberTypes
  <1>3. /\ InFlight(p) \in SUBSET Tasks /\ InFlight(p)' \in SUBSET Tasks
        /\ IsFiniteSet(InFlight(p)) /\ IsFiniteSet(InFlight(p)')
    <2>1. InFlight(p) \in SUBSET Tasks /\ InFlight(p)' \in SUBSET Tasks  BY DEF InFlight
    <2> QED  BY <2>1, ConstantsOK, FS_Subset DEF ConstantsOK
  <1>4. ASSUME spend'[p][day'] = 0
        PROVE  HasRoom(InFlight(p)', spend'[p][day'], call', policy'[p].maxValue, Bound(p)')
    <2>1. \A t \in InFlight(p)' : call'[t].value \in Nat /\ call'[t].value <= policy'[p].dailyValue
      BY <1>1, <1>2, <1>3, CallsStayCapped DEF CallsCapped
    <2>2. HasRoom(InFlight(p)', 0, call', policy'[p].maxValue,
                  policy'[p].dailyValue + (Cardinality(Tasks) - 1) * policy'[p].maxValue)
      BY <1>2, <1>3, <2>1, RoomOnNewDay
    <2> QED  BY <1>4, <2>2, Zenon DEF Bound
  <1>5. CASE ~policy[p].exists
    <2>1. spend'[p][day'] = 0
      <3>1. \A d \in Days : spend[p][d] = 0  BY <1>1, <1>5 DEF NothingBookedAhead
      <3>2. spend' = spend \/ \E u \in Tasks : Books(u)  BY <1>1, SpendSteps DEF SpendStep
      <3>3. ASSUME NEW u \in Tasks, Books(u) PROVE spend'[p][day'] = spend[p][day']
        BY <1>1, <1>2, <1>5, <3>3, BookingEffect
      <3> QED  BY <1>2, <3>1, <3>2, <3>3
    <2> QED  BY <1>4, <2>1
  <1>6. CASE day' # day
    <2>1. spend' = spend /\ day' = day + 1  BY <1>1, <1>6, SpendSteps DEF SpendStep, Books
    <2>2. day' > day  BY <1>2, <2>1
    <2>3. spend'[p][day'] = 0  BY <1>1, <1>2, <2>1, <2>2 DEF NothingBookedAhead
    <2> QED  BY <1>4, <2>3
  <1>7. CASE policy[p].exists /\ day' = day
    <2>1. policy'[p].maxValue = policy[p].maxValue /\ policy'[p].dailyValue = policy[p].dailyValue
      BY <1>1, <1>7, TermsAreFixed
    <2>2. Bound(p)' = Bound(p)  BY <2>1, Zenon DEF Bound
    <2>3. CASE (\A t \in Tasks : call'[t].stage = "none") /\ UNCHANGED <<task, policy, spend, day>>
      <3>1. InFlight(p)' = {}  BY <2>3, Zenon DEF InFlight
      <3>2. Cardinality(InFlight(p)') = 0  BY <3>1, FS_EmptySet
      <3>3. spend'[p][day'] <= Bound(p)  BY <1>2, <2>3 DEF OvershootInv, OvershootIsBounded, Bound
      <3>4. spend'[p][day'] \in Nat  BY <1>2, <2>3
      <3>5. spend'[p][day'] + Cardinality(InFlight(p)') * policy'[p].maxValue <= Bound(p)'
        BY <1>2, <2>2, <3>2, <3>3, <3>4
      <3> QED  BY <3>5, Zenon DEF HasRoom
    <2>4. ASSUME NEW u \in Tasks, \A w \in Tasks : w # u => Untouched(w)
          PROVE  HasRoom(InFlight(p)', spend'[p][day'], call', policy'[p].maxValue, Bound(p)')
      <3>1. \A w \in Tasks : w # u => (w \in InFlight(p)' <=> w \in InFlight(p)) /\ call'[w].value = call[w].value
        BY <2>4 DEF Untouched, InFlight
      <3>2. ASSUME NEW w \in Tasks, Books(w) PROVE w = u
        BY <2>4, <3>2 DEF Books, Untouched
      <3>3. \/ spend'[p][day] = spend[p][day]
            \/ u \in InFlight(p) /\ u \notin InFlight(p)' /\ spend'[p][day] = spend[p][day] + call[u].value
        BY <1>1, <1>3, <1>7, <3>2, BookingStep DEF Books, InFlight
      <3>4. CASE u \in InFlight(p)' /\ u \notin InFlight(p)
        <4>1. Dispatched(u) /\ task[u].policy = p  BY <1>1, <3>4, FlightSteps
        <4>2. spend[p][day] + call'[u].value <= policy[p].dailyValue  BY <4>1 DEF Dispatched
        <4>3. InFlight(p)' = InFlight(p) \union {u}  BY <1>3, <3>1, <3>4
        <4>4. HasRoom(InFlight(p) \union {u}, spend[p][day], call', policy[p].maxValue,
                      policy[p].dailyValue + (Cardinality(Tasks) - 1) * policy[p].maxValue)
          BY <1>1, <1>2, <1>3, <3>4, <4>2, RoomAfterEntering, NumberTypes
        <4>5. spend'[p][day'] = spend[p][day]  BY <1>7, <3>3, <3>4
        <4> QED  BY <2>1, <2>2, <4>3, <4>4, <4>5, Zenon DEF Bound
      <3>5. CASE u \in InFlight(p) /\ u \notin InFlight(p)'
        <4>1. InFlight(p)' = InFlight(p) \ {u}  BY <1>3, <3>1, <3>5
        <4>2. \A t \in InFlight(p) : call[t].value \in Nat /\ call[t].value <= policy[p].maxValue
          BY <1>1, <1>2, <1>3 DEF CallsCapped
        <4>3. /\ HasRoom(InFlight(p) \ {u}, spend[p][day] + call[u].value, call, policy[p].maxValue, Bound(p))
              /\ HasRoom(InFlight(p) \ {u}, spend[p][day], call, policy[p].maxValue, Bound(p))
          BY <1>1, <1>2, <1>3, <3>5, <4>2, RoomAfterLeaving
        <4>4. HasRoom(InFlight(p)', spend'[p][day'], call, policy'[p].maxValue, Bound(p)')
          <5>1. CASE spend'[p][day] = spend[p][day]
            BY <1>7, <2>1, <2>2, <4>1, <4>3, <5>1, Zenon
          <5>2. CASE spend'[p][day] = spend[p][day] + call[u].value
            BY <1>7, <2>1, <2>2, <4>1, <4>3, <5>2, Zenon
          <5> QED  BY <3>3, <5>1, <5>2
        <4>5. \A t \in InFlight(p)' : call[t].value = call'[t].value  BY <1>3, <3>1, <3>5
        <4> QED  BY <4>4, <4>5, RoomOfSameCalls
      <3>6. CASE u \in InFlight(p)' <=> u \in InFlight(p)
        <4>1. InFlight(p)' = InFlight(p)  BY <1>3, <3>1, <3>6
        <4>2. \A t \in InFlight(p)' : call[t].value = call'[t].value
          BY <1>1, <1>3, <3>1, <3>6, FlightSteps
        <4>3. spend'[p][day'] = spend[p][day]  BY <1>7, <3>3, <3>6
        <4>4. HasRoom(InFlight(p)', spend'[p][day'], call, policy'[p].maxValue, Bound(p)')
          BY <1>1, <2>1, <2>2, <4>1, <4>3, Zenon
        <4> QED  BY <4>2, <4>4, RoomOfSameCalls
      <3> QED  BY <3>4, <3>5, <3>6
    <2> QED  BY <2>3, <2>4, OneTaskMoves
  <1> QED  BY <1>5, <1>6, <1>7

LEMMA OvershootKept ==
  ASSUME Sound, TypeOK', OvershootInv, [Next]_vars
  PROVE  OvershootInv'
  <1>1. PoliciesOfTasksExist' /\ NothingBookedAhead' /\ CallsCapped'
    BY BookingFrame, CallsStayCapped DEF OvershootInv
  <1>2. \A p \in Policies : HasRoom(InFlight(p)', spend'[p][day'], call', policy'[p].maxValue, Bound(p)')
    BY RoomKept
  <1>3. ASSUME NEW p \in Policies, NEW d \in Days PROVE spend'[p][d] <= Bound(p)'
    <2>1. TypeOK /\ policy'[p].maxValue \in Nat /\ spend'[p][d] \in Nat /\ day \in Nat /\ day' \in Nat /\ d \in Nat
          /\ day' \in Days /\ \A t \in Tasks : call'[t].value \in Nat
      BY NumberTypes DEF Sound, TypeOK, CallRow
    <2>2. Bound(p)' \in Nat
      <3>1. Cardinality(Tasks) \in Nat /\ Cardinality(Tasks) # 0
        BY ConstantsOK, FS_CardinalityType, FS_EmptySet DEF ConstantsOK
      <3>2. Cardinality(Tasks) - 1 \in Nat  BY <3>1
      <3>3. (Cardinality(Tasks) - 1) * policy'[p].maxValue \in Nat  BY <2>1, <3>2, Times
      <3>4. policy'[p].dailyValue \in Nat  BY NumberTypes, <2>1
      <3> QED  BY <3>3, <3>4 DEF Bound
    <2>3. CASE d = day'
      <3>1. InFlight(p)' \in SUBSET Tasks  BY DEF InFlight
      <3>2. IsFiniteSet(InFlight(p)')  BY <3>1, ConstantsOK, FS_Subset DEF ConstantsOK
      <3>3. \A t \in InFlight(p)' : call'[t].value \in Nat  BY <2>1, <3>1
      <3>4. HasRoom(InFlight(p)', spend'[p][d], call', policy'[p].maxValue, Bound(p)')  BY <1>2, <2>3
      <3> QED  BY <2>1, <2>2, <3>2, <3>3, <3>4, RoomIsBound
    <2>4. CASE d # day'
      <3>1. spend'[p][d] = spend[p][d]
        <4>1. ASSUME NEW u \in Tasks, Books(u) PROVE spend'[p][d] = spend[p][d]
          BY <2>4, <4>1, BookingEffect DEF Books, OvershootInv
        <4> QED  BY <2>1, <4>1, SpendSteps DEF SpendStep
      <3>2. CASE policy[p].exists
        <4>1. policy'[p].maxValue = policy[p].maxValue /\ policy'[p].dailyValue = policy[p].dailyValue
          BY <2>1, <3>2, TermsAreFixed
        <4>2. Bound(p)' = Bound(p)  BY <4>1, Zenon DEF Bound
        <4>3. spend[p][d] <= Bound(p)  BY DEF OvershootInv, OvershootIsBounded, Bound
        <4> QED  BY <3>1, <4>2, <4>3
      <3>3. CASE ~policy[p].exists
        <4>1. spend[p][d] = 0  BY <3>3 DEF OvershootInv, NothingBookedAhead
        <4> QED  BY <2>2, <3>1, <4>1
      <3> QED  BY <3>2, <3>3
    <2> QED  BY <2>3, <2>4
  <1>4. OvershootIsBounded'
    BY <1>3 DEF OvershootIsBounded, Bound
  <1> QED  BY <1>1, <1>2, <1>4 DEF OvershootInv

\* Executions that run at once pass a daily cap by no more than each further task of
\* the deployment may execute in one action, for every number of tasks.
THEOREM OvershootIsAlwaysBounded == Spec => []OvershootIsBounded
  <1>1. Init => OvershootInv
    <2> SUFFICES ASSUME Init PROVE OvershootInv  OBVIOUS
    <2>1. \A p \in Policies : InFlight(p) = {}
      BY DEF Init, NoCall, InFlight
    <2>2. CallsCapped  BY <2>1 DEF CallsCapped
    <2>3. PoliciesOfTasksExist
      BY DEF Init, AbsentTask, PoliciesOfTasksExist, Exists
    <2>4. NothingBookedAhead
      BY DEF Init, AbsentPolicy, NothingBookedAhead
    <2>5. ASSUME NEW p \in Policies
          PROVE  /\ policy[p].dailyValue = 0 /\ policy[p].maxValue = 0 /\ day \in Days
                 /\ \A d \in Days : spend[p][d] = 0
      BY ConstantsOK DEF Init, AbsentPolicy, ConstantsOK, Days
    <2>6. ASSUME NEW p \in Policies PROVE Bound(p) = 0
      <3>1. Cardinality(Tasks) - 1 \in Int
        BY ConstantsOK, FS_CardinalityType DEF ConstantsOK
      <3>2. (Cardinality(Tasks) - 1) * 0 = 0  BY <3>1
      <3>3. (Cardinality(Tasks) - 1) * policy[p].maxValue = 0  BY <2>5, <3>2
      <3> QED  BY <2>5, <3>3 DEF Bound
    <2>7. OvershootIsBounded  BY <2>5, <2>6 DEF OvershootIsBounded, Bound
    <2>8. ASSUME NEW p \in Policies
          PROVE  HasRoom(InFlight(p), spend[p][day], call, policy[p].maxValue, Bound(p))
      <3>1. Cardinality(InFlight(p)) = 0  BY <2>1, FS_EmptySet
      <3>2. spend[p][day] + Cardinality(InFlight(p)) * policy[p].maxValue <= Bound(p)
        BY <2>5, <2>6, <3>1
      <3> QED  BY <3>2, Zenon DEF HasRoom
    <2> QED  BY <2>2, <2>3, <2>4, <2>7, <2>8 DEF OvershootInv
  <1>2. Sound /\ TypeOK' /\ OvershootInv /\ [Next]_vars => OvershootInv'
    BY OvershootKept
  <1>3. OvershootInv => OvershootIsBounded
    BY DEF OvershootInv
  <1> QED  BY <1>1, <1>2, <1>3, SoundAlways, TypeCorrect, PTL DEF Spec

=============================================================================
