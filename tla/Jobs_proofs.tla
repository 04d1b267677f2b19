----------------------------- MODULE Jobs_proofs ------------------------------
(***************************************************************************)
(* Theorems about the two sides of an ERC-8183 job, the buyer, LiveHire,   *)
(* and the seller, SellerDelivery, and about the two together,             *)
(* HiredDelivery; for every set of plans, orders, jobs and notifications   *)
(* and every number of failures and restarts.                              *)
(***************************************************************************)
EXTENDS HiredDelivery, SequenceTheorems, TLAPS

-----------------------------------------------------------------------------
(***************************************************************************)
(* The safety properties of the seller for any number of jobs, concurrent  *)
(* notifications, sweeps, orphans, failures and restarts: a job has at     *)
(* most one runner, only verified deals reach the model, and what was      *)
(* delivered is not worked on again unless something fails.                *)
(***************************************************************************)

\* A notification that is being answered names a job, and a positive answer was
\* given for a job this seller signed.
RequestsOK ==
  \A q \in Requests :
    /\ request[q].stage # "idle" => request[q].job \in Jobs
    /\ request[q].stage = "ok" => request[q].job \in Genuine

SlotTypes ==
  /\ run \in [Jobs -> [Runs -> RunRow]]
  /\ request \in [Requests -> RequestRow]
  /\ sweep \in [Sweeps -> SweepRow]

SlotInv == SlotTypes /\ RequestsOK /\ OneRunnerPerJob /\ OnlyGenuineWork

-----------------------------------------------------------------------------
(* What the helpers do to a job's runs. *)

LEMMA IdleRunIsIdle ==
  ASSUME NEW j \in Jobs, \E k \in Runs : run[j][k].stage = "idle"
  PROVE  IdleRun(j) \in Runs /\ run[j][IdleRun(j)].stage = "idle"
  BY DEF IdleRun

\* Spawning starts one runner for a job nobody delivers and leaves the others alone.
LEMMA SpawnKeepsSlots ==
  ASSUME SlotTypes, OneRunnerPerJob, OnlyGenuineWork, NEW jobs \in SUBSET Jobs,
         NEW stage \in {"verify", "work"}, stage = "work" => jobs \subseteq Genuine,
         SpawnJobs(jobs, stage)
  PROVE  run' \in [Jobs -> [Runs -> RunRow]] /\ OneRunnerPerJob' /\ OnlyGenuineWork'
  <1> DEFINE new == jobs \ inflight
             row == [stage |-> stage, orphan |-> FALSE]
  <1>1. /\ \A j \in new : \E k \in Runs : run[j][k].stage = "idle"
        /\ inflight' = inflight \union new
        /\ run' = [j \in Jobs |-> IF j \in new THEN [run[j] EXCEPT ![IdleRun(j)] = row] ELSE run[j]]
    BY DEF SpawnJobs
  <1>2. row \in RunRow /\ row.stage = stage /\ row.orphan = FALSE
    BY DEF RunRow, RunStage
  <1> HIDE DEF row
  <1>3. ASSUME NEW j \in Jobs, j \notin new  PROVE run'[j] = run[j]
    BY <1>1, <1>3
  <1>4. ASSUME NEW j \in Jobs, j \in new
        PROVE  /\ IdleRun(j) \in Runs
               /\ run'[j] \in [Runs -> RunRow]
               /\ run'[j][IdleRun(j)] = row
               /\ \A k \in Runs : k # IdleRun(j) => run'[j][k] = run[j][k]
    <2>1. IdleRun(j) \in Runs  BY <1>1, <1>4, IdleRunIsIdle
    <2>2. run'[j] = [run[j] EXCEPT ![IdleRun(j)] = row]  BY <1>1, <1>4
    <2>3. run[j] \in [Runs -> RunRow]  BY DEF SlotTypes
    <2> QED  BY <1>2, <2>1, <2>2, <2>3
  <1>5. run' \in [Jobs -> [Runs -> RunRow]]
    <2>1. \A j \in Jobs : run'[j] \in [Runs -> RunRow]
      BY <1>3, <1>4 DEF SlotTypes
    <2> QED  BY <1>1, <2>1
  <1>6. OneRunnerPerJob'
    <2> SUFFICES ASSUME NEW j \in Jobs
                 PROVE  /\ \A k \in Runs : Live(j, k)' => j \in inflight'
                        /\ \A k, l \in Runs : Live(j, k)' /\ Live(j, l)' => k = l
      BY DEF OneRunnerPerJob
    <2>1. CASE j \notin new
      BY <1>1, <1>3, <2>1 DEF OneRunnerPerJob, Live
    <2>2. CASE j \in new
      <3>1. \A k \in Runs : ~Live(j, k)  BY <2>2 DEF OneRunnerPerJob
      <3>2. \A k \in Runs : Live(j, k)' => k = IdleRun(j)
        BY <1>4, <2>2, <3>1 DEF Live
      <3> QED  BY <1>1, <2>2, <3>2
    <2> QED  BY <2>1, <2>2
  <1>7. OnlyGenuineWork'
    <2> SUFFICES ASSUME NEW j \in Jobs, NEW k \in Runs,
                        run'[j][k].stage \in {"work", "submit", "send"}
                 PROVE  j \in Genuine
      BY DEF OnlyGenuineWork
    <2>1. CASE j \notin new  BY <1>3, <2>1 DEF OnlyGenuineWork
    <2>2. CASE j \in new
      <3>1. CASE k = IdleRun(j)  BY <1>2, <1>4, <2>2, <3>1
      <3>2. CASE k # IdleRun(j)  BY <1>4, <2>2, <3>2 DEF OnlyGenuineWork
      <3> QED  BY <3>1, <3>2
    <2> QED  BY <2>1, <2>2
  <1> QED  BY <1>5, <1>6, <1>7

\* A run may change to a row of its job; its slot may go only with its runner.
LEMMA RowKeepsSlots ==
  ASSUME SlotTypes, OneRunnerPerJob, OnlyGenuineWork,
         NEW j \in Jobs, NEW k \in Runs, NEW row \in RunRow,
         run' = [run EXCEPT ![j][k] = row],
         row.stage \in {"work", "submit", "send"} => j \in Genuine,
         row.stage # "idle" /\ ~row.orphan => Live(j, k) /\ inflight' = inflight,
         inflight' = inflight \/ (inflight' = inflight \ {j} /\ Live(j, k))
  PROVE  run' \in [Jobs -> [Runs -> RunRow]] /\ OneRunnerPerJob' /\ OnlyGenuineWork'
  <1>1. run' \in [Jobs -> [Runs -> RunRow]]  BY DEF SlotTypes
  <1>2. /\ run'[j][k] = row
        /\ \A i \in Jobs, l \in Runs : i # j \/ l # k => run'[i][l] = run[i][l]
    BY DEF SlotTypes
  <1>3. \A i \in Jobs, l \in Runs : Live(i, l)' => Live(i, l)
    BY <1>2 DEF Live
  <1>4. ASSUME NEW i \in Jobs, NEW l \in Runs, Live(i, l)'  PROVE i \in inflight'
    <2>1. i \in inflight  BY <1>3, <1>4 DEF OneRunnerPerJob
    <2>2. CASE inflight' = inflight  BY <2>1, <2>2
    <2>3. CASE inflight' # inflight
      <3>1. inflight' = inflight \ {j} /\ Live(j, k) /\ ~Live(j, k)'
        BY <1>2, <2>3 DEF Live
      <3>2. i # j  BY <1>3, <1>4, <3>1 DEF OneRunnerPerJob
      <3> QED  BY <2>1, <3>1, <3>2
    <2> QED  BY <2>2, <2>3
  <1>5. OneRunnerPerJob'
    BY <1>3, <1>4 DEF OneRunnerPerJob
  <1>6. OnlyGenuineWork'
    BY <1>2 DEF OnlyGenuineWork
  <1> QED  BY <1>1, <1>5, <1>6

-----------------------------------------------------------------------------

LEMMA SlotInitially ==
  ASSUME SellerInit  PROVE SlotInv
  <1>1. SlotTypes
    BY DEF SellerInit, SlotTypes, NoRun, RunRow, RunStage, NoRequest, RequestRow, RequestStage, NoSweep, SweepRow
  <1>2. RequestsOK /\ OneRunnerPerJob /\ OnlyGenuineWork
    BY DEF SellerInit, RequestsOK, OneRunnerPerJob, OnlyGenuineWork, Live, NoRun, NoRequest
  <1> QED  BY <1>1, <1>2 DEF SlotInv

\* Steps that touch neither runs nor slots.
LEMMA ElsewhereKeepsSlots ==
  ASSUME SlotInv, run' = run, inflight' = inflight
  PROVE  OneRunnerPerJob' /\ OnlyGenuineWork'
  BY DEF SlotInv, OneRunnerPerJob, OnlyGenuineWork, Live

LEMMA RunStepKeeps ==
  ASSUME SlotInv, NEW j \in Jobs, NEW k \in Runs, RunStep(j, k) \/ Timeout(j, k)
  PROVE  SlotInv'
  <1> USE DEF SlotInv
  <1>1. request' = request /\ sweep' = sweep
    BY DEF RunStep, Verify, Work, Submit, Send, Timeout
  <1>2. run[j][k] \in RunRow  BY DEF SlotTypes
  <1>3. RequestsOK'  BY <1>1 DEF RequestsOK
  <1>4. ASSUME NEW stage \in {"work", "submit", "send"}, run[j][k].stage # "idle", j \in Genuine,
               GoTo(j, k, stage)
        PROVE  SlotInv'
    <2> DEFINE row == [stage |-> stage, orphan |-> run[j][k].orphan]
    <2>1. row \in RunRow /\ row.orphan = run[j][k].orphan
      BY <1>2 DEF RunRow, RunStage
    <2>2. run' = [run EXCEPT ![j][k] = row] /\ inflight' = inflight  BY <1>4 DEF GoTo
    <2> HIDE DEF row
    <2>3. ~row.orphan => Live(j, k)  BY <1>4, <2>1 DEF Live
    <2> QED  BY <1>1, <1>3, <1>4, <2>1, <2>2, <2>3, RowKeepsSlots DEF SlotTypes
  <1>5. ASSUME NEW terminal, EndRun(j, k, terminal)  PROVE SlotInv'
    <2>1. NoRun \in RunRow /\ NoRun.stage = "idle"  BY DEF NoRun, RunRow, RunStage
    <2>2. /\ run' = [run EXCEPT ![j][k] = NoRun]
          /\ inflight' = inflight \/ (inflight' = inflight \ {j} /\ Live(j, k))
      BY <1>5 DEF EndRun
    <2> QED  BY <1>1, <1>3, <2>1, <2>2, RowKeepsSlots DEF SlotTypes
  <1>6. CASE Verify(j, k)
    BY <1>4, <1>5, <1>6 DEF Verify, At, Verifies
  <1>7. CASE Work(j, k)
    BY <1>4, <1>5, <1>7 DEF Work, At, OnlyGenuineWork
  <1>8. CASE Submit(j, k)
    BY <1>4, <1>5, <1>8 DEF Submit, At, Verifies
  <1>9. CASE Send(j, k)
    BY <1>5, <1>9 DEF Send
  <1>10. CASE Timeout(j, k)
    <2> DEFINE row == IF run[j][k].stage \in {"submit", "send"}
                      THEN [stage |-> run[j][k].stage, orphan |-> TRUE] ELSE NoRun
    <2>1. row \in RunRow /\ (row.stage = "idle" \/ row.orphan)
      BY <1>2 DEF NoRun, RunRow, RunStage
    <2>2. row.stage \in {"work", "submit", "send"} => j \in Genuine
      BY DEF NoRun, OnlyGenuineWork
    <2>3. run' = [run EXCEPT ![j][k] = row] /\ inflight' = inflight \ {j} /\ Live(j, k)
      BY <1>10 DEF Timeout
    <2> HIDE DEF row
    <2> QED  BY <1>1, <1>3, <2>1, <2>2, <2>3, RowKeepsSlots DEF SlotTypes
  <1> QED  BY <1>6, <1>7, <1>8, <1>9, <1>10 DEF RunStep

LEMMA RequestStepKeeps ==
  ASSUME SlotInv, NEW q \in Requests, RequestStep(q) \/ \E j \in Jobs : Notify(q, j)
  PROVE  SlotInv'
  <1> USE DEF SlotInv
  <1>1. request[q] \in RequestRow  BY DEF SlotTypes
  <1>2. ASSUME NEW row \in RequestRow, request' = [request EXCEPT ![q] = row],
               row.stage # "idle" => row.job \in Jobs, row.stage = "ok" => row.job \in Genuine
        PROVE  request' \in [Requests -> RequestRow] /\ RequestsOK'
    BY <1>2 DEF SlotTypes, RequestsOK
  <1>3. ASSUME NEW j \in Jobs, Notify(q, j)  PROVE SlotInv'
    <2> DEFINE row == [stage |-> "asked", job |-> j]
    <2>1. row \in RequestRow /\ row.stage = "asked" /\ row.job = j
      BY DEF RequestRow, RequestStage
    <2>2. request' = [request EXCEPT ![q] = row] /\ run' = run /\ inflight' = inflight /\ sweep' = sweep
      BY <1>3 DEF Notify
    <2> HIDE DEF row
    <2> QED  BY <1>2, <2>1, <2>2, ElsewhereKeepsSlots DEF SlotTypes
  <1>4. CASE PreVerify(q)
    <2>1. request[q].job \in Jobs  BY <1>4 DEF PreVerify, RequestsOK
    <2>2. PICK stage \in {"ok", "rejected", "unknown"} :
            Answer(q, stage) /\ (stage = "ok" => Verifies(request[q].job))
      BY <1>4 DEF PreVerify
    <2> DEFINE row == [request[q] EXCEPT !.stage = stage]
    <2>3. row \in RequestRow /\ row.stage = stage /\ row.job = request[q].job
      BY <1>1 DEF RequestRow, RequestStage
    <2>4. request' = [request EXCEPT ![q] = row] /\ run' = run /\ inflight' = inflight /\ sweep' = sweep
      BY <1>4, <2>2 DEF PreVerify, Answer
    <2> HIDE DEF row
    <2> QED  BY <1>2, <2>1, <2>2, <2>3, <2>4, ElsewhereKeepsSlots DEF SlotTypes, Verifies
  <1>5. NoRequest \in RequestRow /\ NoRequest.stage = "idle"
    BY DEF NoRequest, RequestRow, RequestStage
  <1>6. CASE Reject(q)
    <2>1. request' = [request EXCEPT ![q] = NoRequest] /\ run' = run /\ inflight' = inflight /\ sweep' = sweep
      BY <1>6 DEF Reject
    <2> QED  BY <1>2, <1>5, <2>1, ElsewhereKeepsSlots DEF SlotTypes
  <1>7. CASE Accept(q)
    <2> DEFINE stage == IF request[q].stage = "ok" THEN "work" ELSE "verify"
    <2>1. {request[q].job} \in SUBSET Jobs  BY <1>7 DEF Accept, RequestsOK
    <2>2. stage \in {"verify", "work"} /\ (stage = "work" => {request[q].job} \subseteq Genuine)
      BY DEF RequestsOK
    <2>3. SpawnJobs({request[q].job}, stage) /\ StartSweep /\ request' = [request EXCEPT ![q] = NoRequest]
      BY <1>7 DEF Accept
    <2> HIDE DEF stage
    <2>4. run' \in [Jobs -> [Runs -> RunRow]] /\ OneRunnerPerJob' /\ OnlyGenuineWork'
      BY <2>1, <2>2, <2>3, SpawnKeepsSlots
    <2>5. sweep' \in [Sweeps -> SweepRow]
      BY <2>3 DEF StartSweep, SlotTypes, SweepRow
    <2> QED  BY <1>2, <1>5, <2>3, <2>4, <2>5 DEF SlotTypes
  <1> QED  BY <1>3, <1>4, <1>6, <1>7 DEF RequestStep

LEMMA SweepStepKeeps ==
  ASSUME SlotInv, NEW s \in Sweeps, SweepStep(s)
  PROVE  SlotInv'
  <1> USE DEF SlotInv
  <1>1. request' = request /\ RequestsOK'
    BY DEF SweepStep, Scan, ScanFails, DeliverListed, RequestsOK
  <1>2. CASE Scan(s) \/ ScanFails(s)
    <2>1. run' = run /\ inflight' = inflight  BY <1>2 DEF Scan, ScanFails
    <2>2. sweep' \in [Sweeps -> SweepRow]
      BY <1>2 DEF Scan, ScanFails, NoSweep, SlotTypes, SweepRow
    <2> QED  BY <1>1, <2>1, <2>2, ElsewhereKeepsSlots DEF SlotTypes
  <1>3. CASE DeliverListed(s)
    <2>1. sweep[s].jobs \in SUBSET Jobs  BY DEF SlotTypes, SweepRow
    <2>2. run' \in [Jobs -> [Runs -> RunRow]] /\ OneRunnerPerJob' /\ OnlyGenuineWork'
      BY <1>3, <2>1, SpawnKeepsSlots DEF DeliverListed
    <2>3. sweep' \in [Sweeps -> SweepRow]
      BY <1>3 DEF DeliverListed, NoSweep, SlotTypes, SweepRow
    <2> QED  BY <1>1, <2>2, <2>3 DEF SlotTypes
  <1> QED  BY <1>2, <1>3 DEF SweepStep

LEMMA SlotStep ==
  ASSUME SlotInv, [SellerNext]_sellerVars  PROVE SlotInv'
  <1>1. ASSUME NEW j \in Jobs, Fund(j) \/ Lapse(j)  PROVE SlotInv'
    BY <1>1, ElsewhereKeepsSlots DEF Fund, Lapse, SlotInv, SlotTypes, RequestsOK
  <1>2. CASE NotifyBare
    <2>1. run' = run /\ inflight' = inflight /\ request' = request  BY <1>2 DEF NotifyBare
    <2>2. sweep' \in [Sweeps -> SweepRow]
      BY <1>2 DEF NotifyBare, StartSweep, SlotInv, SlotTypes, SweepRow
    <2> QED  BY <2>1, <2>2, ElsewhereKeepsSlots DEF SlotInv, SlotTypes, RequestsOK
  <1>3. CASE Restart
    <2>1. /\ run' = [j \in Jobs |-> [k \in Runs |-> NoRun]]
          /\ request' = [q \in Requests |-> NoRequest]
          /\ sweep' = [s \in Sweeps |-> NoSweep]
      BY <1>3 DEF Restart
    <2>2. SlotTypes'
      BY <2>1 DEF SlotTypes, NoRun, RunRow, RunStage, NoRequest, RequestRow, RequestStage, NoSweep, SweepRow
    <2>3. RequestsOK' /\ OneRunnerPerJob' /\ OnlyGenuineWork'
      BY <2>1 DEF RequestsOK, OneRunnerPerJob, OnlyGenuineWork, Live, NoRun, NoRequest
    <2> QED  BY <2>2, <2>3 DEF SlotInv
  <1>4. CASE UNCHANGED sellerVars
    BY <1>4, ElsewhereKeepsSlots DEF sellerVars, SlotInv, SlotTypes, RequestsOK
  <1> QED
    BY <1>1, <1>2, <1>3, <1>4, RunStepKeeps, RequestStepKeeps, SweepStepKeeps DEF SellerNext

\* One runner per job, and it holds the job's slot.
THEOREM JobsHaveOneRunner == SellerSpec => []OneRunnerPerJob
  <1>1. SlotInv => OneRunnerPerJob  BY DEF SlotInv
  <1> QED  BY SlotInitially, SlotStep, <1>1, PTL DEF SellerSpec

\* Only jobs whose terms this seller signed are worked on, submitted or sent.
THEOREM WorkIsGenuine == SellerSpec => []OnlyGenuineWork
  <1>1. SlotInv => OnlyGenuineWork  BY DEF SlotInv
  <1> QED  BY SlotInitially, SlotStep, <1>1, PTL DEF SellerSpec

-----------------------------------------------------------------------------
(* Delivered once.  A delivered job is closed by its runner and stays so   *)
(* until the process stops; the next process can be told of it again, but  *)
(* then no verification succeeds any more, and no answer is left over.     *)

Vouched(j) == \E q \in Requests : request[q].stage = "ok" /\ request[q].job = j
Settled(j) == Closed(j) \/ ~(Vouched(j) \/ Working(j))

CountersOK == chain \in [Jobs -> ChainStatus] /\ faults \in Nat /\ restarts \in Nat
NoOrphans == \A j \in Jobs, k \in Runs : ~run[j][k].orphan
DeliveredStays == \A j \in Jobs : chain[j] = "submitted" => Settled(j)

DeliveryInv == SlotInv /\ CountersOK /\ (faults = 0 => NoOrphans /\ DeliveredStays)

\* A closed job is passed over by whoever would start it again.
LEMMA SpawnKeepsClosed ==
  ASSUME NEW jobs \in SUBSET Jobs, NEW stage, SpawnJobs(jobs, stage), NEW j \in Jobs, Closed(j)
  PROVE  Closed(j)'
  <1>1. run'[j] = run[j] /\ j \in inflight'
    BY DEF SpawnJobs, Closed
  <1> QED
    BY <1>1 DEF Closed, Live

LEMMA RowKeepsClosed ==
  ASSUME SlotTypes, NEW i \in Jobs, NEW k \in Runs, NEW row \in RunRow,
         run' = [run EXCEPT ![i][k] = row],
         inflight' = inflight \/ (inflight' = inflight \ {i} /\ Live(i, k)),
         row.stage = "idle" \/ row.orphan \/ (row.orphan = run[i][k].orphan /\ run[i][k].stage # "idle"),
         NEW j \in Jobs, Closed(j)
  PROVE  Closed(j)'
  <1>1. /\ run'[i][k] = row
        /\ \A h \in Jobs, l \in Runs : h # i \/ l # k => run'[h][l] = run[h][l]
    BY DEF SlotTypes
  <1>2. \A l \in Runs : ~Live(j, l)
    BY DEF Closed
  <1>3. i = j => ~Live(i, k)
    BY <1>2
  <1>4. j \in inflight'
    BY <1>3 DEF Closed
  <1>5. ASSUME NEW l \in Runs PROVE ~Live(j, l)'
    <2>1. CASE j = i /\ l = k
      BY <1>1, <1>3, <2>1 DEF Live
    <2>2. CASE j # i \/ l # k
      BY <1>1, <1>2, <2>2 DEF Live
    <2> QED
      BY <2>1, <2>2
  <1> QED
    BY <1>4, <1>5 DEF Closed

LEMMA ClosedStaysClosed ==
  ASSUME SlotInv, [SellerNext]_sellerVars, ~Restart, NEW j \in Jobs, Closed(j)
  PROVE  Closed(j)'
  <1>1. SlotTypes
    BY DEF SlotInv
  <1>2. CASE run' = run /\ inflight' = inflight
    BY <1>2 DEF Closed, Live
  <1>3. ASSUME NEW i \in Jobs, NEW k \in Runs, RunStep(i, k)
        PROVE  Closed(j)'
    <2>1. run[i][k] \in RunRow /\ run[i][k].stage # "idle"
      BY <1>1, <1>3 DEF SlotTypes, RunStep, Verify, Work, Submit, Send, At
    <2>2. ASSUME NEW stage \in {"work", "submit", "send"}, GoTo(i, k, stage)
          PROVE  Closed(j)'
      <3> DEFINE row == [stage |-> stage, orphan |-> run[i][k].orphan]
      <3>1. row \in RunRow /\ row.orphan = run[i][k].orphan
        BY <2>1 DEF RunRow, RunStage
      <3>2. run' = [run EXCEPT ![i][k] = row] /\ inflight' = inflight
        BY <2>2 DEF GoTo
      <3> HIDE DEF row
      <3> QED
        BY <1>1, <2>1, <3>1, <3>2, RowKeepsClosed
    <2>3. ASSUME NEW t \in BOOLEAN, EndRun(i, k, t)
          PROVE  Closed(j)'
      <3>1. NoRun \in RunRow /\ NoRun.stage = "idle"
        BY DEF NoRun, RunRow, RunStage
      <3>2. /\ run' = [run EXCEPT ![i][k] = NoRun]
            /\ inflight' = inflight \/ (inflight' = inflight \ {i} /\ Live(i, k))
        BY <2>3 DEF EndRun
      <3> QED
        BY <1>1, <3>1, <3>2, RowKeepsClosed
    <2>4. \/ \E stage \in {"work", "submit", "send"} : GoTo(i, k, stage)
          \/ \E t \in BOOLEAN : EndRun(i, k, t)
      BY <1>3 DEF RunStep, Verify, Work, Submit, Send
    <2> QED
      BY <2>2, <2>3, <2>4
  <1>4. ASSUME NEW i \in Jobs, NEW k \in Runs, Timeout(i, k)
        PROVE  Closed(j)'
    <2> DEFINE row == IF run[i][k].stage \in {"submit", "send"}
                      THEN [stage |-> run[i][k].stage, orphan |-> TRUE] ELSE NoRun
    <2>1. row \in RunRow /\ (row.stage = "idle" \/ row.orphan)
      BY <1>1 DEF SlotTypes, NoRun, RunRow, RunStage
    <2>2. run' = [run EXCEPT ![i][k] = row] /\ inflight' = inflight \ {i} /\ Live(i, k)
      BY <1>4 DEF Timeout
    <2> HIDE DEF row
    <2> QED
      BY <1>1, <2>1, <2>2, RowKeepsClosed
  <1>5. ASSUME NEW q \in Requests, RequestStep(q) \/ \E i \in Jobs : Notify(q, i)
        PROVE  Closed(j)'
    <2>1. CASE Accept(q)
      <3>1. {request[q].job} \in SUBSET Jobs
        BY <2>1 DEF Accept, SlotInv, RequestsOK
      <3>2. \E stage : SpawnJobs({request[q].job}, stage)
        BY <2>1 DEF Accept
      <3> QED
        BY <3>1, <3>2, SpawnKeepsClosed
    <2>2. CASE ~Accept(q)
      BY <1>2, <1>5, <2>2 DEF RequestStep, PreVerify, Reject, Notify
    <2> QED
      BY <2>1, <2>2
  <1>6. ASSUME NEW s \in Sweeps, SweepStep(s)
        PROVE  Closed(j)'
    <2>1. CASE DeliverListed(s)
      <3>1. sweep[s].jobs \in SUBSET Jobs
        BY <1>1 DEF SlotTypes, SweepRow
      <3> QED
        BY <2>1, <3>1, SpawnKeepsClosed DEF DeliverListed
    <2>2. CASE ~DeliverListed(s)
      BY <1>2, <1>6, <2>2 DEF SweepStep, Scan, ScanFails
    <2> QED
      BY <2>1, <2>2
  <1>7. ASSUME NEW i \in Jobs, Fund(i) \/ Lapse(i)
        PROVE  Closed(j)'
    BY <1>2, <1>7 DEF Fund, Lapse
  <1>8. CASE NotifyBare \/ UNCHANGED sellerVars
    BY <1>2, <1>8 DEF NotifyBare, sellerVars
  <1> QED
    BY <1>3, <1>4, <1>5, <1>6, <1>7, <1>8 DEF SellerNext

LEMMA CountersStay ==
  ASSUME CountersOK, [SellerNext]_sellerVars
  PROVE  CountersOK' /\ (faults' = 0 => faults = 0) /\ (Restart => restarts' # restarts)
  <1>1. ASSUME NEW j \in Jobs, Fund(j) \/ Lapse(j)
        PROVE  chain' \in [Jobs -> ChainStatus] /\ faults' = faults /\ restarts' = restarts
    BY <1>1 DEF CountersOK, Fund, Lapse, ChainStatus
  <1>2. ASSUME NEW j \in Jobs, NEW k \in Runs, RunStep(j, k) \/ Timeout(j, k)
        PROVE  /\ chain' \in [Jobs -> ChainStatus] /\ restarts' = restarts
               /\ faults' = faults \/ faults' = faults + 1
    <2>1. CASE Send(j, k)
      BY <2>1 DEF CountersOK, Send, Fault, ChainStatus
    <2>2. CASE ~Send(j, k)
      BY <1>2, <2>2 DEF CountersOK, RunStep, Verify, Work, Submit, Timeout, Fault
    <2> QED
      BY <2>1, <2>2
  <1>3. ASSUME NEW q \in Requests, RequestStep(q) \/ \E j \in Jobs : Notify(q, j)
        PROVE  /\ chain' = chain /\ restarts' = restarts
               /\ faults' = faults \/ faults' = faults + 1
    BY <1>3 DEF RequestStep, PreVerify, Reject, Accept, Notify, Fault
  <1>4. ASSUME NEW s \in Sweeps, SweepStep(s)
        PROVE  /\ chain' = chain /\ restarts' = restarts
               /\ faults' = faults \/ faults' = faults + 1
    BY <1>4 DEF SweepStep, Scan, ScanFails, DeliverListed, Fault
  <1>5. CASE NotifyBare \/ UNCHANGED sellerVars
    <2>1. chain' = chain /\ faults' = faults /\ restarts' = restarts
      BY <1>5 DEF NotifyBare, sellerVars
    <2>2. ~Restart
      BY <2>1 DEF Restart, CountersOK
    <2> QED
      BY <2>1, <2>2 DEF CountersOK
  <1>6. CASE Restart
    BY <1>6 DEF Restart, Fault, CountersOK
  <1>7. Restart => restarts' # restarts
    BY DEF Restart, CountersOK
  <1> QED
    BY <1>1, <1>2, <1>3, <1>4, <1>5, <1>6, <1>7 DEF SellerNext, CountersOK

\* What a step that meets no failure does to a settled job.
LEMMA SpawnKeepsSettled ==
  ASSUME SlotInv, NoOrphans, NEW jobs \in SUBSET Jobs, NEW stage \in {"verify", "work"},
         SpawnJobs(jobs, stage), NEW j \in Jobs, Settled(j),
         stage = "work" => \A i \in jobs : Vouched(i),
         Vouched(j)' => Vouched(j)
  PROVE  Settled(j)'
  <1>1. CASE Closed(j)
    BY <1>1, SpawnKeepsClosed DEF Settled
  <1>2. CASE ~Closed(j)
    <2>1. ~Vouched(j) /\ ~Working(j)
      BY <1>2 DEF Settled
    <2>2. ASSUME NEW k \in Runs
          PROVE  run'[j][k].stage \notin {"work", "submit", "send"}
      <3>1. CASE j \notin jobs \ inflight
        <4>1. run'[j] = run[j]
          BY <3>1 DEF SpawnJobs
        <4> QED
          BY <2>1, <4>1 DEF Working
      <3>2. CASE j \in jobs \ inflight
        <4> DEFINE row == [stage |-> stage, orphan |-> FALSE]
        <4>1. run'[j] = [run[j] EXCEPT ![IdleRun(j)] = row] /\ run[j] \in [Runs -> RunRow]
          BY <3>2 DEF SpawnJobs, SlotInv, SlotTypes
        <4>2. stage = "verify" /\ row.stage = stage
          BY <2>1, <3>2
        <4> HIDE DEF row
        <4>3. run'[j][k] = row \/ run'[j][k] = run[j][k]
          BY <4>1
        <4> QED
          BY <2>1, <4>2, <4>3 DEF Working
      <3> QED
        BY <3>1, <3>2
    <2> QED
      BY <2>1, <2>2 DEF Settled, Working
  <1> QED
    BY <1>1, <1>2

LEMMA SpawnKeepsOrphans ==
  ASSUME SlotInv, NoOrphans, NEW jobs \in SUBSET Jobs, NEW stage, SpawnJobs(jobs, stage)
  PROVE  NoOrphans'
  <1> DEFINE row == [stage |-> stage, orphan |-> FALSE]
  <1>1. ASSUME NEW j \in Jobs, NEW k \in Runs PROVE ~run'[j][k].orphan
    <2>1. run[j] \in [Runs -> RunRow] /\ row.orphan = FALSE
      BY DEF SlotInv, SlotTypes
    <2>2. run'[j] = run[j] \/ run'[j] = [run[j] EXCEPT ![IdleRun(j)] = row]
      BY DEF SpawnJobs
    <2> HIDE DEF row
    <2>3. run'[j][k] = run[j][k] \/ run'[j][k] = row
      BY <2>1, <2>2
    <2> QED
      BY <2>1, <2>3 DEF NoOrphans
  <1> QED
    BY <1>1 DEF NoOrphans

\* Steps that leave runs, slots and the chain alone, and vouch for no delivered job.
LEMMA ElsewhereSettles ==
  ASSUME NoOrphans, DeliveredStays, run' = run, inflight' = inflight,
         \A j \in Jobs : chain'[j] = "submitted" => chain[j] = "submitted" /\ (Vouched(j)' => Vouched(j))
  PROVE  NoOrphans' /\ DeliveredStays'
  BY DEF NoOrphans, DeliveredStays, Settled, Closed, Live, Working

\* A run of one job changes.
LEMMA RunRowSettles ==
  ASSUME SlotInv, NoOrphans, DeliveredStays, NEW i \in Jobs, NEW k \in Runs, NEW row \in RunRow,
         run' = [run EXCEPT ![i][k] = row], ~row.orphan,
         inflight' = inflight \/ inflight' = inflight \ {i},
         \A j \in Jobs \ {i} : chain'[j] = chain[j],
         request' = request,
         chain'[i] = "submitted" => Settled(i)'
  PROVE  NoOrphans' /\ DeliveredStays'
  <1>1. /\ run'[i][k] = row
        /\ \A h \in Jobs, l \in Runs : h # i \/ l # k => run'[h][l] = run[h][l]
    BY DEF SlotInv, SlotTypes
  <1>2. NoOrphans'
    BY <1>1 DEF NoOrphans
  <1>3. ASSUME NEW j \in Jobs, j # i, chain'[j] = "submitted"
        PROVE  Settled(j)'
    <2>1. Settled(j)
      BY <1>3 DEF DeliveredStays
    <2>2. \A l \in Runs : run'[j][l] = run[j][l]
      BY <1>1, <1>3
    <2>3. Closed(j) => Closed(j)'
      BY <1>3, <2>2 DEF Closed, Live
    <2>4. (Vouched(j)' => Vouched(j)) /\ (Working(j)' => Working(j))
      BY <2>2 DEF Vouched, Working
    <2> QED
      BY <2>1, <2>3, <2>4 DEF Settled
  <1> QED
    BY <1>2, <1>3 DEF DeliveredStays

LEMMA RunStepSettles ==
  ASSUME SlotInv, CountersOK, NoOrphans, DeliveredStays, NEW i \in Jobs, NEW k \in Runs, RunStep(i, k),
         faults' = faults
  PROVE  NoOrphans' /\ DeliveredStays'
  <1>1. run[i][k] \in RunRow /\ run[i][k].stage # "idle" /\ ~run[i][k].orphan /\ Live(i, k)
        /\ ~Fault /\ request' = request
    <2>1. run[i][k] \in RunRow /\ ~run[i][k].orphan
      BY DEF SlotInv, SlotTypes, NoOrphans
    <2>2. run[i][k].stage # "idle" /\ request' = request
      BY DEF RunStep, Verify, Work, Submit, Send, At
    <2>3. ~Fault
      BY DEF Fault, CountersOK
    <2> QED
      BY <2>1, <2>2, <2>3 DEF Live
  <1>2. i \in inflight /\ \A l \in Runs : Live(i, l) => l = k
    BY <1>1 DEF SlotInv, OneRunnerPerJob
  <1>3. ~Closed(i)
    BY <1>1 DEF Closed
  <1>4. chain[i] = "submitted" => ~Vouched(i) /\ ~Working(i)
    BY <1>3 DEF DeliveredStays, Settled
  <1>5. ASSUME NEW stage \in {"work", "submit", "send"}, GoTo(i, k, stage), chain' = chain, chain[i] # "submitted"
        PROVE  NoOrphans' /\ DeliveredStays'
    <2> DEFINE row == [stage |-> stage, orphan |-> run[i][k].orphan]
    <2>1. row \in RunRow /\ ~row.orphan
      BY <1>1 DEF RunRow, RunStage
    <2>2. run' = [run EXCEPT ![i][k] = row] /\ inflight' = inflight
      BY <1>5 DEF GoTo
    <2> HIDE DEF row
    <2> QED
      BY <1>1, <1>5, <2>1, <2>2, RunRowSettles
  <1>6. NoRun \in RunRow /\ NoRun.stage = "idle" /\ ~NoRun.orphan
    BY DEF NoRun, RunRow, RunStage
  <1>7. ASSUME NEW t \in BOOLEAN, EndRun(i, k, t),
               \A j \in Jobs \ {i} : chain'[j] = chain[j],
               chain'[i] = "submitted" => chain[i] = "submitted" \/ t
        PROVE  NoOrphans' /\ DeliveredStays'
    <2>1. run' = [run EXCEPT ![i][k] = NoRun] /\ (inflight' = inflight \/ inflight' = inflight \ {i})
          /\ (t => inflight' = inflight)
      BY <1>7 DEF EndRun
    <2>2. run'[i][k] = NoRun /\ \A l \in Runs \ {k} : run'[i][l] = run[i][l]
      BY <2>1 DEF SlotInv, SlotTypes
    <2>3. t => Closed(i)'
      BY <1>2, <1>6, <2>1, <2>2 DEF Closed, Live
    <2>4. chain[i] = "submitted" => Settled(i)'
      <3>1. ASSUME chain[i] = "submitted" PROVE ~Vouched(i)' /\ ~Working(i)'
        BY <1>1, <1>4, <1>6, <2>2, <3>1 DEF Vouched, Working
      <3> QED
        BY <3>1 DEF Settled
    <2>5. chain'[i] = "submitted" => Settled(i)'
      BY <1>7, <2>3, <2>4 DEF Settled
    <2> QED
      BY <1>1, <1>6, <1>7, <2>1, <2>5, RunRowSettles
  <1>8. CASE Verify(i, k)
    <2>1. chain' = chain /\ (\/ Verifies(i) /\ GoTo(i, k, "work")
                             \/ EndRun(i, k, TRUE) \/ EndRun(i, k, FALSE))
      BY <1>8 DEF Verify
    <2>2. Verifies(i) => chain[i] # "submitted"
      BY DEF Verifies
    <2> QED
      BY <1>5, <1>7, <2>1, <2>2
  <1>9. CASE Work(i, k)
    <2>1. chain' = chain /\ GoTo(i, k, "submit") /\ run[i][k].stage = "work"
      BY <1>1, <1>9 DEF Work, At
    <2>2. chain[i] # "submitted"
      BY <1>4, <2>1 DEF Working
    <2> QED
      BY <1>5, <2>1, <2>2
  <1>10. CASE Submit(i, k)
    <2>1. chain' = chain /\ (\/ Verifies(i) /\ GoTo(i, k, "send")
                             \/ EndRun(i, k, TRUE) \/ EndRun(i, k, FALSE))
      BY <1>10 DEF Submit
    <2>2. Verifies(i) => chain[i] # "submitted"
      BY DEF Verifies
    <2> QED
      BY <1>5, <1>7, <2>1, <2>2
  <1>11. CASE Send(i, k)
    <2>1. \/ chain' = [chain EXCEPT ![i] = "submitted"] /\ EndRun(i, k, TRUE)
          \/ chain[i] # "funded" /\ EndRun(i, k, FALSE) /\ chain' = chain
      BY <1>1, <1>11 DEF Send
    <2>2. \A j \in Jobs \ {i} : chain'[j] = chain[j]
      BY <2>1 DEF CountersOK
    <2> QED
      BY <1>7, <2>1, <2>2
  <1> QED
    BY <1>8, <1>9, <1>10, <1>11 DEF RunStep

LEMMA RequestStepSettles ==
  ASSUME SlotInv, CountersOK, NoOrphans, DeliveredStays, faults' = faults,
         NEW q \in Requests, RequestStep(q) \/ \E j \in Jobs : Notify(q, j)
  PROVE  NoOrphans' /\ DeliveredStays'
  <1>1. request \in [Requests -> RequestRow] /\ chain' = chain /\ ~Fault
    BY DEF SlotInv, SlotTypes, RequestStep, PreVerify, Reject, Accept, Notify, CountersOK, Fault
  <1>2. ASSUME NEW row, request' = [request EXCEPT ![q] = row],
               NEW j \in Jobs, row.stage = "ok" => row.job # j
        PROVE  Vouched(j)' => Vouched(j)
    <2>1. \A p \in Requests : request'[p] = row \/ request'[p] = request[p]
      BY <1>1, <1>2
    <2> QED
      BY <1>2, <2>1 DEF Vouched
  <1>3. ASSUME NEW i \in Jobs, Notify(q, i) PROVE NoOrphans' /\ DeliveredStays'
    <2> DEFINE row == [stage |-> "asked", job |-> i]
    <2>1. row.stage # "ok" /\ request' = [request EXCEPT ![q] = row] /\ run' = run /\ inflight' = inflight
      BY <1>3 DEF Notify
    <2> HIDE DEF row
    <2> QED
      BY <1>1, <1>2, <2>1, ElsewhereSettles
  <1>4. CASE PreVerify(q)
    <2>1. PICK stage \in {"ok", "rejected", "unknown"} :
            Answer(q, stage) /\ (stage = "ok" => Verifies(request[q].job))
      BY <1>4 DEF PreVerify
    <2> DEFINE row == [request[q] EXCEPT !.stage = stage]
    <2>2. row.stage = stage /\ row.job = request[q].job
      BY <1>1 DEF RequestRow, RequestStage
    <2>3. request' = [request EXCEPT ![q] = row] /\ run' = run /\ inflight' = inflight
      BY <1>4, <2>1 DEF PreVerify, Answer
    <2>4. row.stage = "ok" => chain[row.job] = "funded"
      BY <2>1, <2>2 DEF Verifies
    <2> HIDE DEF row
    <2> QED
      BY <1>1, <1>2, <2>3, <2>4, ElsewhereSettles
  <1>5. NoRequest.stage = "idle"
    BY DEF NoRequest
  <1>6. CASE Reject(q)
    BY <1>1, <1>2, <1>5, <1>6, ElsewhereSettles DEF Reject
  <1>7. CASE Accept(q)
    <2> DEFINE stage == IF request[q].stage = "ok" THEN "work" ELSE "verify"
    <2>1. {request[q].job} \in SUBSET Jobs
      BY <1>7 DEF Accept, SlotInv, RequestsOK
    <2>2. SpawnJobs({request[q].job}, stage) /\ request' = [request EXCEPT ![q] = NoRequest]
      BY <1>7 DEF Accept
    <2>3. stage \in {"verify", "work"} /\ (stage = "work" => \A i \in {request[q].job} : Vouched(i))
      BY DEF Vouched
    <2> HIDE DEF stage
    <2>4. \A j \in Jobs : Vouched(j)' => Vouched(j)
      BY <1>2, <1>5, <2>2
    <2>5. NoOrphans'
      BY <2>1, <2>2, SpawnKeepsOrphans
    <2>6. \A j \in Jobs : Settled(j) => Settled(j)'
      BY <2>1, <2>2, <2>3, <2>4, SpawnKeepsSettled
    <2> QED
      BY <1>1, <2>5, <2>6 DEF DeliveredStays
  <1> QED
    BY <1>3, <1>4, <1>6, <1>7 DEF RequestStep

LEMMA DeliveryStarts == SellerInit => DeliveryInv
  <1> SUFFICES ASSUME SellerInit PROVE DeliveryInv
    OBVIOUS
  <1>1. CountersOK
    BY DEF SellerInit, CountersOK, ChainStatus
  <1>2. NoOrphans /\ DeliveredStays
    BY DEF SellerInit, NoOrphans, DeliveredStays, NoRun
  <1> QED
    BY <1>1, <1>2, SlotInitially DEF DeliveryInv

LEMMA DeliveryGoesOn == DeliveryInv /\ [SellerNext]_sellerVars => DeliveryInv'
  <1> SUFFICES ASSUME DeliveryInv, [SellerNext]_sellerVars PROVE DeliveryInv'
    OBVIOUS
  <1>1. SlotInv /\ CountersOK
    BY DEF DeliveryInv
  <1>2. SlotInv' /\ CountersOK'
    BY <1>1, SlotStep, CountersStay
  <1>3. ASSUME faults' = 0 PROVE NoOrphans' /\ DeliveredStays'
    <2>1. faults = 0 /\ faults' = faults /\ NoOrphans /\ DeliveredStays /\ ~Fault
      BY <1>1, <1>3, CountersStay DEF DeliveryInv, Fault
    <2>2. ASSUME NEW j \in Jobs, NEW k \in Runs, RunStep(j, k)
          PROVE  NoOrphans' /\ DeliveredStays'
      BY <1>1, <2>1, <2>2, RunStepSettles
    <2>3. ASSUME NEW j \in Jobs, NEW k \in Runs PROVE ~Timeout(j, k)
      BY <2>1 DEF Timeout
    <2>4. ASSUME NEW q \in Requests, RequestStep(q) \/ \E j \in Jobs : Notify(q, j)
          PROVE  NoOrphans' /\ DeliveredStays'
      BY <1>1, <2>1, <2>4, RequestStepSettles
    <2>5. ASSUME NEW s \in Sweeps, DeliverListed(s)
          PROVE  NoOrphans' /\ DeliveredStays'
      <3>1. sweep[s].jobs \in SUBSET Jobs
        BY <1>1 DEF SlotInv, SlotTypes, SweepRow
      <3>2. SpawnJobs(sweep[s].jobs, "verify") /\ chain' = chain /\ request' = request
        BY <2>5 DEF DeliverListed
      <3>3. \A j \in Jobs : Vouched(j)' => Vouched(j)
        BY <3>2 DEF Vouched
      <3>4. NoOrphans'
        BY <1>1, <2>1, <3>1, <3>2, SpawnKeepsOrphans
      <3>5. \A j \in Jobs : Settled(j) => Settled(j)'
        BY <1>1, <2>1, <3>1, <3>2, <3>3, SpawnKeepsSettled
      <3> QED
        BY <2>1, <3>2, <3>4, <3>5 DEF DeliveredStays
    <2>6. ASSUME run' = run, inflight' = inflight, request' = request,
                 \A j \in Jobs : chain'[j] = "submitted" => chain[j] = "submitted"
          PROVE  NoOrphans' /\ DeliveredStays'
      <3>1. \A j \in Jobs : Vouched(j)' => Vouched(j)
        BY <2>6 DEF Vouched
      <3> QED
        BY <2>1, <2>6, <3>1, ElsewhereSettles
    <2>7. ASSUME NEW j \in Jobs, Fund(j) \/ Lapse(j)
          PROVE  NoOrphans' /\ DeliveredStays'
      <3>1. run' = run /\ inflight' = inflight /\ request' = request
        BY <2>7 DEF Fund, Lapse
      <3>2. \A i \in Jobs : chain'[i] = "submitted" => chain[i] = "submitted"
        BY <1>1, <2>7 DEF Fund, Lapse, CountersOK
      <3> QED
        BY <2>6, <3>1, <3>2
    <2>8. ASSUME NEW s \in Sweeps, Scan(s) \/ ScanFails(s)
          PROVE  NoOrphans' /\ DeliveredStays'
      BY <2>6, <2>8 DEF Scan, ScanFails
    <2>9. CASE NotifyBare \/ UNCHANGED sellerVars
      BY <2>6, <2>9 DEF NotifyBare, sellerVars
    <2>10. CASE Restart
      <3>1. /\ run' = [j \in Jobs |-> [k \in Runs |-> NoRun]]
            /\ request' = [q \in Requests |-> NoRequest]
        BY <2>10 DEF Restart
      <3>2. NoRun.stage = "idle" /\ ~NoRun.orphan /\ NoRequest.stage = "idle"
        BY DEF NoRun, NoRequest
      <3>3. NoOrphans'
        BY <3>1, <3>2 DEF NoOrphans
      <3>4. \A j \in Jobs : ~Vouched(j)' /\ ~Working(j)'
        BY <3>1, <3>2 DEF Vouched, Working
      <3> QED
        BY <3>3, <3>4 DEF DeliveredStays, Settled
    <2> QED
      BY <2>2, <2>3, <2>4, <2>5, <2>7, <2>8, <2>9, <2>10 DEF SellerNext, SweepStep
  <1> QED
    BY <1>2, <1>3 DEF DeliveryInv

\* A job the seller has delivered is closed for the life of the process, and unless
\* something fails nothing works on it again, in this process or the next.
THEOREM DeliveriesAreNotRepeated == SellerSpec => DeliveredOnce
  <1>1. DeliveryInv => NoWorkOnDelivered
    <2> SUFFICES ASSUME DeliveryInv, faults = 0, NEW j \in Jobs, NEW k \in Runs, chain[j] = "submitted"
                 PROVE  run[j][k].stage \notin {"work", "submit", "send"}
      BY DEF NoWorkOnDelivered
    <2>1. NoOrphans /\ Settled(j)
      BY DEF DeliveryInv, DeliveredStays
    <2> QED
      BY <2>1 DEF Settled, Closed, Live, NoOrphans, Working
  <1>2. DeliveryInv /\ [SellerNext]_sellerVars =>
          [restarts' = restarts => \A j \in Jobs : Closed(j) => Closed(j)']_sellerVars
    <2> SUFFICES ASSUME DeliveryInv, [SellerNext]_sellerVars, restarts' = restarts, NEW j \in Jobs, Closed(j)
                 PROVE  Closed(j)'
      OBVIOUS
    <2>1. SlotInv /\ ~Restart
      BY CountersStay DEF DeliveryInv
    <2> QED
      BY <2>1, ClosedStaysClosed
  <1> QED
    BY <1>1, <1>2, DeliveryStarts, DeliveryGoesOn, PTL DEF SellerSpec, DeliveredOnce, TerminalStays

\* No step takes a slot for anything but a job.
LEMMA SlotsAreOfJobs ==
  ASSUME SlotInv, inflight \subseteq Jobs, [SellerNext]_sellerVars
  PROVE  inflight' \subseteq Jobs
  <1>1. ASSUME NEW jobs \in SUBSET Jobs, NEW stage, SpawnJobs(jobs, stage)  PROVE inflight' \subseteq Jobs
    BY <1>1 DEF SpawnJobs
  <1>2. ASSUME NEW j \in Jobs, NEW k \in Runs, NEW t, EndRun(j, k, t)  PROVE inflight' \subseteq Jobs
    BY <1>2 DEF EndRun
  <1>3. ASSUME NEW j \in Jobs, NEW k \in Runs, RunStep(j, k)  PROVE inflight' \subseteq Jobs
    <2>1. ASSUME NEW stage, GoTo(j, k, stage)  PROVE inflight' \subseteq Jobs
      BY <2>1 DEF GoTo
    <2>2. CASE Verify(j, k) \/ Work(j, k)
      BY <1>2, <2>1, <2>2 DEF Verify, Work
    <2>3. CASE Submit(j, k) \/ Send(j, k)
      BY <1>2, <2>1, <2>3 DEF Submit, Send
    <2> QED  BY <1>3, <2>2, <2>3 DEF RunStep
  <1>4. ASSUME NEW j \in Jobs, NEW k \in Runs, Timeout(j, k)  PROVE inflight' \subseteq Jobs
    BY <1>4 DEF Timeout
  <1>5. ASSUME NEW j \in Jobs, Fund(j) \/ Lapse(j) \/ \E q \in Requests : Notify(q, j)  PROVE inflight' \subseteq Jobs
    BY <1>5 DEF Fund, Lapse, Notify
  <1>6. ASSUME NEW q \in Requests, RequestStep(q)  PROVE inflight' \subseteq Jobs
    <2>1. CASE PreVerify(q) \/ Reject(q)
      BY <2>1 DEF PreVerify, Reject
    <2>2. CASE Accept(q)
      <3>1. request[q].job \in Jobs
        BY <2>2 DEF Accept, SlotInv, RequestsOK
      <3> QED  BY <1>1, <2>2, <3>1 DEF Accept
    <2> QED  BY <1>6, <2>1, <2>2 DEF RequestStep
  <1>7. ASSUME NEW s \in Sweeps, SweepStep(s)  PROVE inflight' \subseteq Jobs
    <2>1. CASE Scan(s) \/ ScanFails(s)
      BY <2>1 DEF Scan, ScanFails
    <2>2. CASE DeliverListed(s)
      <3>1. sweep[s].jobs \in SUBSET Jobs
        BY DEF SlotInv, SlotTypes, SweepRow
      <3> QED  BY <1>1, <2>2, <3>1 DEF DeliverListed
    <2> QED  BY <1>7, <2>1, <2>2 DEF SweepStep
  <1>8. CASE NotifyBare \/ Restart \/ UNCHANGED sellerVars
    BY <1>8 DEF NotifyBare, Restart, sellerVars
  <1> QED
    BY <1>3, <1>4, <1>5, <1>6, <1>7, <1>8 DEF SellerNext

\* Every state of the agent has its type, for every number of jobs, deliveries,
\* notifications and sweeps.
THEOREM SellerTypeCorrect == SellerSpec => []SellerTypeOK
  <1> DEFINE Typed == DeliveryInv /\ inflight \subseteq Jobs
  <1>1. SellerInit => Typed
    BY DeliveryStarts DEF SellerInit
  <1>2. Typed /\ [SellerNext]_sellerVars => Typed'
    BY SlotsAreOfJobs, DeliveryGoesOn DEF DeliveryInv
  <1>3. Typed => SellerTypeOK
    BY DEF DeliveryInv, SlotInv, SlotTypes, CountersOK, SellerTypeOK
  <1> HIDE DEF Typed
  <1> QED
    BY <1>1, <1>2, <1>3, PTL DEF SellerSpec

-----------------------------------------------------------------------------
(***************************************************************************)
(* The buyer of a live order, for any number of plans, orders and pending  *)
(* transactions: money is in escrow only for orders the browser has        *)
(* stored, and for one order of each signed plan.                          *)
(*                                                                         *)
(* The page may send the creation of an order twice, and both may be       *)
(* mined.  What keeps the second order out of escrow is that an order is   *)
(* funded only by a transaction that names it, the page makes such a       *)
(* transaction only for an order it has stored, and it stores an order     *)
(* only for the receipt it waits for.  It waits for one at a time, so an   *)
(* order of the same plan is not stored while one is being created, and    *)
(* once one is stored the step create_job is confirmed and not sent again. *)
(***************************************************************************)

\* A transaction that pays for an order pays for a stored one.
FundIsStored(tx, st) == tx.step = "fund_job" => tx.job \in st

\* No order of the plan is stored.
Creatable(p, st, jb, pl) == p <= pl /\ \A j \in st : jb[j].plan # p

\* What the page may have in its plan when the steps done are confirmed.
PlannedTxs(done, st, jb, pl) ==
  {tx \in Txs : /\ FundIsStored(tx, st)
                /\ tx.step = "create_job" /\ "create_job" \notin done => Creatable(tx.plan, st, jb, pl)}

PageSound(pg, st, jb, pl) ==
  /\ pg \in Page
  /\ pg.txs \in Seq(PlannedTxs(pg.results, st, jb, pl))
  /\ FundIsStored(pg.sending, st)
  /\ pg.url # NoOrder => pg.url \in st
  /\ pg.resuming \/ pg.stage = "followup" => pg.url # NoOrder
  /\ pg.stage \in {"wallet", "receipt"} /\ pg.sending.step = "create_job" => Creatable(pg.sending.plan, st, jb, pl)

PendingTxs(st) == {e \in [tx: Txs, watched: BOOLEAN] : FundIsStored(e.tx, st)}

\* The receipt the page waits for is of the transaction it sent, and there is one.
WatchesItsTx(pl, pg) ==
  \A i \in DOMAIN pl : pl[i].watched =>
    /\ pg.stage = "receipt" /\ pl[i].tx = pg.sending
    /\ \A k \in DOMAIN pl : pl[k].watched => k = i

OrdersSound(st, jb, pl) ==
  /\ \A j \in st : jb[j].status # "none" /\ jb[j].plan <= pl
  /\ \A j, k \in st : jb[j].plan = jb[k].plan => j = k
  /\ \A j \in Orders : jb[j].status \notin {"none", "open"} => j \in st

HireTypes ==
  /\ job \in [Orders -> JobRow] /\ allowance \in {0, Price}
  /\ quote \in [Plans -> BOOLEAN] /\ plans \in 0 .. MaxPlans /\ stored \subseteq Orders

HireInv ==
  /\ HireTypes
  /\ pool \in Seq(PendingTxs(stored))
  /\ WatchesItsTx(pool, page)
  /\ PageSound(page, stored, job, plans)
  /\ OrdersSound(stored, job, plans)

LEMMA HireBounds ==
  /\ MaxPlans \in Nat /\ MaxOrders \in Nat
  /\ Orders \subseteq Nat \ {0} /\ NoOrder = 0 /\ NoOrder \notin Orders /\ Price = 1 /\ Other = 2
  BY HireConstantsOK DEF HireConstantsOK, Orders, NoOrder, Price, Other

LEMMA SafeAndTyped == HireInv => TypeOK /\ EscrowIsSafe
  <1> SUFFICES ASSUME HireInv PROVE TypeOK /\ EscrowIsSafe
    OBVIOUS
  <1>1. pool \in Seq([tx: Txs, watched: BOOLEAN])
    <2>1. PendingTxs(stored) \subseteq [tx: Txs, watched: BOOLEAN]
      BY DEF PendingTxs
    <2> QED
      BY <2>1, SeqMonotonic DEF HireInv
  <1>2. TypeOK
    BY <1>1 DEF HireInv, HireTypes, PageSound, TypeOK
  <1>3. EscrowIsRecoverable
    BY DEF HireInv, OrdersSound, EscrowIsRecoverable, Escrowed
  <1>4. OneEscrowPerPlan
    BY <1>3 DEF HireInv, OrdersSound, EscrowIsRecoverable, OneEscrowPerPlan
  <1> QED
    BY <1>2, <1>3, <1>4 DEF EscrowIsSafe

-----------------------------------------------------------------------------
(* Transactions. *)

LEMMA TxTypes ==
  ASSUME NEW s \in Steps, NEW j \in Orders \union {NoOrder}, NEW p \in 0 .. MaxPlans
  PROVE  Tx(s, j, p) \in Txs /\ Tx(s, j, p).step = s /\ Tx(s, j, p).job = j /\ Tx(s, j, p).plan = p
  BY DEF Tx, Txs

LEMMA NoTxTypes == NoTx \in Txs /\ NoTx.step = "create_job"
  BY HireBounds, TxTypes DEF NoTx, Steps

FollowupTxs(j) == {tx \in Txs : tx.step \in {"register_job", "set_budget", "approve_u", "fund_job"} /\ tx.job = j}

LEMMA FollowupSteps ==
  ASSUME NEW j \in Orders
  PROVE  Followup(j) \in Seq(FollowupTxs(j))
  <1> DEFINE S == FollowupTxs(j)
  <1>1. ASSUME NEW s \in {"register_job", "set_budget", "approve_u", "fund_job"}
        PROVE  Tx(s, j, 0) \in S
    BY <1>1, TxTypes, HireBounds DEF FollowupTxs, Steps
  <1>2. ASSUME NEW b \in BOOLEAN, NEW s \in {"register_job", "set_budget", "approve_u", "fund_job"}
        PROVE  Needed(b, s, j) \in Seq(S)
    <2> DEFINE t == Tx(s, j, 0)
    <2>1. t \in S
      BY <1>1
    <2> HIDE DEF t, S
    <2>2. <<t>> \in Seq(S) /\ <<>> \in Seq(S)
      BY <2>1
    <2> QED
      BY <2>2 DEF Needed, t
  <1>3. <<Tx("fund_job", j, 0)>> \in Seq(S)
    <2> DEFINE t == Tx("fund_job", j, 0)
    <2>1. t \in S
      BY <1>1
    <2> HIDE DEF t, S
    <2> QED
      BY <2>1 DEF t
  <1> HIDE DEF S
  <1>4. Needed(~job[j].policy, "register_job", j) \in Seq(S)
    BY <1>2
  <1>5. Needed(job[j].budget = 0, "set_budget", j) \in Seq(S)
    BY <1>2
  <1>6. Needed(allowance # Price, "approve_u", j) \in Seq(S)
    BY <1>2
  <1>7. Followup(j) \in Seq(S)
    BY <1>3, <1>4, <1>5, <1>6, ConcatProperties DEF Followup
  <1> QED
    BY <1>7 DEF S

LEMMA FollowupPlanned ==
  ASSUME NEW j \in Orders, NEW st, j \in st, NEW jb, NEW pl, NEW done
  PROVE  Followup(j) \in Seq(PlannedTxs(done, st, jb, pl))
  <1>1. FollowupTxs(j) \subseteq PlannedTxs(done, st, jb, pl)
    BY DEF FollowupTxs, PlannedTxs, FundIsStored
  <1> QED
    BY <1>1, FollowupSteps, SeqMonotonic

-----------------------------------------------------------------------------
(* What may change around the page. *)

\* Plans are made and orders stored, but no stored order changes its plan.
LEMMA AroundThePage ==
  ASSUME NEW pg, NEW st, NEW jb, NEW pl \in Int, PageSound(pg, st, jb, pl),
         NEW jb2, NEW pl2 \in Int, pl <= pl2, \A j \in st : jb2[j].plan = jb[j].plan
  PROVE  PageSound(pg, st, jb2, pl2)
  <1>1. ASSUME NEW p \in 0 .. MaxPlans, Creatable(p, st, jb, pl) PROVE Creatable(p, st, jb2, pl2)
    BY <1>1, HireBounds DEF Creatable
  <1>2. PlannedTxs(pg.results, st, jb, pl) \subseteq PlannedTxs(pg.results, st, jb2, pl2)
    BY <1>1 DEF PlannedTxs, Txs
  <1>3. pg.txs \in Seq(PlannedTxs(pg.results, st, jb2, pl2))
    BY <1>2, SeqMonotonic DEF PageSound
  <1>4. pg.sending.plan \in 0 .. MaxPlans
    BY DEF PageSound, Page, Txs
  <1> QED
    BY <1>1, <1>3, <1>4 DEF PageSound

\* The page may say and show other things while its work stays the same.
LEMMA SameWork ==
  ASSUME NEW pg, NEW st, NEW jb, NEW pl, PageSound(pg, st, jb, pl), NEW pg2 \in Page,
         pg2.txs = pg.txs, pg2.results = pg.results, pg2.stage = pg.stage,
         pg2.sending = pg.sending, pg2.url = pg.url,
         pg2.resuming => pg2.url # NoOrder
  PROVE  PageSound(pg2, st, jb, pl)
  BY DEF PageSound

LEMMA WatchesOf ==
  ASSUME NEW pl, NEW pg, NEW pg2, WatchesItsTx(pl, pg), pg2.stage = pg.stage, pg2.sending = pg.sending
  PROVE  WatchesItsTx(pl, pg2)
  BY DEF WatchesItsTx

LEMMA UnwatchedPool ==
  ASSUME NEW S, S = PendingTxs(stored), pool \in Seq(S), NEW pg
  PROVE  Unwatched \in Seq(S) /\ WatchesItsTx(Unwatched, pg)
  <1>1. Len(pool) \in Nat /\ DOMAIN pool = 1 .. Len(pool) /\ \A i \in DOMAIN pool : pool[i] \in S
    BY LenProperties, ElementOfSeq
  <1>2. \A i \in DOMAIN pool : [pool[i] EXCEPT !.watched = FALSE] \in S
    BY <1>1 DEF PendingTxs, FundIsStored
  <1>3. \A i \in DOMAIN pool : [pool[i] EXCEPT !.watched = FALSE].watched = FALSE
    BY <1>1 DEF PendingTxs
  <1>4. Unwatched \in [1 .. Len(pool) -> S]
    BY <1>1, <1>2 DEF Unwatched
  <1>5. Unwatched \in Seq(S)
    BY <1>1, <1>4, SeqDef
  <1>6. WatchesItsTx(Unwatched, pg)
    BY <1>3 DEF Unwatched, WatchesItsTx
  <1> QED
    BY <1>5, <1>6

\* A step of the page alone.
LEMMA PageStep ==
  ASSUME HireInv, UNCHANGED <<job, allowance, quote, plans, stored>>,
         PageSound(page', stored, job, plans),
         \/ pool' = pool /\ (page'.stage = page.stage /\ page'.sending = page.sending)
         \/ pool' = pool /\ page.stage # "receipt"
         \/ pool' = Unwatched
  PROVE  HireInv'
  <1>1. pool' \in Seq(PendingTxs(stored)) /\ WatchesItsTx(pool', page')
    <2>1. CASE pool' = Unwatched
      BY <2>1, UnwatchedPool DEF HireInv
    <2>2. CASE pool' = pool /\ (page'.stage = page.stage /\ page'.sending = page.sending)
      BY <2>2, WatchesOf DEF HireInv
    <2>3. CASE pool' = pool /\ page.stage # "receipt"
      BY <2>3 DEF HireInv, WatchesItsTx
    <2> QED
      BY <2>1, <2>2, <2>3
  <1> QED
    BY <1>1 DEF HireInv, HireTypes

-----------------------------------------------------------------------------
(* The page. *)

LEMMA OpenedSound ==
  ASSUME NEW st, st \subseteq Orders, NEW j \in st \union {NoOrder}, NEW b \in BOOLEAN, NEW jb, NEW pl
  PROVE  PageSound(Opened(j, b), st, jb, pl)
  <1> DEFINE pg == Opened(j, b)
  <1>1. pg.owner = FALSE /\ pg.quoted = b /\ pg.url = j /\ pg.job = NoOrder /\ pg.txs = <<>> /\ pg.results = {}
        /\ pg.stage = "idle" /\ pg.sending = NoTx /\ pg.resuming = FALSE /\ pg.said = NoOrder
    BY DEF Opened
  <1>2. \A S : <<>> \in Seq(S)
    OBVIOUS
  <1>3. pg \in Page
    <2>1. j \in Orders \union {NoOrder} /\ NoTx \in Txs /\ <<>> \in Seq(Txs)
      BY <1>2, NoTxTypes
    <2> QED
      BY <2>1 DEF Opened, Page, Stages
  <1> HIDE DEF pg
  <1>4. FundIsStored(pg.sending, st)
    BY <1>1, NoTxTypes DEF FundIsStored
  <1>5. PageSound(pg, st, jb, pl)
    BY <1>1, <1>2, <1>3, <1>4 DEF PageSound
  <1> QED
    BY <1>5 DEF pg

LEMMA OpenKeeps ==
  ASSUME HireInv, OpenService \/ \E j \in Orders : OpenOrder(j)
  PROVE  HireInv'
  <1>1. UNCHANGED <<job, allowance, quote, plans, stored>> /\ pool' = Unwatched
    BY DEF OpenService, OpenOrder
  <1>2. \E j \in stored \union {NoOrder}, b \in BOOLEAN : page' = Opened(j, b)
    BY DEF OpenService, OpenOrder
  <1>3. PageSound(page', stored, job, plans)
    BY <1>2, OpenedSound DEF HireInv, HireTypes
  <1> QED
    BY <1>1, <1>3, PageStep

\* What is shown of an order.
Shows(pg, pg2) ==
  /\ pg2 \in Page
  /\ pg2.txs = pg.txs /\ pg2.results = pg.results /\ pg2.stage = pg.stage
  /\ pg2.sending = pg.sending /\ pg2.url = pg.url
  /\ pg2.resuming => pg.resuming \/ pg.url # NoOrder

LEMMA ShowsKeeps ==
  ASSUME HireInv, Shows(page, page'), UNCHANGED <<job, allowance, pool, quote, plans, stored>>
  PROVE  HireInv'
  <1>1. page'.resuming => page'.url # NoOrder
    BY DEF HireInv, PageSound, Shows
  <1>2. PageSound(page', stored, job, plans)
    BY <1>1, SameWork DEF HireInv, Shows
  <1>3. page'.stage = page.stage /\ page'.sending = page.sending
    BY DEF Shows
  <1> QED
    BY <1>2, <1>3, PageStep

LEMMA InspectedShows ==
  ASSUME NEW pg \in Page, NEW j \in Orders
  PROVE  Shows(pg, Inspected(pg, j))
  <1> DEFINE settled == IF CanSettle(j) THEN j ELSE pg.settle
             q == [pg EXCEPT !.review = "shown", !.settle = settled]
  <1>1. settled \in Orders \union {NoOrder}
    BY DEF Page
  <1> HIDE DEF settled
  <1>2. q \in Page
    BY <1>1 DEF Page
  <1>3. q.txs = pg.txs /\ q.results = pg.results /\ q.stage = pg.stage
        /\ q.sending = pg.sending /\ q.url = pg.url /\ q.resuming = pg.resuming
    BY DEF Page
  <1>4. q = Inspected(pg, j)
    BY DEF Inspected, settled
  <1> QED
    BY <1>2, <1>3, <1>4 DEF Shows

LEMMA ConnectKeeps == ASSUME HireInv, Connect PROVE HireInv'
  <1> DEFINE pg == [page EXCEPT !.owner = TRUE]
             j == pg.url
             known == [pg EXCEPT !.job = j, !.url = j, !.said = NoOrder]
  <1>1. page \in Page /\ stored \subseteq Orders /\ (page.url # NoOrder => page.url \in stored)
    BY DEF HireInv, HireTypes, PageSound
  <1>2. pg \in Page /\ Shows(page, pg) /\ j = page.url
    BY <1>1 DEF Page, Shows
  <1>3. j \in Orders \union {NoOrder}
    BY <1>1, <1>2
  <1> HIDE DEF pg, j
  <1>4. known \in Page /\ known.url = j
    BY <1>2, <1>3 DEF Page
  <1>5. known.txs = pg.txs /\ known.results = pg.results /\ known.stage = pg.stage
        /\ known.sending = pg.sending /\ known.resuming = pg.resuming
    BY <1>2 DEF Page
  <1>6. Shows(page, known)
    BY <1>2, <1>4, <1>5 DEF Shows
  <1> HIDE DEF known
  <1>7. ASSUME j # NoOrder PROVE Shows(page, Resumed(pg, j))
    <2> DEFINE R == Resumed(pg, j)
    <2>1. \/ job[j].status = "open" /\ R = [known EXCEPT !.resuming = TRUE]
          \/ R = [known EXCEPT !.refund = j]
          \/ R = Inspected(known, j)
          \/ R = known
      BY DEF Resumed, known, CanRefund
    <2>2. j \in Orders
      BY <1>3, <1>7
    <2>3. ASSUME R = [known EXCEPT !.resuming = TRUE] PROVE Shows(page, R)
      <3>1. R \in Page
        BY <1>4, <2>3 DEF Page
      <3>2. R.txs = known.txs /\ R.results = known.results /\ R.stage = known.stage
            /\ R.sending = known.sending /\ R.url = known.url
        BY <1>4, <2>3 DEF Page
      <3> QED
        BY <1>2, <1>6, <1>7, <3>1, <3>2 DEF Shows
    <2>4. ASSUME R = [known EXCEPT !.refund = j] PROVE Shows(page, R)
      <3>1. R \in Page
        BY <1>3, <1>4, <2>4 DEF Page
      <3>2. R.txs = known.txs /\ R.results = known.results /\ R.stage = known.stage
            /\ R.sending = known.sending /\ R.url = known.url /\ R.resuming = known.resuming
        BY <1>4, <2>4 DEF Page
      <3> QED
        BY <1>6, <3>1, <3>2 DEF Shows
    <2>5. ASSUME R = Inspected(known, j) PROVE Shows(page, R)
      BY <1>4, <1>6, <2>2, <2>5, InspectedShows DEF Shows
    <2>6. ASSUME R = known PROVE Shows(page, R)
      BY <1>6, <2>6
    <2> HIDE DEF R
    <2>7. Shows(page, R)
      BY <2>1, <2>3, <2>4, <2>5, <2>6
    <2> QED
      BY <2>7 DEF R
  <1>8. page' = pg \/ (j # NoOrder /\ page' = Resumed(pg, j))
    BY DEF Connect, pg, j
  <1>9. Shows(page, page')
    BY <1>2, <1>7, <1>8
  <1>10. UNCHANGED <<job, allowance, pool, quote, plans, stored>>
    BY DEF Connect
  <1> QED
    BY <1>9, <1>10, ShowsKeeps

LEMMA CheckDeliveryKeeps == ASSUME HireInv, CheckDelivery PROVE HireInv'
  <1>1. page \in Page /\ page.job # NoOrder
    BY DEF HireInv, PageSound, CheckDelivery
  <1>2. page.job \in Orders
    BY <1>1 DEF Page
  <1>3. \/ page' = Inspected(page, page.job)
        \/ page' = [page EXCEPT !.refund = page.job]
        \/ page' = page
    BY DEF CheckDelivery, CanRefund
  <1>4. ASSUME page' = Inspected(page, page.job) PROVE Shows(page, page')
    BY <1>1, <1>2, <1>4, InspectedShows DEF Shows
  <1>5. ASSUME page' = [page EXCEPT !.refund = page.job] PROVE Shows(page, page')
    <2>1. page' \in Page
      BY <1>1, <1>2, <1>5 DEF Page
    <2>2. page'.txs = page.txs /\ page'.results = page.results /\ page'.stage = page.stage
          /\ page'.sending = page.sending /\ page'.url = page.url /\ page'.resuming = page.resuming
      BY <1>1, <1>5 DEF Page
    <2> QED
      BY <2>1, <2>2 DEF Shows
  <1>6. ASSUME page' = page PROVE Shows(page, page')
    BY <1>1, <1>6 DEF Shows
  <1>7. UNCHANGED <<job, allowance, pool, quote, plans, stored>> /\ Shows(page, page')
    BY <1>3, <1>4, <1>5, <1>6 DEF CheckDelivery
  <1> QED
    BY <1>7, ShowsKeeps

LEMMA ConfirmReviewKeeps == ASSUME HireInv, ConfirmReview PROVE HireInv'
  <1>1. page \in Page /\ page' = [page EXCEPT !.review = "confirmed"]
    BY DEF HireInv, PageSound, ConfirmReview
  <1>2. page' \in Page
    BY <1>1 DEF Page
  <1>3. page'.txs = page.txs /\ page'.results = page.results /\ page'.stage = page.stage
        /\ page'.sending = page.sending /\ page'.url = page.url /\ page'.resuming = page.resuming
    BY <1>1 DEF Page
  <1>4. Shows(page, page') /\ UNCHANGED <<job, allowance, pool, quote, plans, stored>>
    BY <1>2, <1>3 DEF Shows, ConfirmReview
  <1> QED
    BY <1>4, ShowsKeeps

LEMMA ResumePlanKeeps == ASSUME HireInv, ResumePlan PROVE HireInv'
  <1>1. page \in Page /\ page.url \in stored /\ page.url \in Orders
    BY DEF HireInv, HireTypes, PageSound, ResumePlan
  <1>2. UNCHANGED <<job, allowance, pool, quote, plans, stored>>
    BY DEF ResumePlan
  <1> DEFINE F == Followup(page.url)
  <1>3. CASE page' = [page EXCEPT !.resuming = FALSE, !.txs = F, !.results = {}]
    <2>1. F \in Seq(PlannedTxs({}, stored, job, plans))
      BY <1>1, FollowupPlanned
    <2>2. F \in Seq(Txs)
      <3>1. PlannedTxs({}, stored, job, plans) \subseteq Txs
        BY DEF PlannedTxs
      <3> QED
        BY <2>1, <3>1, SeqMonotonic
    <2> HIDE DEF F
    <2>3. page' \in Page
      BY <1>1, <1>3, <2>2 DEF Page
    <2>4. page'.resuming = FALSE /\ page'.txs = F /\ page'.results = {} /\ page'.stage = page.stage
          /\ page'.sending = page.sending /\ page'.url = page.url
      BY <1>1, <1>3 DEF Page
    <2>5. PageSound(page', stored, job, plans)
      BY <2>1, <2>3, <2>4 DEF HireInv, PageSound
    <2> QED
      BY <1>2, <2>4, <2>5, PageStep
  <1>4. CASE page' = [page EXCEPT !.resuming = FALSE]
    <2>1. page' \in Page
      BY <1>1, <1>4 DEF Page
    <2>2. page'.txs = page.txs /\ page'.results = page.results /\ page'.stage = page.stage
          /\ page'.sending = page.sending /\ page'.url = page.url /\ page'.resuming = FALSE
      BY <1>1, <1>4 DEF Page
    <2>3. Shows(page, page')
      BY <2>1, <2>2 DEF Shows
    <2> QED
      BY <1>2, <2>3, ShowsKeeps
  <1> QED
    BY <1>3, <1>4 DEF ResumePlan

LEMMA PrepareKeeps == ASSUME HireInv, Prepare PROVE HireInv'
  <1> DEFINE t == Tx("create_job", NoOrder, plans + 1)
  <1>1. page \in Page /\ plans \in Nat /\ plans + 1 \in 0 .. MaxPlans
    BY HireBounds DEF HireInv, HireTypes, PageSound, Prepare
  <1>2. t \in Txs /\ t.step = "create_job" /\ t.plan = plans + 1
    BY <1>1, TxTypes DEF Steps
  <1> HIDE DEF t
  <1>3. page' = [page EXCEPT !.txs = <<t>>, !.results = {}, !.job = NoOrder, !.said = NoOrder]
        /\ plans' = plans + 1 /\ UNCHANGED <<job, allowance, pool, quote, stored>>
    BY DEF Prepare, t
  <1>4. page' \in Page
    <2>1. <<t>> \in Seq(Txs)
      BY <1>2
    <2> QED
      BY <1>1, <1>3, <2>1 DEF Page
  <1>5. page'.txs = <<t>> /\ page'.results = {} /\ page'.stage = page.stage /\ page'.sending = page.sending
        /\ page'.url = page.url /\ page'.resuming = page.resuming
    BY <1>1, <1>3 DEF Page
  <1>6. PageSound(page, stored, job, plans')
    BY <1>1, <1>3, AroundThePage DEF HireInv
  <1>7. t \in PlannedTxs({}, stored, job, plans')
    <2>1. \A j \in stored : job[j].plan <= plans /\ job[j].plan \in Nat
      BY HireBounds DEF HireInv, HireTypes, OrdersSound, JobRow
    <2>2. Creatable(plans + 1, stored, job, plans')
      BY <1>1, <1>3, <2>1 DEF Creatable
    <2> QED
      BY <1>2, <2>2 DEF PlannedTxs, FundIsStored
  <1>8. <<t>> \in Seq(PlannedTxs({}, stored, job, plans'))
    BY <1>7
  <1>9. PageSound(page', stored, job, plans')
    BY <1>4, <1>5, <1>6, <1>8 DEF PageSound
  <1>10. WatchesItsTx(pool, page')
    BY <1>5, WatchesOf DEF HireInv
  <1>11. OrdersSound(stored, job, plans')
    <2>1. \A j \in stored : job[j].plan <= plans' /\ job[j].status # "none"
      BY <1>1, <1>3, HireBounds DEF HireInv, HireTypes, OrdersSound, JobRow
    <2> QED
      BY <2>1 DEF HireInv, OrdersSound
  <1>12. HireTypes'
    BY <1>1, <1>3 DEF HireInv, HireTypes
  <1> QED
    BY <1>3, <1>9, <1>10, <1>11, <1>12 DEF HireInv

-----------------------------------------------------------------------------
(* The wallet. *)

LEMMA ToWalletKeeps ==
  ASSUME HireInv, FreeToSend, NEW tx \in Txs, ToWallet(tx), FundIsStored(tx, stored),
         tx.step = "create_job" => Creatable(tx.plan, stored, job, plans)
  PROVE  HireInv'
  <1>1. page \in Page /\ page.stage = "idle" /\ page' = [page EXCEPT !.stage = "wallet", !.sending = tx]
        /\ UNCHANGED <<job, allowance, pool, quote, plans, stored>>
    BY DEF HireInv, PageSound, FreeToSend, ToWallet
  <1>2. page' \in Page
    BY <1>1 DEF Page, Stages
  <1>3. page'.txs = page.txs /\ page'.results = page.results /\ page'.stage = "wallet" /\ page'.sending = tx
        /\ page'.url = page.url /\ page'.resuming = page.resuming
    BY <1>1 DEF Page
  <1>4. PageSound(page', stored, job, plans)
    BY <1>2, <1>3 DEF HireInv, PageSound
  <1> QED
    BY <1>1, <1>4, PageStep

LEMMA SendKeeps ==
  ASSUME HireInv, SendNext \/ SendRefund \/ SendSettle \/ SendDispute
  PROVE  HireInv'
  <1>1. page \in Page
    BY DEF HireInv, PageSound
  <1>2. CASE SendNext
    <2>1. PICK i \in DOMAIN page.txs : IsCurrent(page, i) /\ ToWallet(page.txs[i])
      BY <1>2 DEF SendNext
    <2> DEFINE tx == page.txs[i]
    <2>2. page.txs \in Seq(PlannedTxs(page.results, stored, job, plans))
      BY DEF HireInv, PageSound
    <2>3. tx \in PlannedTxs(page.results, stored, job, plans)
      BY <2>2, LenProperties, ElementOfSeq
    <2>4. tx.step \notin page.results
      BY <2>1 DEF IsCurrent, Left
    <2>5. FreeToSend /\ ToWallet(tx)
      BY <1>2, <2>1 DEF SendNext
    <2> HIDE DEF tx
    <2>6. tx \in Txs /\ FundIsStored(tx, stored)
          /\ (tx.step = "create_job" => Creatable(tx.plan, stored, job, plans))
      BY <2>3, <2>4 DEF PlannedTxs
    <2> QED
      BY <2>5, <2>6, ToWalletKeeps
  <1>3. ASSUME NEW s \in {"refund_job", "settle_job", "dispute_job"}, NEW j \in Orders,
               FreeToSend, ToWallet(Tx(s, j, 0))
        PROVE  HireInv'
    <2> DEFINE tx == Tx(s, j, 0)
    <2>1. tx \in Txs /\ tx.step = s
      BY HireBounds, TxTypes DEF Steps
    <2>2. ToWallet(tx)
      BY <1>3
    <2> HIDE DEF tx
    <2>3. FundIsStored(tx, stored) /\ tx.step # "create_job"
      BY <2>1 DEF FundIsStored
    <2> QED
      BY <1>3, <2>1, <2>2, <2>3, ToWalletKeeps
  <1>4. CASE SendRefund
    <2>1. page.refund \in Orders
      BY <1>1, <1>4 DEF SendRefund, Page
    <2> QED
      BY <1>3, <1>4, <2>1 DEF SendRefund
  <1>5. CASE SendSettle
    <2>1. page.settle \in Orders
      BY <1>1, <1>5 DEF SendSettle, Page
    <2> QED
      BY <1>3, <1>5, <2>1 DEF SendSettle
  <1>6. CASE SendDispute
    <2>1. page.job \in Orders
      BY <1>1, <1>6 DEF SendDispute, Page
    <2> QED
      BY <1>3, <1>6, <2>1 DEF SendDispute
  <1> QED
    BY <1>2, <1>4, <1>5, <1>6

LEMMA WalletSendsKeeps == ASSUME HireInv, WalletSends PROVE HireInv'
  <1> DEFINE e == [tx |-> page.sending, watched |-> TRUE]
             S == PendingTxs(stored)
  <1>1. page \in Page /\ page.stage = "wallet" /\ page' = [page EXCEPT !.stage = "receipt"]
        /\ pool' = Append(pool, e) /\ UNCHANGED <<job, allowance, quote, plans, stored>>
    BY DEF HireInv, PageSound, WalletSends
  <1>2. page' \in Page
    BY <1>1 DEF Page, Stages
  <1>3. page'.txs = page.txs /\ page'.results = page.results /\ page'.stage = "receipt"
        /\ page'.sending = page.sending /\ page'.url = page.url /\ page'.resuming = page.resuming
    BY <1>1 DEF Page
  <1>4. PageSound(page', stored, job, plans)
    BY <1>1, <1>2, <1>3 DEF HireInv, PageSound
  <1>5. e \in S /\ e.tx = page.sending /\ e.watched = TRUE
    BY <1>1 DEF HireInv, PageSound, PendingTxs, Page
  <1>6. pool \in Seq(S)
    BY DEF HireInv
  <1> HIDE DEF e, S
  <1>7. Append(pool, e) \in Seq(S) /\ Len(Append(pool, e)) = Len(pool) + 1 /\ Len(pool) \in Nat
        /\ DOMAIN pool = 1 .. Len(pool)
        /\ DOMAIN Append(pool, e) = 1 .. Len(pool) + 1
        /\ \A i \in 1 .. Len(pool) : Append(pool, e)[i] = pool[i]
        /\ Append(pool, e)[Len(pool) + 1] = e
    BY <1>5, <1>6, LenProperties, AppendProperties
  <1>8. \A i \in DOMAIN pool : ~pool[i].watched
    BY <1>1 DEF HireInv, WatchesItsTx
  <1>9. \A i \in DOMAIN pool' : pool'[i].watched => i = Len(pool) + 1
    BY <1>1, <1>7, <1>8
  <1>10. WatchesItsTx(pool', page')
    BY <1>1, <1>3, <1>5, <1>7, <1>9 DEF WatchesItsTx
  <1> QED
    BY <1>1, <1>4, <1>7, <1>10 DEF HireInv, HireTypes, S

LEMMA RestsIdle ==
  ASSUME NEW pg, NEW st, NEW jb, NEW pl, PageSound(pg, st, jb, pl)
  PROVE  PageSound(Failed(pg), st, jb, pl) /\ Failed(pg).stage = "idle"
  <1> DEFINE q == Failed(pg)
  <1>1. pg \in Page
    BY DEF PageSound
  <1>2. q \in Page
    BY <1>1, NoTxTypes DEF Page, Stages, Failed
  <1>3. q.txs = pg.txs /\ q.results = pg.results /\ q.stage = "idle" /\ q.sending = NoTx
        /\ q.url = pg.url /\ q.resuming = pg.resuming
    BY <1>1 DEF Page, Failed
  <1> HIDE DEF q
  <1>4. FundIsStored(NoTx, st)
    BY NoTxTypes DEF FundIsStored
  <1>5. PageSound(q, st, jb, pl)
    BY <1>2, <1>3, <1>4 DEF PageSound
  <1> QED
    BY <1>3, <1>5 DEF q

LEMMA GiveUpKeeps == ASSUME HireInv, GiveUp PROVE HireInv'
  <1>1. page' = Failed(page) /\ pool' = Unwatched /\ UNCHANGED <<job, allowance, quote, plans, stored>>
    BY DEF GiveUp, Failed
  <1>2. PageSound(page', stored, job, plans)
    BY <1>1, RestsIdle DEF HireInv
  <1> QED
    BY <1>1, <1>2, PageStep

LEMMA ReceivePlanKeeps == ASSUME HireInv, ReceivePlan PROVE HireInv'
  <1>1. page \in Page /\ page.stage = "followup" /\ page.url \in stored /\ page.url \in Orders
        /\ UNCHANGED <<job, allowance, pool, quote, plans, stored>>
    BY DEF HireInv, HireTypes, PageSound, ReceivePlan
  <1> DEFINE P == PlannedTxs(page.results, stored, job, plans)
             F == page.txs \o Followup(page.url)
             pg == [page EXCEPT !.txs = F, !.stage = "idle", !.sending = NoTx]
             told == [pg EXCEPT !.said = pg.job]
  <1>2. page' = Failed(page) \/ page' = pg \/ page' = told
    BY DEF ReceivePlan
  <1>3. F \in Seq(P)
    BY <1>1, FollowupPlanned, ConcatProperties DEF HireInv, PageSound
  <1>4. F \in Seq(Txs)
    <2>1. P \subseteq Txs
      BY DEF PlannedTxs
    <2> QED
      BY <1>3, <2>1, SeqMonotonic
  <1> HIDE DEF F
  <1>5. pg \in Page
    BY <1>1, <1>4, NoTxTypes DEF Page, Stages
  <1>6. pg.txs = F /\ pg.results = page.results /\ pg.stage = "idle" /\ pg.sending = NoTx
        /\ pg.url = page.url /\ pg.resuming = page.resuming
    BY <1>1 DEF Page
  <1>7. FundIsStored(NoTx, stored)
    BY NoTxTypes DEF FundIsStored
  <1> HIDE DEF pg
  <1>8. PageSound(pg, stored, job, plans)
    BY <1>3, <1>5, <1>6, <1>7 DEF HireInv, PageSound
  <1>9. PageSound(told, stored, job, plans)
    <2>1. told \in Page
      BY <1>5 DEF Page
    <2>2. told.txs = pg.txs /\ told.results = pg.results /\ told.stage = pg.stage
          /\ told.sending = pg.sending /\ told.url = pg.url /\ told.resuming = pg.resuming
      BY <1>5 DEF Page
    <2>3. told.resuming => told.url # NoOrder
      BY <1>8, <2>2 DEF PageSound
    <2> HIDE DEF told
    <2> QED
      BY <1>8, <2>1, <2>2, <2>3, SameWork
  <1>10. PageSound(page', stored, job, plans)
    BY <1>2, <1>8, <1>9, RestsIdle DEF HireInv
  <1> QED
    BY <1>1, <1>10, PageStep

-----------------------------------------------------------------------------
(* The chain. *)

\* What may happen to an order once it is created, other than being funded.
RowMoves(r, s) ==
  /\ s \in JobRow /\ s.plan = r.plan
  /\ s.status = "none" <=> r.status = "none"
  /\ s.status \notin {"none", "open"} => r.status \notin {"none", "open"}

LEMMA EndedRow ==
  ASSUME NEW j \in Orders, job[j] \in JobRow, job[j].status \notin {"none", "open"},
         NEW s \in {"completed", "rejected", "expired"}
  PROVE  RowMoves(job[j], EndedOrder(j, s))
  <1> DEFINE r == job[j]
             n == NewJob(s, r.plan)
             q == [n EXCEPT !.budget = r.budget]
  <1>1. n \in JobRow /\ n.status = s /\ n.plan = r.plan
    BY DEF NewJob, JobRow, Status, Verdicts
  <1> HIDE DEF n
  <1>2. q \in JobRow /\ q.status = s /\ q.plan = r.plan
    BY <1>1 DEF JobRow
  <1>3. q = EndedOrder(j, s)
    BY DEF EndedOrder, n
  <1> QED
    BY <1>2, <1>3 DEF RowMoves

LEMMA AppliedRow ==
  ASSUME HireTypes, NEW tx \in Txs, tx.step # "create_job", Succeeds(tx), NEW k \in Orders
  PROVE  \/ RowMoves(job[k], Applied(tx, tx.job)[k])
         \/ /\ tx.step = "fund_job" /\ k = tx.job /\ job[k].status = "open"
            /\ Applied(tx, tx.job)[k] = [job[k] EXCEPT !.status = "funded"]
  <1> DEFINE j == tx.job
             r == job[k]
  <1>1. r \in JobRow /\ job \in [Orders -> JobRow]
    BY DEF HireTypes
  <1>2. RowMoves(r, r)
    BY <1>1 DEF RowMoves
  <1>3. CASE tx.step = "register_job"
    <2>1. Applied(tx, j) = [job EXCEPT ![j].policy = TRUE]
      BY <1>3 DEF Applied
    <2>2. RowMoves(r, [r EXCEPT !.policy = TRUE])
      BY <1>1 DEF RowMoves, JobRow
    <2> QED
      BY <1>1, <1>2, <2>1, <2>2
  <1>4. CASE tx.step = "set_budget"
    <2>1. Applied(tx, j) = [job EXCEPT ![j].budget = Price]
      BY <1>4 DEF Applied
    <2>2. RowMoves(r, [r EXCEPT !.budget = Price])
      BY <1>1 DEF RowMoves, JobRow
    <2> QED
      BY <1>1, <1>2, <2>1, <2>2
  <1>5. CASE tx.step = "approve_u"
    <2>1. Applied(tx, j) = job
      BY <1>5 DEF Applied
    <2> QED
      BY <1>2, <2>1
  <1>6. CASE tx.step = "fund_job"
    <2>1. Applied(tx, j) = [job EXCEPT ![j].status = "funded"] /\ job[j].status = "open"
      BY <1>6 DEF Applied, Succeeds
    <2> QED
      BY <1>1, <1>2, <1>6, <2>1
  <1>7. CASE tx.step = "dispute_job"
    <2>1. Applied(tx, j) = [job EXCEPT ![j].disputed = TRUE]
      BY <1>7 DEF Applied
    <2>2. RowMoves(r, [r EXCEPT !.disputed = TRUE])
      BY <1>1 DEF RowMoves, JobRow
    <2> QED
      BY <1>1, <1>2, <2>1, <2>2
  <1>8. CASE tx.step = "refund_job"
    <2>1. Applied(tx, j) = [job EXCEPT ![j] = EndedOrder(j, "expired")] /\ job[j].status = "funded"
      BY <1>8 DEF Applied, Succeeds, CanRefund
    <2>2. k = j => RowMoves(r, EndedOrder(j, "expired"))
      BY <1>1, <2>1, EndedRow
    <2> QED
      BY <1>1, <1>2, <2>1, <2>2
  <1>9. CASE tx.step = "settle_job"
    <2> DEFINE s == IF job[j].verdict = "approve" THEN "completed" ELSE "rejected"
    <2>1. Applied(tx, j) = [job EXCEPT ![j] = EndedOrder(j, s)] /\ job[j].status = "submitted"
      BY <1>9 DEF Applied, Succeeds
    <2>2. s \in {"completed", "rejected", "expired"}
      OBVIOUS
    <2> HIDE DEF s
    <2>3. k = j => RowMoves(r, EndedOrder(j, s))
      BY <1>1, <2>1, <2>2, EndedRow
    <2> QED
      BY <1>1, <1>2, <2>1, <2>3
  <1> QED
    BY <1>3, <1>4, <1>5, <1>6, <1>7, <1>8, <1>9 DEF Txs, Steps

LEMMA AppliedIsFunction ==
  ASSUME HireTypes, NEW tx \in Txs, tx.step # "create_job"
  PROVE  Applied(tx, tx.job) = [k \in Orders |-> Applied(tx, tx.job)[k]]
  BY DEF HireTypes, Applied, Txs, Steps

LEMMA AllowedTypes ==
  ASSUME HireTypes, NEW tx \in Txs, Succeeds(tx)
  PROVE  Allowed(tx) \in {0, Price}
  <1>1. allowance \in {0, Price} /\ Price = 1  BY HireBounds DEF HireTypes
  <1>2. CASE tx.step = "approve_u"  BY <1>2 DEF Allowed
  <1>3. CASE tx.step = "fund_job"
    <2>1. allowance >= Price  BY <1>3 DEF Succeeds
    <2>2. Allowed(tx) = allowance - Price  BY <1>3 DEF Allowed
    <2> QED  BY <1>1, <2>1, <2>2
  <1>4. CASE tx.step \notin {"approve_u", "fund_job"}
    <2>1. Allowed(tx) = allowance  BY <1>4 DEF Allowed
    <2> QED  BY <1>1, <2>1
  <1> QED  BY <1>2, <1>3, <1>4

\* The transactions still to be mined when one is.
LEMMA RestOfPool ==
  ASSUME HireInv, pool # <<>>
  PROVE  /\ Head(pool) \in PendingTxs(stored) /\ Tail(pool) \in Seq(PendingTxs(stored))
         /\ WatchesItsTx(Tail(pool), page)
         /\ Head(pool).watched =>
              /\ page.stage = "receipt" /\ page.sending = Head(pool).tx
              /\ \A pg : WatchesItsTx(Tail(pool), pg)
  <1> DEFINE S == PendingTxs(stored)
  <1>1. pool \in Seq(S) /\ WatchesItsTx(pool, page)
    BY DEF HireInv
  <1> HIDE DEF S
  <1>2. /\ Head(pool) \in S /\ Tail(pool) \in Seq(S) /\ Head(pool) = pool[1]
        /\ Len(pool) \in Nat \ {0} /\ Len(Tail(pool)) = Len(pool) - 1
        /\ DOMAIN pool = 1 .. Len(pool) /\ DOMAIN Tail(pool) = 1 .. Len(pool) - 1
        /\ \A i \in 1 .. Len(pool) - 1 : Tail(pool)[i] = pool[i + 1]
    BY <1>1, HeadTailProperties, LenProperties, EmptySeq
  <1>3. \A i \in DOMAIN Tail(pool) : Tail(pool)[i] = pool[i + 1] /\ i + 1 \in DOMAIN pool /\ i \in Nat /\ i >= 1
    BY <1>2
  <1>4. WatchesItsTx(Tail(pool), page)
    BY <1>1, <1>3 DEF WatchesItsTx
  <1>5. ASSUME Head(pool).watched, NEW pg
        PROVE  page.stage = "receipt" /\ page.sending = Head(pool).tx /\ WatchesItsTx(Tail(pool), pg)
    <2>1. 1 \in DOMAIN pool /\ pool[1].watched /\ pool[1] = Head(pool)
      BY <1>2, <1>5
    <2>2. page.stage = "receipt" /\ page.sending = Head(pool).tx
          /\ \A i \in DOMAIN pool : pool[i].watched => i = 1
      BY <1>1, <2>1 DEF WatchesItsTx
    <2>3. \A i \in DOMAIN Tail(pool) : ~Tail(pool)[i].watched
      BY <1>3, <2>2
    <2> QED
      BY <2>2, <2>3 DEF WatchesItsTx
  <1>6. Head(pool).watched => page.stage = "receipt" /\ page.sending = Head(pool).tx
    BY <1>1, <1>2 DEF WatchesItsTx
  <1> QED
    BY <1>2, <1>4, <1>5, <1>6 DEF S

LEMMA CreatedKeeps ==
  ASSUME HireInv, NEW tx \in Txs, tx.step = "create_job", NEW j \in FreeNumbers, NEW seen \in BOOLEAN,
         Tail(pool) \in Seq(PendingTxs(stored)), WatchesItsTx(Tail(pool), page),
         seen => page.stage = "receipt" /\ page.sending = tx /\ \A pg : WatchesItsTx(Tail(pool), pg),
         pool' = Tail(pool), job' = Applied(tx, j),
         stored' = IF seen THEN Stored(j) ELSE stored,
         page' = IF seen THEN Created(page, j) ELSE page,
         UNCHANGED <<allowance, quote, plans>>
  PROVE  HireInv'
  <1> DEFINE r == NewJob("open", tx.plan)
  <1>1. j \in Orders /\ job[j].status = "none" /\ j \notin stored /\ tx.plan \in 0 .. MaxPlans
        /\ job \in [Orders -> JobRow] /\ stored \subseteq Orders /\ plans \in 0 .. MaxPlans
    BY DEF FreeNumbers, HireInv, HireTypes, OrdersSound, Txs
  <1>2. r \in JobRow /\ r.status = "open" /\ r.plan = tx.plan
    BY <1>1, HireBounds DEF NewJob, JobRow, Status, Verdicts
  <1>3. job' = [job EXCEPT ![j] = r]
    BY DEF Applied
  <1> HIDE DEF r
  <1>4. job' \in [Orders -> JobRow] /\ job'[j] = r /\ \A k \in Orders \ {j} : job'[k] = job[k]
    BY <1>1, <1>2, <1>3
  <1>5. plans' = plans /\ plans \in Int
    BY <1>1, HireBounds
  <1>6. PageSound(page, stored, job', plans)
    <2>1. \A k \in stored : job'[k].plan = job[k].plan
      BY <1>1, <1>4
    <2>2. plans <= plans
      BY <1>5
    <2> QED
      BY <1>5, <2>1, <2>2, AroundThePage DEF HireInv
  <1>7. CASE ~seen
    <2>1. stored' = stored /\ page' = page
      BY <1>7
    <2>2. OrdersSound(stored, job', plans)
      BY <1>1, <1>2, <1>4 DEF HireInv, OrdersSound
    <2>3. HireTypes'
      BY <1>4, <2>1 DEF HireInv, HireTypes
    <2> QED
      BY <1>5, <1>6, <2>1, <2>2, <2>3 DEF HireInv
  <1>8. CASE seen
    <2> DEFINE st == stored \union {j}
    <2>1. stored' = st /\ page' = Created(page, j) /\ page.stage = "receipt" /\ page.sending = tx
          /\ WatchesItsTx(Tail(pool), page')
      BY <1>8 DEF Stored
    <2>2. Creatable(tx.plan, stored, job, plans)
      BY <2>1 DEF HireInv, PageSound
    <2>3. OrdersSound(st, job', plans)
      <3>1. \A k \in stored : job'[k] = job[k] /\ job[k].plan # tx.plan /\ k # j
        BY <1>1, <1>4, <2>2 DEF Creatable
      <3>2. \A k \in st : job'[k].status # "none" /\ job'[k].plan <= plans
        BY <1>2, <1>4, <2>2, <3>1 DEF HireInv, OrdersSound, Creatable
      <3>3. \A k, l \in st : job'[k].plan = job'[l].plan => k = l
        BY <1>2, <1>4, <3>1 DEF HireInv, OrdersSound
      <3>4. \A k \in Orders : job'[k].status \notin {"none", "open"} => k \in st
        BY <1>2, <1>4 DEF HireInv, OrdersSound
      <3> QED
        BY <3>2, <3>3, <3>4 DEF OrdersSound
    <2>4. PageSound(page', st, job', plans)
      <3> DEFINE done == page.results \union {"create_job"}
      <3>1. page \in Page /\ page' = [page EXCEPT !.results = done, !.job = j, !.url = j, !.stage = "followup"]
        BY <2>1 DEF HireInv, PageSound, Created
      <3>2. done \subseteq Steps
        BY <3>1 DEF Page, Steps
      <3> HIDE DEF done
      <3>3. page' \in Page
        BY <1>1, <3>1, <3>2 DEF Page, Stages
      <3>4. page'.txs = page.txs /\ page'.results = done /\ page'.stage = "followup"
            /\ page'.sending = page.sending /\ page'.url = j
        BY <3>1 DEF Page
      <3>5. PlannedTxs(page.results, stored, job, plans) \subseteq PlannedTxs(done, st, job', plans)
        BY DEF PlannedTxs, FundIsStored, done
      <3>6. page.txs \in Seq(PlannedTxs(done, st, job', plans))
        <4>1. page.txs \in Seq(PlannedTxs(page.results, stored, job, plans))
          BY DEF HireInv, PageSound
        <4> DEFINE had == PlannedTxs(page.results, stored, job, plans)
                   has == PlannedTxs(done, st, job', plans)
        <4>2. had \subseteq has /\ page.txs \in Seq(had)
          BY <3>5, <4>1
        <4> HIDE DEF had, has
        <4>3. page.txs \in Seq(has)
          BY <4>2, SeqMonotonic
        <4> QED
          BY <4>3 DEF has
      <3>7. FundIsStored(page.sending, st)
        BY DEF HireInv, PageSound, FundIsStored
      <3>8. j # NoOrder /\ j \in st
        BY <1>1, HireBounds
      <3> QED
        BY <3>3, <3>4, <3>6, <3>7, <3>8 DEF PageSound
    <2>5. Tail(pool) \in Seq(PendingTxs(st))
      <3>1. PendingTxs(stored) \subseteq PendingTxs(st)
        BY DEF PendingTxs, FundIsStored
      <3> QED
        BY <3>1, SeqMonotonic
    <2>6. HireTypes'
      BY <1>1, <1>4, <2>1 DEF HireInv, HireTypes
    <2> HIDE DEF st
    <2> QED
      BY <1>5, <2>1, <2>3, <2>4, <2>5, <2>6 DEF HireInv
  <1> QED
    BY <1>7, <1>8

LEMMA ConfirmedSound ==
  ASSUME NEW pg, NEW st, NEW jb, NEW pl, PageSound(pg, st, jb, pl), NEW tx \in Txs
  PROVE  PageSound(Confirmed(pg, tx), st, jb, pl)
  <1> DEFINE results == pg.results \union {tx.step}
             done == [pg EXCEPT !.results = results, !.stage = "idle", !.sending = NoTx]
             told == [done EXCEPT !.said = pg.job]
  <1>1. pg \in Page
    BY DEF PageSound
  <1>2. results \subseteq Steps /\ pg.results \subseteq results
    BY <1>1 DEF Page, Txs
  <1>3. Confirmed(pg, tx) = done \/ Confirmed(pg, tx) = told
    BY DEF Confirmed
  <1> HIDE DEF results
  <1>4. done \in Page
    BY <1>1, <1>2, NoTxTypes DEF Page, Stages
  <1>5. done.txs = pg.txs /\ done.results = results /\ done.stage = "idle" /\ done.sending = NoTx
        /\ done.url = pg.url /\ done.resuming = pg.resuming
    BY <1>1 DEF Page
  <1> HIDE DEF done
  <1>6. PlannedTxs(pg.results, st, jb, pl) \subseteq PlannedTxs(results, st, jb, pl)
    BY <1>2 DEF PlannedTxs
  <1>7. pg.txs \in Seq(PlannedTxs(results, st, jb, pl))
    BY <1>6, SeqMonotonic DEF PageSound
  <1>8. FundIsStored(NoTx, st)
    BY NoTxTypes DEF FundIsStored
  <1>9. PageSound(done, st, jb, pl)
    BY <1>4, <1>5, <1>7, <1>8 DEF PageSound
  <1>10. PageSound(told, st, jb, pl)
    <2>1. told \in Page
      BY <1>1, <1>4 DEF Page
    <2>2. told.txs = done.txs /\ told.results = done.results /\ told.stage = done.stage
          /\ told.sending = done.sending /\ told.url = done.url /\ told.resuming = done.resuming
      BY <1>4 DEF Page
    <2>3. told.resuming => told.url # NoOrder
      BY <1>9, <2>2 DEF PageSound
    <2> HIDE DEF told
    <2> QED
      BY <1>9, <2>1, <2>2, <2>3, SameWork
  <1> QED
    BY <1>3, <1>9, <1>10

\* Orders move on, and one that is funded is stored.
LEMMA OrdersMove ==
  ASSUME HireTypes, OrdersSound(stored, job, plans), NEW pl \in Nat, pl = plans,
         job' = [k \in Orders |-> job'[k]],
         \A k \in Orders :
           \/ RowMoves(job[k], job'[k])
           \/ k \in stored /\ job[k].status = "open" /\ job'[k] = [job[k] EXCEPT !.status = "funded"]
  PROVE  /\ job' \in [Orders -> JobRow]
         /\ OrdersSound(stored, job', plans)
         /\ \A k \in stored : job'[k].plan = job[k].plan
  <1>1. ASSUME NEW k \in Orders
        PROVE  /\ job'[k] \in JobRow /\ job'[k].plan = job[k].plan
               /\ job[k].status # "none" => job'[k].status # "none"
               /\ job'[k].status \notin {"none", "open"} => k \in stored \/ job[k].status \notin {"none", "open"}
    <2>1. job[k] \in JobRow
      BY DEF HireTypes
    <2>2. CASE RowMoves(job[k], job'[k])
      BY <2>2 DEF RowMoves
    <2>3. CASE k \in stored /\ job[k].status = "open" /\ job'[k] = [job[k] EXCEPT !.status = "funded"]
      BY <2>1, <2>3 DEF JobRow, Status
    <2> QED
      BY <2>2, <2>3
  <1>2. stored \subseteq Orders
    BY DEF HireTypes
  <1> QED
    BY <1>1, <1>2 DEF OrdersSound

LEMMA MineKeeps == ASSUME HireInv, Mine PROVE HireInv'
  <1> DEFINE tx == Head(pool).tx
             seen == Head(pool).watched
  <1>1. /\ Head(pool) \in PendingTxs(stored) /\ Tail(pool) \in Seq(PendingTxs(stored))
        /\ WatchesItsTx(Tail(pool), page)
        /\ seen => page.stage = "receipt" /\ page.sending = tx /\ \A pg : WatchesItsTx(Tail(pool), pg)
    BY RestOfPool DEF Mine
  <1>2. tx \in Txs /\ seen \in BOOLEAN /\ FundIsStored(tx, stored)
    BY <1>1 DEF PendingTxs
  <1>3. pool' = Tail(pool) /\ quote' = quote /\ plans' = plans
    BY DEF Mine
  <1>4. \/ /\ tx.step = "create_job"
           /\ \E j \in FreeNumbers :
                /\ job' = Applied(tx, j)
                /\ stored' = IF seen THEN Stored(j) ELSE stored
                /\ page' = IF seen THEN Created(page, j) ELSE page
           /\ allowance' = allowance
        \/ /\ tx.step # "create_job" /\ Succeeds(tx)
           /\ job' = Applied(tx, tx.job) /\ allowance' = Allowed(tx)
           /\ page' = IF seen THEN Confirmed(page, tx) ELSE page
           /\ stored' = stored
        \/ /\ page' = IF seen THEN Failed(page) ELSE page
           /\ UNCHANGED <<job, allowance, stored>>
    BY DEF Mine
  <1> HIDE DEF tx, seen
  <1>5. ASSUME tx.step = "create_job", NEW j \in FreeNumbers, job' = Applied(tx, j),
               stored' = IF seen THEN Stored(j) ELSE stored,
               page' = IF seen THEN Created(page, j) ELSE page, allowance' = allowance
        PROVE  HireInv'
    BY <1>1, <1>2, <1>3, <1>5, CreatedKeeps
  <1>6. HireTypes /\ OrdersSound(stored, job, plans) /\ plans \in Nat /\ PageSound(page, stored, job, plans)
    BY HireBounds DEF HireInv, HireTypes
  <1>7. CASE /\ tx.step # "create_job" /\ Succeeds(tx)
             /\ job' = Applied(tx, tx.job) /\ allowance' = Allowed(tx)
             /\ page' = (IF seen THEN Confirmed(page, tx) ELSE page)
             /\ stored' = stored
    <2>1. job' = [k \in Orders |-> job'[k]]
      BY <1>2, <1>6, <1>7, AppliedIsFunction
    <2>2. \A k \in Orders :
           \/ RowMoves(job[k], job'[k])
           \/ k \in stored /\ job[k].status = "open" /\ job'[k] = [job[k] EXCEPT !.status = "funded"]
      BY <1>2, <1>6, <1>7, AppliedRow DEF FundIsStored
    <2>3. /\ job' \in [Orders -> JobRow]
          /\ OrdersSound(stored, job', plans)
          /\ \A k \in stored : job'[k].plan = job[k].plan
      BY <1>6, <2>1, <2>2, OrdersMove
    <2>4. allowance' \in {0, Price}
      BY <1>2, <1>6, <1>7, AllowedTypes
    <2>5. HireTypes'
      BY <1>3, <1>6, <1>7, <2>3, <2>4 DEF HireTypes
    <2>6. PageSound(page', stored, job, plans)
      BY <1>2, <1>6, <1>7, ConfirmedSound
    <2>7. PageSound(page', stored, job', plans)
      <3>1. plans <= plans /\ plans \in Int
        BY <1>6
      <3> QED
        BY <2>3, <2>6, <3>1, AroundThePage
    <2>8. WatchesItsTx(Tail(pool), page')
      BY <1>1, <1>2, <1>7
    <2> QED
      BY <1>1, <1>3, <1>7, <2>3, <2>5, <2>7, <2>8 DEF HireInv
  <1>8. CASE /\ page' = (IF seen THEN Failed(page) ELSE page)
             /\ UNCHANGED <<job, allowance, stored>>
    <2>1. PageSound(page', stored, job, plans)
      BY <1>2, <1>6, <1>8, RestsIdle
    <2>2. WatchesItsTx(Tail(pool), page')
      BY <1>1, <1>2, <1>8
    <2>3. HireTypes'
      BY <1>3, <1>6, <1>8 DEF HireTypes
    <2> QED
      BY <1>1, <1>3, <1>6, <1>8, <2>1, <2>2, <2>3 DEF HireInv
  <1> QED
    BY <1>4, <1>5, <1>7, <1>8

\* Provider, policy and time change an order the way RowMoves allows.
LEMMA OutsideKeeps ==
  ASSUME HireInv, NEW j \in Orders, NEW r, RowMoves(job[j], r), Outside(j, r)
  PROVE  HireInv'
  <1>1. job' = [job EXCEPT ![j] = r] /\ UNCHANGED <<allowance, pool, quote, plans, stored, page>>
    BY DEF Outside
  <1>2. HireTypes /\ OrdersSound(stored, job, plans) /\ plans \in Nat /\ PageSound(page, stored, job, plans)
    BY HireBounds DEF HireInv, HireTypes
  <1>3. \A k \in Orders : RowMoves(job[k], job'[k])
    BY <1>1, <1>2 DEF HireTypes, RowMoves
  <1>4. job' = [k \in Orders |-> job'[k]]
    BY <1>1, <1>2 DEF HireTypes
  <1>5. /\ job' \in [Orders -> JobRow]
        /\ OrdersSound(stored, job', plans)
        /\ \A k \in stored : job'[k].plan = job[k].plan
    BY <1>2, <1>3, <1>4, OrdersMove
  <1>6. PageSound(page, stored, job', plans)
    <2>1. plans <= plans /\ plans \in Int
      BY <1>2
    <2> QED
      BY <1>2, <1>5, <2>1, AroundThePage
  <1> QED
    BY <1>1, <1>2, <1>5, <1>6 DEF HireInv, HireTypes

LEMMA WorldKeeps ==
  ASSUME HireInv, NEW j \in Orders,
         Reprice(j) \/ ProviderSubmits(j) \/ CloseWindow(j) \/ Decide(j) \/ Expire(j)
  PROVE  HireInv'
  <1>1. job[j] \in JobRow
    BY DEF HireInv, HireTypes
  <1>2. CASE Reprice(j)
    <2>1. RowMoves(job[j], [job[j] EXCEPT !.budget = Other])
      BY <1>1 DEF RowMoves, JobRow
    <2> QED
      BY <1>2, <2>1, OutsideKeeps DEF Reprice
  <1>3. CASE ProviderSubmits(j)
    <2>1. RowMoves(job[j], [job[j] EXCEPT !.status = "submitted"])
      BY <1>1, <1>3 DEF RowMoves, JobRow, Status, ProviderSubmits
    <2> QED
      BY <1>3, <2>1, OutsideKeeps DEF ProviderSubmits
  <1>4. CASE CloseWindow(j)
    <2>1. RowMoves(job[j], [job[j] EXCEPT !.closed = TRUE])
      BY <1>1 DEF RowMoves, JobRow
    <2> QED
      BY <1>4, <2>1, OutsideKeeps DEF CloseWindow
  <1>5. CASE Decide(j)
    <2>1. PICK v \in {"approve", "reject"} : Outside(j, [job[j] EXCEPT !.verdict = v])
      BY <1>5 DEF Decide
    <2>2. RowMoves(job[j], [job[j] EXCEPT !.verdict = v])
      BY <1>1 DEF RowMoves, JobRow, Verdicts
    <2> QED
      BY <2>1, <2>2, OutsideKeeps
  <1>6. CASE Expire(j)
    <2>1. RowMoves(job[j], [job[j] EXCEPT !.expired = TRUE])
      BY <1>1 DEF RowMoves, JobRow
    <2> QED
      BY <1>6, <2>1, OutsideKeeps DEF Expire
  <1> QED
    BY <1>2, <1>3, <1>4, <1>5, <1>6

LEMMA LapseKeeps == ASSUME HireInv, NEW p \in Plans, QuoteLapses(p) PROVE HireInv'
  <1>1. quote' \in [Plans -> BOOLEAN] /\ UNCHANGED <<job, allowance, pool, plans, stored, page>>
    BY DEF HireInv, HireTypes, QuoteLapses
  <1> QED
    BY <1>1 DEF HireInv, HireTypes

-----------------------------------------------------------------------------

LEMMA HireStarts == Init => HireInv
  <1> SUFFICES ASSUME Init PROVE HireInv
    OBVIOUS
  <1>1. NewJob("none", 0) \in JobRow /\ NewJob("none", 0).status = "none"
    BY HireBounds DEF NewJob, JobRow, Status, Verdicts
  <1>2. HireTypes
    BY <1>1, HireBounds DEF Init, HireTypes
  <1>3. pool \in Seq(PendingTxs(stored)) /\ WatchesItsTx(pool, page)
    BY DEF Init, WatchesItsTx
  <1>4. PageSound(page, stored, job, plans)
    BY OpenedSound DEF Init
  <1>5. OrdersSound(stored, job, plans)
    BY <1>1 DEF Init, OrdersSound
  <1> QED
    BY <1>2, <1>3, <1>4, <1>5 DEF HireInv

LEMMA HireGoesOn == HireInv /\ [Next]_vars => HireInv'
  <1> SUFFICES ASSUME HireInv, [Next]_vars PROVE HireInv'
    OBVIOUS
  <1>1. CASE UNCHANGED vars
    <2>1. UNCHANGED <<job, allowance, pool, quote, plans, stored, page>>
      BY <1>1 DEF vars
    <2> QED
      BY <2>1 DEF HireInv, HireTypes
  <1>2. CASE OpenService \/ \E j \in Orders : OpenOrder(j)
    BY <1>2, OpenKeeps
  <1>3. CASE Connect \/ ResumePlan \/ Prepare
    BY <1>3, ConnectKeeps, ResumePlanKeeps, PrepareKeeps
  <1>4. CASE SendNext \/ SendRefund \/ SendSettle \/ SendDispute
    BY <1>4, SendKeeps
  <1>5. CASE WalletSends \/ GiveUp \/ Mine \/ ReceivePlan
    BY <1>5, WalletSendsKeeps, GiveUpKeeps, MineKeeps, ReceivePlanKeeps
  <1>6. CASE CheckDelivery \/ ConfirmReview
    BY <1>6, CheckDeliveryKeeps, ConfirmReviewKeeps
  <1>7. CASE \E j \in Orders : Reprice(j) \/ ProviderSubmits(j) \/ CloseWindow(j) \/ Decide(j) \/ Expire(j)
    BY <1>7, WorldKeeps
  <1>8. CASE \E p \in Plans : QuoteLapses(p)
    BY <1>8, LapseKeeps
  <1> QED
    BY <1>1, <1>2, <1>3, <1>4, <1>5, <1>6, <1>7, <1>8 DEF Next

\* Every variable of the buyer's page and of its orders keeps its type.
THEOREM HireTypeCorrect == Spec => []TypeOK
  BY SafeAndTyped, HireStarts, HireGoesOn, PTL DEF Spec

\* Whatever the buyer presses while a receipt is awaited, wherever a page is left, and
\* however often the creation of an order is sent again: live-hire.js pays one order of
\* each signed plan, and one it has stored.
THEOREM EscrowStaysSafe == Spec => []EscrowIsSafe
  BY SafeAndTyped, HireStarts, HireGoesOn, PTL DEF Spec

-----------------------------------------------------------------------------
(***************************************************************************)
(* The two together.  The seller's proofs suppose of the chain only what   *)
(* its Fund and Lapse allow, and the buyer's proofs of the provider only   *)
(* ProviderSubmits.  Every step of the pair keeps to both, so that what    *)
(* was proved of each holds of the pair; and since what the agent has      *)
(* verified once was funded then, its work follows the buyer's money.      *)
(***************************************************************************)

\* Verified, or worked on: the job has been funded.  Submitted: its deal was signed.
FundedFirst == \A j \in Jobs : Vouched(j) \/ Working(j) => chain[j] # "none"
SubmittedIsSigned == \A j \in Jobs : chain[j] = "submitted" => j \in Genuine
FundedInv == SlotInv /\ CountersOK /\ FundedFirst /\ SubmittedIsSigned

\* Who may be at work after a step: who was, and who has just been verified.
LEMMA SpawnStartsWork ==
  ASSUME SlotInv, NEW jobs \in SUBSET Jobs, NEW stage \in {"verify", "work"},
         SpawnJobs(jobs, stage), NEW j \in Jobs, Working(j)'
  PROVE  Working(j) \/ (stage = "work" /\ j \in jobs)
  <1> DEFINE new == jobs \ inflight
             row == [stage |-> stage, orphan |-> FALSE]
  <1>1. /\ \A i \in new : \E k \in Runs : run[i][k].stage = "idle"
        /\ run' = [i \in Jobs |-> IF i \in new THEN [run[i] EXCEPT ![IdleRun(i)] = row] ELSE run[i]]
    BY DEF SpawnJobs
  <1>2. row.stage = stage
    OBVIOUS
  <1> HIDE DEF row
  <1>3. run[j] \in [Runs -> RunRow]
    BY DEF SlotInv, SlotTypes
  <1>4. PICK k \in Runs : run'[j][k].stage \in {"work", "submit", "send"}
    BY DEF Working
  <1>5. CASE j \notin new
    BY <1>1, <1>4, <1>5 DEF Working
  <1>6. CASE j \in new
    <2>1. run'[j] = [run[j] EXCEPT ![IdleRun(j)] = row]
      BY <1>1, <1>6
    <2>2. CASE k = IdleRun(j)
      <3>1. run'[j][k] = row
        BY <1>3, <2>1, <2>2
      <3> QED
        BY <1>2, <1>4, <1>6, <3>1
    <2>3. CASE k # IdleRun(j)
      <3>1. run'[j][k] = run[j][k]
        BY <1>3, <2>1, <2>3
      <3> QED
        BY <1>4, <3>1 DEF Working
    <2> QED
      BY <2>2, <2>3
  <1> QED
    BY <1>5, <1>6

LEMMA RowStartsWork ==
  ASSUME SlotInv, NEW i \in Jobs, NEW k \in Runs, NEW row, run' = [run EXCEPT ![i][k] = row],
         NEW j \in Jobs, Working(j)'
  PROVE  Working(j) \/ (j = i /\ row.stage \in {"work", "submit", "send"})
  <1>1. run \in [Jobs -> [Runs -> RunRow]]
    BY DEF SlotInv, SlotTypes
  <1>2. PICK l \in Runs : run'[j][l].stage \in {"work", "submit", "send"}
    BY DEF Working
  <1>3. run'[j][l] = IF j = i /\ l = k THEN row ELSE run[j][l]
    BY <1>1
  <1> QED
    BY <1>2, <1>3 DEF Working

LEMMA RunStepWorks ==
  ASSUME FundedInv, NEW i \in Jobs, NEW k \in Runs, RunStep(i, k) \/ Timeout(i, k), NEW j \in Jobs, Working(j)'
  PROVE  Working(j) \/ chain[j] = "funded"
  <1>1. SlotInv /\ run[i][k] \in RunRow
    BY DEF FundedInv, SlotInv, SlotTypes
  <1>2. ASSUME NEW stage \in {"work", "submit", "send"}, GoTo(i, k, stage), Working(i) \/ Verifies(i)
        PROVE  Working(j) \/ chain[j] = "funded"
    <2>1. run' = [run EXCEPT ![i][k] = [stage |-> stage, orphan |-> run[i][k].orphan]]
      BY <1>2 DEF GoTo
    <2>2. Working(j) \/ j = i
      BY <1>1, <2>1, RowStartsWork
    <2> QED
      BY <1>2, <2>2 DEF Verifies
  <1>3. NoRun.stage = "idle"
    BY DEF NoRun
  <1>4. ASSUME run' = [run EXCEPT ![i][k] = NoRun]
        PROVE  Working(j)
    BY <1>1, <1>3, <1>4, RowStartsWork
  <1>5. ASSUME NEW terminal, EndRun(i, k, terminal)
        PROVE  Working(j)
    BY <1>4, <1>5 DEF EndRun
  <1>6. CASE Verify(i, k)
    BY <1>2, <1>5, <1>6 DEF Verify
  <1>7. CASE Work(i, k)
    <2>1. Working(i)
      BY <1>7 DEF Work, At, Working
    <2> QED
      BY <1>2, <1>5, <1>7, <2>1 DEF Work
  <1>8. CASE Submit(i, k)
    BY <1>2, <1>5, <1>8 DEF Submit
  <1>9. CASE Send(i, k)
    BY <1>5, <1>9 DEF Send
  <1>10. CASE Timeout(i, k)
    <2>1. CASE run[i][k].stage \in {"submit", "send"}
      <3>1. Working(i)
        BY <2>1 DEF Working
      <3>2. run' = [run EXCEPT ![i][k] = [stage |-> run[i][k].stage, orphan |-> TRUE]]
        BY <1>10, <2>1 DEF Timeout
      <3>3. Working(j) \/ j = i
        BY <1>1, <3>2, RowStartsWork
      <3> QED
        BY <3>1, <3>3
    <2>2. CASE run[i][k].stage \notin {"submit", "send"}
      <3>1. run' = [run EXCEPT ![i][k] = NoRun]
        BY <1>10, <2>2 DEF Timeout
      <3> QED
        BY <1>4, <3>1
    <2> QED
      BY <2>1, <2>2
  <1> QED
    BY <1>6, <1>7, <1>8, <1>9, <1>10 DEF RunStep

LEMMA RequestStepVouches ==
  ASSUME FundedInv, NEW q \in Requests, RequestStep(q) \/ \E i \in Jobs : Notify(q, i), NEW j \in Jobs
  PROVE  /\ Vouched(j)' => Vouched(j) \/ chain[j] = "funded"
         /\ Working(j)' => Working(j) \/ Vouched(j)
  <1>1. SlotInv /\ request \in [Requests -> RequestRow]
    BY DEF FundedInv, SlotInv, SlotTypes
  <1>2. ASSUME NEW row, request' = [request EXCEPT ![q] = row],
               row.stage = "ok" /\ row.job = j => chain[j] = "funded"
        PROVE  Vouched(j)' => Vouched(j) \/ chain[j] = "funded"
    <2>1. \A p \in Requests : request'[p] = row \/ request'[p] = request[p]
      BY <1>1, <1>2
    <2> QED
      BY <1>2, <2>1 DEF Vouched
  <1>3. NoRequest.stage = "idle"
    BY DEF NoRequest
  <1>4. ASSUME run' = run PROVE Working(j)' => Working(j)
    BY <1>4 DEF Working
  <1>5. CASE \E i \in Jobs : Notify(q, i)
    <2>1. PICK i \in Jobs : Notify(q, i)
      BY <1>5
    <2> DEFINE row == [stage |-> "asked", job |-> i]
    <2>2. row.stage = "asked" /\ request' = [request EXCEPT ![q] = row] /\ run' = run
      BY <2>1 DEF Notify
    <2> HIDE DEF row
    <2> QED
      BY <1>2, <1>4, <2>2
  <1>6. CASE PreVerify(q)
    <2>1. PICK stage \in {"ok", "rejected", "unknown"} :
            Answer(q, stage) /\ (stage = "ok" => Verifies(request[q].job))
      BY <1>6 DEF PreVerify
    <2> DEFINE row == [request[q] EXCEPT !.stage = stage]
    <2>2. row.stage = stage /\ row.job = request[q].job
      BY <1>1 DEF RequestRow, RequestStage
    <2>3. request' = [request EXCEPT ![q] = row] /\ run' = run
      BY <1>6, <2>1 DEF PreVerify, Answer
    <2>4. row.stage = "ok" /\ row.job = j => chain[j] = "funded"
      BY <2>1, <2>2 DEF Verifies
    <2> HIDE DEF row
    <2> QED
      BY <1>2, <1>4, <2>3, <2>4
  <1>7. CASE Reject(q)
    BY <1>2, <1>3, <1>4, <1>7 DEF Reject
  <1>8. CASE Accept(q)
    <2> DEFINE stage == IF request[q].stage = "ok" THEN "work" ELSE "verify"
    <2>1. {request[q].job} \in SUBSET Jobs
      BY <1>1, <1>8 DEF Accept, SlotInv, RequestsOK
    <2>2. SpawnJobs({request[q].job}, stage) /\ request' = [request EXCEPT ![q] = NoRequest]
      BY <1>8 DEF Accept
    <2>3. stage \in {"verify", "work"} /\ (stage = "work" /\ j = request[q].job => Vouched(j))
      BY DEF Vouched
    <2> HIDE DEF stage
    <2>4. Working(j)' => Working(j) \/ (stage = "work" /\ j \in {request[q].job})
      BY <1>1, <2>1, <2>2, <2>3, SpawnStartsWork
    <2> QED
      BY <1>2, <1>3, <2>2, <2>3, <2>4
  <1> QED
    BY <1>5, <1>6, <1>7, <1>8 DEF RequestStep

\* Whoever is verified or worked on after a step was so before, or is funded.
LEMMA WorkFollowsFunding ==
  ASSUME FundedInv, [SellerNext]_sellerVars, NEW j \in Jobs, Vouched(j)' \/ Working(j)'
  PROVE  Vouched(j) \/ Working(j) \/ chain[j] = "funded"
  <1>1. SlotInv /\ SlotTypes
    BY DEF FundedInv, SlotInv
  <1>2. ASSUME request' = request PROVE Vouched(j)' => Vouched(j)
    BY <1>2 DEF Vouched
  <1>3. ASSUME run' = run PROVE Working(j)' => Working(j)
    BY <1>3 DEF Working
  <1>4. ASSUME NEW i \in Jobs, NEW k \in Runs, RunStep(i, k) \/ Timeout(i, k)
        PROVE  Vouched(j) \/ Working(j) \/ chain[j] = "funded"
    <2>1. request' = request
      BY <1>4 DEF RunStep, Verify, Work, Submit, Send, Timeout
    <2>2. Working(j)' => Working(j) \/ chain[j] = "funded"
      BY <1>4, RunStepWorks
    <2> QED
      BY <1>2, <2>1, <2>2
  <1>5. ASSUME NEW q \in Requests, RequestStep(q) \/ \E i \in Jobs : Notify(q, i)
        PROVE  Vouched(j) \/ Working(j) \/ chain[j] = "funded"
    BY <1>5, RequestStepVouches
  <1>6. ASSUME NEW s \in Sweeps, SweepStep(s)
        PROVE  Vouched(j) \/ Working(j) \/ chain[j] = "funded"
    <2>1. request' = request
      BY <1>6 DEF SweepStep, Scan, ScanFails, DeliverListed
    <2>2. CASE Scan(s) \/ ScanFails(s)
      BY <1>2, <1>3, <2>1, <2>2 DEF Scan, ScanFails
    <2>3. CASE DeliverListed(s)
      <3>1. sweep[s].jobs \in SUBSET Jobs /\ SpawnJobs(sweep[s].jobs, "verify")
        BY <1>1, <2>3 DEF DeliverListed, SlotTypes, SweepRow
      <3>2. Working(j)' => Working(j)
        BY <1>1, <3>1, SpawnStartsWork
      <3> QED
        BY <1>2, <2>1, <3>2
    <2> QED
      BY <1>6, <2>2, <2>3 DEF SweepStep
  <1>7. ASSUME NEW i \in Jobs, Fund(i) \/ Lapse(i)
        PROVE  Vouched(j) \/ Working(j) \/ chain[j] = "funded"
    BY <1>2, <1>3, <1>7 DEF Fund, Lapse
  <1>8. CASE NotifyBare \/ UNCHANGED sellerVars
    BY <1>2, <1>3, <1>8 DEF NotifyBare, sellerVars
  <1>9. CASE Restart
    <2>1. /\ run' = [i \in Jobs |-> [k \in Runs |-> NoRun]]
          /\ request' = [q \in Requests |-> NoRequest]
      BY <1>9 DEF Restart
    <2>2. NoRun.stage = "idle" /\ NoRequest.stage = "idle"
      BY DEF NoRun, NoRequest
    <2> QED
      BY <2>1, <2>2 DEF Vouched, Working
  <1> QED
    BY <1>4, <1>5, <1>6, <1>7, <1>8, <1>9 DEF SellerNext

\* A job is funded once, and submitted by a delivery that got as far as sending.
LEMMA ChainMoves ==
  ASSUME FundedInv, [SellerNext]_sellerVars, NEW j \in Jobs
  PROVE  /\ chain[j] # "none" => chain'[j] # "none"
         /\ chain'[j] = "submitted" => chain[j] = "submitted" \/ j \in Genuine
  <1>1. chain \in [Jobs -> ChainStatus] /\ OnlyGenuineWork
    BY DEF FundedInv, SlotInv, CountersOK
  <1>2. ASSUME NEW i \in Jobs, Fund(i) \/ Lapse(i)
        PROVE  (chain[j] # "none" => chain'[j] # "none") /\ (chain'[j] = "submitted" => chain[j] = "submitted")
    BY <1>1, <1>2 DEF Fund, Lapse
  <1>3. ASSUME NEW i \in Jobs, NEW k \in Runs, Send(i, k)
        PROVE  /\ chain[j] # "none" => chain'[j] # "none"
               /\ chain'[j] = "submitted" => chain[j] = "submitted" \/ j \in Genuine
    <2>1. i \in Genuine
      BY <1>1, <1>3 DEF Send, At, OnlyGenuineWork
    <2>2. chain' = chain \/ chain' = [chain EXCEPT ![i] = "submitted"]
      BY <1>3 DEF Send
    <2> QED
      BY <1>1, <2>1, <2>2
  <1>4. ASSUME NEW i \in Jobs, NEW k \in Runs, RunStep(i, k) \/ Timeout(i, k), ~Send(i, k)
        PROVE  chain' = chain
    BY <1>4 DEF RunStep, Verify, Work, Submit, Timeout
  <1>5. ASSUME NEW q \in Requests, RequestStep(q) \/ \E i \in Jobs : Notify(q, i)
        PROVE  chain' = chain
    BY <1>5 DEF RequestStep, PreVerify, Reject, Accept, Notify
  <1>6. ASSUME NEW s \in Sweeps, SweepStep(s)
        PROVE  chain' = chain
    BY <1>6 DEF SweepStep, Scan, ScanFails, DeliverListed
  <1>7. CASE NotifyBare \/ Restart \/ UNCHANGED sellerVars
    BY <1>7 DEF NotifyBare, Restart, sellerVars
  <1> QED
    BY <1>2, <1>3, <1>4, <1>5, <1>6, <1>7 DEF SellerNext

LEMMA FundedGoesOn == FundedInv /\ [SellerNext]_sellerVars => FundedInv'
  <1> SUFFICES ASSUME FundedInv, [SellerNext]_sellerVars PROVE FundedInv'
    OBVIOUS
  <1>1. SlotInv' /\ CountersOK'
    BY SlotStep, CountersStay DEF FundedInv
  <1>2. FundedFirst'
    <2> SUFFICES ASSUME NEW j \in Jobs, Vouched(j)' \/ Working(j)' PROVE chain'[j] # "none"
      BY DEF FundedFirst
    <2>1. Vouched(j) \/ Working(j) \/ chain[j] = "funded"
      BY WorkFollowsFunding
    <2>2. chain[j] # "none"
      BY <2>1 DEF FundedInv, FundedFirst
    <2> QED
      BY <2>2, ChainMoves
  <1>3. SubmittedIsSigned'
    BY ChainMoves DEF FundedInv, SubmittedIsSigned
  <1> QED
    BY <1>1, <1>2, <1>3 DEF FundedInv

-----------------------------------------------------------------------------
(* What the agent sees of a buyer's step. *)

\* An order expires after it is paid for.
FreshOrders(rows) == \A j \in Orders : rows[j].status \in {"none", "open"} => ~rows[j].expired

SeenMoves(r, s) ==
  /\ s.status \in {"none", "open"} => ~s.expired
  /\ \/ StatusSeen(s) = StatusSeen(r)
     \/ StatusSeen(r) = "none" /\ StatusSeen(s) = "funded"
     \/ StatusSeen(r) = "funded" /\ StatusSeen(s) = "lapsed"

\* Of the orders, only the j-th moves, if any does.
OnlyMoves(j) ==
  /\ \A k \in Orders : k # j => job'[k] = job[k]
  /\ j \in Orders => SeenMoves(job[j], job'[j])

LEMMA EndedSeen ==
  ASSUME NEW j \in Orders, NEW s \in {"completed", "rejected", "expired"}
  PROVE  EndedOrder(j, s).status = s
  BY DEF EndedOrder, NewJob

LEMMA AppliedSeen ==
  ASSUME HireTypes, FreshOrders(job), NEW tx \in Txs, tx.step # "create_job", Succeeds(tx),
         job' = Applied(tx, tx.job), NEW j, j = tx.job
  PROVE  OnlyMoves(j)
  <1> DEFINE r == job[j]
             s == job'[j]
  <1>1. job \in [Orders -> JobRow]
    BY DEF HireTypes
  <1>2. \A k \in Orders : k # j => job'[k] = job[k]
    BY <1>1 DEF Applied, Txs, Steps
  <1>3. ASSUME j \in Orders PROVE SeenMoves(r, s)
    <2>1. r \in JobRow /\ (r.status \in {"none", "open"} => ~r.expired)
      BY <1>1, <1>3 DEF FreshOrders
    <2>2. CASE tx.step = "register_job"
      <3>1. s = [r EXCEPT !.policy = TRUE] /\ r.status = "open"
        BY <1>1, <1>3, <2>2 DEF Applied, Succeeds
      <3>2. s.status = "open" /\ ~s.expired
        BY <2>1, <3>1 DEF JobRow
      <3> QED
        BY <3>1, <3>2 DEF SeenMoves, StatusSeen
    <2>3. CASE tx.step = "set_budget"
      <3>1. s = [r EXCEPT !.budget = Price] /\ r.status = "open"
        BY <1>1, <1>3, <2>3 DEF Applied, Succeeds
      <3>2. s.status = "open" /\ ~s.expired
        BY <2>1, <3>1 DEF JobRow
      <3> QED
        BY <3>1, <3>2 DEF SeenMoves, StatusSeen
    <2>4. CASE tx.step = "approve_u"
      <3>1. s = r
        BY <2>4 DEF Applied
      <3> QED
        BY <2>1, <3>1 DEF SeenMoves
    <2>5. CASE tx.step = "fund_job"
      <3>1. s = [r EXCEPT !.status = "funded"] /\ r.status = "open"
        BY <1>1, <1>3, <2>5 DEF Applied, Succeeds
      <3>2. s.status = "funded" /\ ~s.expired
        BY <2>1, <3>1 DEF JobRow
      <3> QED
        BY <3>1, <3>2 DEF SeenMoves, StatusSeen
    <2>6. CASE tx.step = "dispute_job"
      <3>1. s = [r EXCEPT !.disputed = TRUE] /\ r.status = "submitted"
        BY <1>1, <1>3, <2>6 DEF Applied, Succeeds, CanDispute
      <3>2. s.status = "submitted"
        BY <2>1, <3>1 DEF JobRow
      <3> QED
        BY <3>1, <3>2 DEF SeenMoves, StatusSeen
    <2>7. CASE tx.step = "refund_job"
      <3>1. s = EndedOrder(j, "expired") /\ r.status = "funded" /\ r.expired
        BY <1>1, <1>3, <2>7 DEF Applied, Succeeds, CanRefund
      <3>2. s.status = "expired"
        BY <1>3, <3>1, EndedSeen
      <3> QED
        BY <3>1, <3>2 DEF SeenMoves, StatusSeen
    <2>8. CASE tx.step = "settle_job"
      <3> DEFINE v == IF job[j].verdict = "approve" THEN "completed" ELSE "rejected"
      <3>1. s = EndedOrder(j, v) /\ r.status = "submitted"
        BY <1>1, <1>3, <2>8 DEF Applied, Succeeds
      <3>2. v \in {"completed", "rejected"}
        OBVIOUS
      <3> HIDE DEF v
      <3>3. s.status = v
        BY <1>3, <3>1, <3>2, EndedSeen
      <3> QED
        BY <3>1, <3>2, <3>3 DEF SeenMoves, StatusSeen
    <2> QED
      BY <2>2, <2>3, <2>4, <2>5, <2>6, <2>7, <2>8 DEF Txs, Steps
  <1> QED
    BY <1>2, <1>3 DEF OnlyMoves

LEMMA OutsideSeen ==
  ASSUME HireTypes, FreshOrders(job), NEW j \in Orders,
         Reprice(j) \/ ProviderSubmits(j) \/ CloseWindow(j) \/ Decide(j) \/ Expire(j),
         job'[j].status = "submitted" => job[j].status = "submitted"
  PROVE  OnlyMoves(j)
  <1>1. job \in [Orders -> JobRow] /\ job[j] \in JobRow
        /\ (job[j].status \in {"none", "open"} => ~job[j].expired)
    BY DEF HireTypes, FreshOrders
  <1>2. ASSUME NEW s, Outside(j, s), SeenMoves(job[j], s) PROVE OnlyMoves(j)
    BY <1>1, <1>2 DEF Outside, OnlyMoves
  <1>3. CASE Reprice(j)
    <2> DEFINE s == [job[j] EXCEPT !.budget = Other]
    <2>1. s.status = "open" /\ ~s.expired /\ job[j].status = "open" /\ Outside(j, s)
      BY <1>1, <1>3 DEF Reprice, JobRow
    <2> QED
      BY <1>2, <2>1 DEF SeenMoves, StatusSeen
  <1>4. CASE ProviderSubmits(j)
    BY <1>1, <1>4 DEF ProviderSubmits, Outside, JobRow
  <1>5. CASE CloseWindow(j)
    <2> DEFINE s == [job[j] EXCEPT !.closed = TRUE]
    <2>1. s.status = "submitted" /\ job[j].status = "submitted" /\ Outside(j, s)
      BY <1>1, <1>5 DEF CloseWindow, JobRow
    <2> QED
      BY <1>2, <2>1 DEF SeenMoves, StatusSeen
  <1>6. CASE Decide(j)
    <2>1. PICK v \in {"approve", "reject"} : Outside(j, [job[j] EXCEPT !.verdict = v])
      BY <1>6 DEF Decide
    <2> DEFINE s == [job[j] EXCEPT !.verdict = v]
    <2>2. s.status = "submitted" /\ job[j].status = "submitted"
      BY <1>1, <1>6 DEF Decide, JobRow
    <2> QED
      BY <1>2, <2>1, <2>2 DEF SeenMoves, StatusSeen
  <1>7. CASE Expire(j)
    <2> DEFINE s == [job[j] EXCEPT !.expired = TRUE]
    <2>1. s.status = "funded" /\ s.expired /\ job[j].status = "funded" /\ Outside(j, s)
      BY <1>1, <1>7 DEF Expire, JobRow
    <2>2. StatusSeen(s) = "lapsed" /\ StatusSeen(job[j]) \in {"funded", "lapsed"}
      BY <2>1 DEF StatusSeen
    <2> QED
      BY <1>2, <2>1, <2>2 DEF SeenMoves
  <1> QED
    BY <1>3, <1>4, <1>5, <1>6, <1>7

LEMMA MinedSeen ==
  ASSUME HireInv, FreshOrders(job), Mine
  PROVE  \E j : OnlyMoves(j)
  <1> DEFINE tx == Head(pool).tx
  <1>1. HireTypes /\ tx \in Txs
    <2>1. Head(pool) \in PendingTxs(stored)
      BY RestOfPool DEF Mine
    <2> QED
      BY <2>1 DEF HireInv, PendingTxs
  <1>2. \/ tx.step = "create_job" /\ \E j \in FreeNumbers : job' = Applied(tx, j)
        \/ tx.step # "create_job" /\ Succeeds(tx) /\ job' = Applied(tx, tx.job)
        \/ job' = job
    BY DEF Mine
  <1> HIDE DEF tx
  <1>3. ASSUME tx.step = "create_job", NEW j \in FreeNumbers, job' = Applied(tx, j)
        PROVE  OnlyMoves(j)
    <2>1. j \in Orders /\ job[j].status = "none" /\ job \in [Orders -> JobRow]
      BY <1>1 DEF FreeNumbers, HireTypes
    <2>2. job' = [job EXCEPT ![j] = NewJob("open", tx.plan)]
      BY <1>3 DEF Applied
    <2>3. NewJob("open", tx.plan).status = "open" /\ ~NewJob("open", tx.plan).expired
      BY DEF NewJob
    <2> QED
      BY <2>1, <2>2, <2>3 DEF OnlyMoves, SeenMoves, StatusSeen
  <1>4. ASSUME job' = job PROVE OnlyMoves(NoOrder)
    BY <1>4, HireBounds DEF OnlyMoves
  <1> QED
    BY <1>1, <1>2, <1>3, <1>4, AppliedSeen

\* The steps of the page change no order.
LEMMA PageLeavesOrders ==
  ASSUME OpenService \/ Connect \/ ResumePlan \/ Prepare \/ SendNext \/ SendRefund \/ SendSettle \/ SendDispute
           \/ WalletSends \/ GiveUp \/ ReceivePlan \/ CheckDelivery \/ ConfirmReview
           \/ (\E j \in Orders : OpenOrder(j)) \/ (\E p \in Plans : QuoteLapses(p))
  PROVE  job' = job
  <1>1. CASE OpenService \/ Connect \/ ResumePlan \/ Prepare \/ (\E j \in Orders : OpenOrder(j))
    BY <1>1 DEF OpenService, Connect, ResumePlan, Prepare, OpenOrder
  <1>2. CASE SendNext \/ SendRefund \/ SendSettle \/ SendDispute
    <2>1. \A tx : ToWallet(tx) => job' = job
      BY DEF ToWallet
    <2> QED
      BY <1>2, <2>1 DEF SendNext, SendRefund, SendSettle, SendDispute
  <1>3. CASE WalletSends \/ GiveUp \/ ReceivePlan \/ CheckDelivery \/ ConfirmReview
    BY <1>3 DEF WalletSends, GiveUp, ReceivePlan, CheckDelivery, ConfirmReview
  <1>4. CASE \E p \in Plans : QuoteLapses(p)
    BY <1>4 DEF QuoteLapses
  <1> QED
    BY <1>1, <1>2, <1>3, <1>4

LEMMA BuyerSeen ==
  ASSUME HireInv, FreshOrders(job), Next,
         \A j \in Orders : job'[j].status = "submitted" => job[j].status = "submitted"
  PROVE  \E j : OnlyMoves(j)
  <1>1. HireTypes
    BY DEF HireInv
  <1>2. ASSUME job' = job PROVE OnlyMoves(NoOrder)
    BY <1>2, HireBounds DEF OnlyMoves
  <1>3. CASE Mine
    BY <1>3, MinedSeen
  <1>4. ASSUME NEW j \in Orders, Reprice(j) \/ ProviderSubmits(j) \/ CloseWindow(j) \/ Decide(j) \/ Expire(j)
        PROVE  OnlyMoves(j)
    BY <1>1, <1>4, OutsideSeen
  <1> QED
    BY <1>2, <1>3, <1>4, PageLeavesOrders DEF Next

-----------------------------------------------------------------------------

Agreed == \A j \in Orders : chain[j] = StatusSeen(job[j])
HiredInv == HireInv /\ FundedInv /\ FreshOrders(job) /\ Agreed

LEMMA MovesKeepFresh ==
  ASSUME FreshOrders(job), NEW j, OnlyMoves(j)
  PROVE  FreshOrders(job')
  BY DEF FreshOrders, OnlyMoves, SeenMoves

\* A buyer's step is to the agent a job that is funded, one that lapses, or nothing.
LEMMA BuyerIsAChain ==
  ASSUME HiredInv, BuyerStep
  PROVE  [SellerNext]_sellerVars /\ FreshOrders(job')
  <1>1. HireInv /\ FreshOrders(job) /\ chain \in [Jobs -> ChainStatus] /\ Agreed
    BY DEF HiredInv, FundedInv, CountersOK
  <1>2. PICK j : OnlyMoves(j)
    BY <1>1, BuyerSeen DEF BuyerStep
  <1>3. chain' = [k \in Jobs |-> IF k \in Orders THEN StatusSeen(job'[k]) ELSE chain[k]]
        /\ UNCHANGED <<inflight, run, request, sweep, faults, restarts>>
    BY DEF BuyerStep, SeenAs
  <1>4. \A k \in Jobs : k # j \/ j \notin Orders => chain'[k] = chain[k]
    BY <1>1, <1>2, <1>3 DEF OnlyMoves, Agreed
  <1>5. CASE j \notin Orders \/ chain'[j] = chain[j]
    <2>1. \A k \in Jobs : chain'[k] = chain[k]
      BY <1>4, <1>5
    <2>2. chain' = chain
      BY <1>1, <1>3, <2>1
    <2> QED
      BY <1>1, <1>2, <1>3, <2>2, MovesKeepFresh DEF sellerVars
  <1>6. CASE j \in Orders /\ chain'[j] # chain[j]
    <2>1. j \in Jobs
      BY <1>6, OrdersAreJobs DEF OrdersAreJobs
    <2>2. chain[j] = StatusSeen(job[j]) /\ chain'[j] = StatusSeen(job'[j]) /\ SeenMoves(job[j], job'[j])
      BY <1>1, <1>2, <1>3, <1>6, <2>1 DEF Agreed, OnlyMoves
    <2>3. chain' = [chain EXCEPT ![j] = chain'[j]]
      BY <1>1, <1>3, <1>4, <2>1
    <2>4. \/ chain[j] = "none" /\ chain'[j] = "funded"
          \/ chain[j] = "funded" /\ chain'[j] = "lapsed"
      BY <1>6, <2>2 DEF SeenMoves
    <2>5. Fund(j) \/ Lapse(j)
      BY <1>3, <2>3, <2>4 DEF Fund, Lapse
    <2>6. SellerNext
      BY <2>1, <2>5 DEF SellerNext
    <2> QED
      BY <1>1, <1>2, <2>6, MovesKeepFresh
  <1> QED
    BY <1>5, <1>6

LEMMA HiredIsBoth ==
  ASSUME HiredInv, [HiredNext]_hiredVars
  PROVE  [Next]_vars /\ [SellerNext]_sellerVars
  <1>1. CASE BuyerStep
    BY <1>1, BuyerIsAChain DEF BuyerStep
  <1>2. CASE AgentStep
    BY <1>2 DEF AgentStep
  <1>3. ASSUME NEW j \in Orders, NEW k \in Runs, Delivered(j, k)
        PROVE  Next /\ SellerNext
    <2>1. j \in Jobs
      BY OrdersAreJobs DEF OrdersAreJobs
    <2>2. ProviderSubmits(j) /\ RunStep(j, k)
      BY <1>3 DEF Delivered, RunStep
    <2>3. Next
      BY <2>2 DEF Next
    <2>4. SellerNext
      BY <2>1, <2>2 DEF SellerNext
    <2> QED
      BY <2>3, <2>4
  <1>4. CASE UNCHANGED hiredVars
    BY <1>4 DEF hiredVars
  <1> QED
    BY <1>1, <1>2, <1>3, <1>4 DEF HiredNext

LEMMA HiredStarts == HiredInit => HiredInv
  <1> SUFFICES ASSUME HiredInit PROVE HiredInv
    OBVIOUS
  <1>1. HireInv /\ SlotInv /\ CountersOK
    BY HireStarts, SlotInitially, DeliveryStarts DEF HiredInit, DeliveryInv
  <1>2. chain = [j \in Jobs |-> "none"] /\ job = [j \in Orders |-> NewJob("none", 0)]
        /\ run = [j \in Jobs |-> [k \in Runs |-> NoRun]] /\ request = [q \in Requests |-> NoRequest]
    BY DEF HiredInit, Init, SellerInit
  <1>3. NewJob("none", 0).status = "none" /\ ~NewJob("none", 0).expired
        /\ NoRun.stage = "idle" /\ NoRequest.stage = "idle"
    BY DEF NewJob, NoRun, NoRequest
  <1>4. StatusSeen(NewJob("none", 0)) = "none"
    BY <1>3 DEF StatusSeen
  <1>5. FreshOrders(job)
    BY <1>2, <1>3 DEF FreshOrders
  <1>6. Agreed
    BY <1>2, <1>4, OrdersAreJobs DEF Agreed, OrdersAreJobs
  <1>7. FundedFirst /\ SubmittedIsSigned
    BY <1>2, <1>3 DEF FundedFirst, SubmittedIsSigned, Vouched, Working
  <1> QED
    BY <1>1, <1>5, <1>6, <1>7 DEF HiredInv, FundedInv

LEMMA HiredGoesOn == HiredInv /\ [HiredNext]_hiredVars => HiredInv'
  <1> SUFFICES ASSUME HiredInv, [HiredNext]_hiredVars PROVE HiredInv'
    OBVIOUS
  <1>1. HireInv /\ FundedInv /\ FreshOrders(job) /\ Agreed
    BY DEF HiredInv
  <1>2. HireInv' /\ FundedInv'
    BY <1>1, HiredIsBoth, HireGoesOn, FundedGoesOn
  <1>3. CASE BuyerStep
    <2>1. FreshOrders(job')
      BY <1>3, BuyerIsAChain
    <2>2. Agreed'
      BY <1>3, OrdersAreJobs DEF BuyerStep, SeenAs, Agreed, OrdersAreJobs
    <2> QED
      BY <1>2, <2>1, <2>2 DEF HiredInv
  <1>4. CASE AgentStep
    <2>1. job' = job /\ \A j \in Orders : chain'[j] = chain[j]
      BY <1>4 DEF AgentStep, vars
    <2>2. FreshOrders(job)' /\ Agreed'
      BY <1>1, <2>1 DEF FreshOrders, Agreed
    <2> QED
      BY <1>2, <2>2 DEF HiredInv
  <1>5. ASSUME NEW j \in Orders, NEW k \in Runs, Delivered(j, k)
        PROVE  HiredInv'
    <2>1. /\ job \in [Orders -> JobRow] /\ job' = [job EXCEPT ![j] = [job[j] EXCEPT !.status = "submitted"]]
          /\ chain'[j] = "submitted"
      BY <1>1, <1>5 DEF HireInv, HireTypes, Delivered, ProviderSubmits, Outside
    <2>2. job'[j].status = "submitted" /\ \A i \in Orders \ {j} : job'[i] = job[i]
      BY <2>1 DEF JobRow
    <2>3. FreshOrders(job')
      BY <1>1, <2>2 DEF FreshOrders
    <2>4. StatusSeen(job'[j]) = "submitted"
      BY <2>2 DEF StatusSeen
    <2>5. chain \in [Jobs -> ChainStatus] /\ \A i \in Orders \ {j} : chain'[i] = chain[i]
      <3>1. chain \in [Jobs -> ChainStatus]
        BY <1>1 DEF FundedInv, CountersOK
      <3>2. chain' = chain \/ chain' = [chain EXCEPT ![j] = "submitted"]
        BY <1>5 DEF Delivered, Send
      <3> QED
        BY <3>1, <3>2, OrdersAreJobs DEF OrdersAreJobs
    <2>6. Agreed'
      BY <1>1, <2>1, <2>2, <2>4, <2>5 DEF Agreed
    <2> QED
      BY <1>2, <2>3, <2>6 DEF HiredInv
  <1>6. CASE UNCHANGED hiredVars
    <2>1. job' = job /\ chain' = chain
      BY <1>6 DEF hiredVars, vars, sellerVars
    <2>2. FreshOrders(job)' /\ Agreed'
      BY <1>1, <2>1 DEF FreshOrders, Agreed
    <2> QED
      BY <1>2, <2>2 DEF HiredInv
  <1> QED
    BY <1>3, <1>4, <1>5, <1>6 DEF HiredNext

\* What the money, the numbers in storage and the signatures of the two sides amount to.
LEMMA HiredIsPaid == HiredInv => WorkIsPaidFor
  <1> SUFFICES ASSUME HiredInv PROVE WorkIsPaidFor
    OBVIOUS
  <1>1. Agreed /\ FundedFirst /\ SubmittedIsSigned /\ EscrowIsSafe /\ Orders \subseteq Jobs
    BY SafeAndTyped, OrdersAreJobs DEF HiredInv, FundedInv, OrdersAreJobs
  <1>2. ASSUME NEW j \in Orders, Working(j) PROVE j \in stored /\ Escrowed(j)
    <2>1. chain[j] # "none" /\ chain[j] = StatusSeen(job[j])
      BY <1>1, <1>2 DEF FundedFirst, Agreed
    <2>2. Escrowed(j)
      BY <2>1 DEF StatusSeen, Escrowed
    <2> QED
      BY <1>1, <2>2 DEF EscrowIsSafe, EscrowIsRecoverable
  <1>3. ASSUME NEW j \in Orders, chain[j] = "submitted"
        PROVE  j \in Genuine /\ job[j].status \in {"submitted", "completed", "rejected"}
    <2>1. j \in Genuine /\ StatusSeen(job[j]) = "submitted" /\ job[j].status \in Status
      BY <1>1, <1>3 DEF SubmittedIsSigned, Agreed, HiredInv, HireInv, HireTypes, JobRow
    <2> QED
      BY <2>1 DEF StatusSeen, Status
  <1>4. ASSUME NEW i \in Orders, NEW j \in Orders, Working(i), Working(j), job[i].plan = job[j].plan
        PROVE  i = j
    BY <1>1, <1>2, <1>4 DEF EscrowIsSafe, OneEscrowPerPlan
  <1> QED
    BY <1>2, <1>3, <1>4 DEF WorkIsPaidFor

\* An order of the page and its delivery by the agent behave as LiveHire and as
\* SellerDelivery say, each being what the other supposes of its surroundings: the
\* page's provider submits as the agent does, and the agent's chain funds and lapses as
\* the page's transactions and the clock make it.
THEOREM HiredDoesBoth == HiredSpec => Spec /\ SellerSpec
  <1>1. HiredInit => Init /\ SellerInit
    BY DEF HiredInit
  <1>2. HiredInv /\ [HiredNext]_hiredVars => [Next]_vars /\ [SellerNext]_sellerVars
    BY HiredIsBoth
  <1> QED
    BY <1>1, <1>2, HiredStarts, HiredGoesOn, PTL DEF HiredSpec, Spec, SellerSpec

\* live-hire.js and sellerCore.ts together: the agent works for orders in escrow that
\* the buyer's browser has stored, one for each signed plan, and what it has submitted
\* is the delivery of a deal it signed, whatever is notified early, late or twice,
\* created twice, interrupted, expired or restarted.
THEOREM WorkIsAlwaysPaidFor == HiredSpec => []WorkIsPaidFor
  BY HiredIsPaid, HiredStarts, HiredGoesOn, PTL DEF HiredSpec

\* What the buyer finds submitted, settles or disputes is the delivery of a deal the
\* agent signed, also after the order has moved on.
THEOREM PaidDeliveryIsSigned ==
  HiredSpec => [](\A j \in Orders : job[j].status \in {"submitted", "completed", "rejected"} => j \in Genuine)
  <1>1. HiredInv => \A j \in Orders : job[j].status \in {"submitted", "completed", "rejected"} => j \in Genuine
    <2> SUFFICES ASSUME HiredInv, NEW j \in Orders, job[j].status \in {"submitted", "completed", "rejected"}
                 PROVE  j \in Genuine
      OBVIOUS
    <2>1. chain[j] = "submitted"
      BY DEF HiredInv, Agreed, StatusSeen
    <2> QED
      BY <2>1, OrdersAreJobs DEF HiredInv, FundedInv, SubmittedIsSigned, OrdersAreJobs
  <1> QED
    BY <1>1, HiredStarts, HiredGoesOn, PTL DEF HiredSpec

\* What was proved of the page and of the agent holds of the two together.
THEOREM HiredKeepsPromises == HiredSpec => [](EscrowIsSafe /\ OneRunnerPerJob /\ OnlyGenuineWork) /\ DeliveredOnce
  BY HiredDoesBoth, EscrowStaysSafe, JobsHaveOneRunner, WorkIsGenuine, DeliveriesAreNotRepeated, PTL

=============================================================================
