--------------------------- MODULE SellerDelivery ---------------------------
(***************************************************************************)
(* The seller agent's background delivery                                  *)
(* (agent-studio/safehireagents/app/agent/src/sellerCore.ts): a buyer's    *)
(* notify_funded is verified and acknowledged, the work and the on-chain   *)
(* submit follow in the background, and every accepted notification sweeps *)
(* the chain for other funded jobs.  `inflight' keeps a job from being     *)
(* delivered twice by one process; the process keeps nothing on disk.      *)
(*                                                                         *)
(* JavaScript runs one callback at a time, so an action is what happens    *)
(* between two awaits.  A run that exceeds its deadline is given up by its *)
(* runner, which frees the job's slot; the abort signal stops its model    *)
(* call, but a submission already under way goes on as an orphan.          *)
(*                                                                         *)
(* The Commerce contract and the SDK are external: a job is funded, then   *)
(* submitted or lapsed; submit reverts unless the job is funded;           *)
(* verifySignedJob accepts a funded job that carries this seller's quote.  *)
(* Whether it calls a submitted or lapsed job a permanent or a transient   *)
(* failure is left open.                                                   *)
(***************************************************************************)
EXTENDS Naturals, FiniteSets

CONSTANTS
  Jobs,       \* jobs assigned to this provider
  Genuine,    \* those whose terms this seller signed
  Runs,       \* deliveries of one job that may exist at a time, orphans included
  Requests,   \* notify_funded calls being answered at a time
  Sweeps,     \* sweeps under way at a time
  NoJob,      \* a notification without a job id
  Unsupported,  \* whether the wallet may be of a kind that can never submit
  MaxFaults, MaxRestarts   \* bounds of the model

ASSUME SellerConstantsOK ==
  /\ Genuine \subseteq Jobs
  /\ NoJob \notin Jobs
  /\ Unsupported \in BOOLEAN
  /\ MaxFaults \in Nat /\ MaxRestarts \in Nat

VARIABLES
  chain,      \* status of each job on chain
  inflight,   \* jobs being delivered or terminally handled by this process
  run,        \* stage of every delivery of a job, and whether its runner gave it up
  request,    \* notifications whose pre-verification is awaited
  sweep,      \* sweeps: scanning, or holding the jobs they were told
  faults, restarts

sellerVars == <<chain, inflight, run, request, sweep, faults, restarts>>

-----------------------------------------------------------------------------

ChainStatus == {"none", "funded", "submitted", "lapsed"}

\* "verify": fulfillJob asks verifySignedJob; "work": the job's terms are read and
\* the model works; "submit": submitResult checks the job once more and uploads;
\* "send": its transaction is on the way.
RunStage == {"idle", "verify", "work", "submit", "send"}
RunRow == [stage: RunStage, orphan: BOOLEAN]
NoRun == [stage |-> "idle", orphan |-> FALSE]

\* "asked", or the answer of the pre-verification that is about to be delivered.
RequestStage == {"idle", "asked", "ok", "unknown", "rejected"}
RequestRow == [stage: RequestStage, job: Jobs \union {NoJob}]
NoRequest == [stage |-> "idle", job |-> NoJob]

SweepRow == [stage: {"idle", "scanning", "listed"}, jobs: SUBSET Jobs]
NoSweep == [stage |-> "idle", jobs |-> {}]

SellerInit ==
  /\ chain = [j \in Jobs |-> "none"]
  /\ inflight = {}
  /\ run = [j \in Jobs |-> [k \in Runs |-> NoRun]]
  /\ request = [q \in Requests |-> NoRequest]
  /\ sweep = [s \in Sweeps |-> NoSweep]
  /\ faults = 0 /\ restarts = 0

Fault == faults < MaxFaults /\ faults' = faults + 1

\* A delivery whose runner is waiting for it.
Live(j, k) == run[j][k].stage # "idle" /\ ~run[j][k].orphan
IdleRun(j) == CHOOSE k \in Runs : run[j][k].stage = "idle"

\* tasks.size > 0
IsBusy ==
  \/ \E j \in Jobs, k \in Runs : Live(j, k)
  \/ \E s \in Sweeps : sweep[s].stage # "idle"

\* spawnJob for each of the jobs: those in flight are passed over.  A job that
\* notifyFunded has verified goes straight to work.  Mutant: the gate is missing.
SpawnJobsUngated(jobs, stage) ==
  /\ \A j \in jobs : \E k \in Runs : run[j][k].stage = "idle"
  /\ inflight' = inflight \union jobs
  /\ run' = [j \in Jobs |-> IF j \in jobs
                            THEN [run[j] EXCEPT ![IdleRun(j)] = [stage |-> stage, orphan |-> FALSE]]
                            ELSE run[j]]

SpawnJobs(jobs, stage) ==
  LET new == jobs \ inflight IN
  /\ \A j \in new : \E k \in Runs : run[j][k].stage = "idle"    \* bound on orphans
  /\ inflight' = inflight \union new
  /\ run' = [j \in Jobs |-> IF j \in new
                            THEN [run[j] EXCEPT ![IdleRun(j)] = [stage |-> stage, orphan |-> FALSE]]
                            ELSE run[j]]

StartSweep ==
  \E s \in Sweeps :
    /\ sweep[s].stage = "idle"
    /\ sweep' = [sweep EXCEPT ![s] = [stage |-> "scanning", jobs |-> {}]]

-----------------------------------------------------------------------------
(* The chain and the buyers. *)

Fund(j) ==
  /\ chain[j] = "none"
  /\ chain' = [chain EXCEPT ![j] = "funded"]
  /\ UNCHANGED <<inflight, run, request, sweep, faults, restarts>>

\* The job expires and the buyer takes the refund.
Lapse(j) ==
  /\ chain[j] = "funded"
  /\ chain' = [chain EXCEPT ![j] = "lapsed"]
  /\ UNCHANGED <<inflight, run, request, sweep, faults, restarts>>

-----------------------------------------------------------------------------
(* notifyFunded. *)

Notify(q, j) ==
  /\ request[q].stage = "idle"
  /\ request' = [request EXCEPT ![q] = [stage |-> "asked", job |-> j]]
  /\ UNCHANGED <<chain, inflight, run, sweep, faults, restarts>>

\* A notification without a job id only sweeps.
NotifyBare ==
  /\ StartSweep
  /\ UNCHANGED <<chain, inflight, run, request, faults, restarts>>

\* The verdicts of verifySignedJob: a foreign or expired job fails for good, one
\* that is not funded yet may only fail for now.
Verifies(j) == chain[j] = "funded" /\ j \in Genuine
FailsForGood(j) == j \notin Genuine \/ chain[j] \in {"submitted", "lapsed"}
FailsForNow(j) == chain[j] # "funded"

Answer(q, stage) == request' = [request EXCEPT ![q].stage = stage]

\* Mutant: a pre-verification that fails or times out counts as verified.
PreVerifyTrusting(q) ==
  /\ request[q].stage = "asked"
  /\ \/ Verifies(request[q].job) /\ Answer(q, "ok") /\ UNCHANGED faults
     \/ FailsForGood(request[q].job) /\ Answer(q, "rejected") /\ UNCHANGED faults
     \/ Fault /\ Answer(q, "ok")
  /\ UNCHANGED <<chain, inflight, run, sweep, restarts>>

\* verifySignedJob reads the chain; its answer is used after the await.
PreVerify(q) ==
  /\ request[q].stage = "asked"
  /\ \/ Verifies(request[q].job) /\ Answer(q, "ok") /\ UNCHANGED faults
     \/ FailsForGood(request[q].job) /\ Answer(q, "rejected") /\ UNCHANGED faults
     \/ FailsForNow(request[q].job) /\ Answer(q, "unknown") /\ UNCHANGED faults
     \/ Fault /\ Answer(q, "unknown")
  /\ UNCHANGED <<chain, inflight, run, sweep, restarts>>

Reject(q) ==
  /\ request[q].stage = "rejected"
  /\ request' = [request EXCEPT ![q] = NoRequest]
  /\ UNCHANGED <<chain, inflight, run, sweep, faults, restarts>>

\* Mutant: a job whose pre-verification came to nothing is worked on unverified.
AcceptUnverified(q) ==
  /\ request[q].stage \in {"ok", "unknown"}
  /\ SpawnJobs({request[q].job}, "work")
  /\ StartSweep
  /\ request' = [request EXCEPT ![q] = NoRequest]
  /\ UNCHANGED <<chain, faults, restarts>>

\* The named job is spawned and a sweep started in one go.
Accept(q) ==
  /\ request[q].stage \in {"ok", "unknown"}
  /\ SpawnJobs({request[q].job}, IF request[q].stage = "ok" THEN "work" ELSE "verify")
  /\ StartSweep
  /\ request' = [request EXCEPT ![q] = NoRequest]
  /\ UNCHANGED <<chain, faults, restarts>>

-----------------------------------------------------------------------------
(* sweep. *)

Scan(s) ==
  /\ sweep[s].stage = "scanning"
  /\ sweep' = [sweep EXCEPT ![s] = [stage |-> "listed", jobs |-> {j \in Jobs : chain[j] = "funded"}]]
  /\ UNCHANGED <<chain, inflight, run, request, faults, restarts>>

ScanFails(s) ==
  /\ sweep[s].stage = "scanning"
  /\ Fault
  /\ sweep' = [sweep EXCEPT ![s] = NoSweep]
  /\ UNCHANGED <<chain, inflight, run, request, restarts>>

DeliverListed(s) ==
  /\ sweep[s].stage = "listed"
  /\ SpawnJobs(sweep[s].jobs, "verify")
  /\ sweep' = [sweep EXCEPT ![s] = NoSweep]
  /\ UNCHANGED <<chain, request, faults, restarts>>

-----------------------------------------------------------------------------
(* runJob: fulfillJob, doWorkAndSubmit and the deadline over both. *)

At(j, k, stage) == run[j][k].stage = stage
GoTo(j, k, stage) ==
  /\ run' = [run EXCEPT ![j][k] = [stage |-> stage, orphan |-> run[j][k].orphan]]
  /\ UNCHANGED inflight

\* Mutant: the slot is never freed.
EndRunKept(j, k, terminal) ==
  /\ run' = [run EXCEPT ![j][k] = NoRun]
  /\ UNCHANGED inflight
\* Mutant: whoever ends frees the slot, an orphan too.
EndRunByOrphan(j, k, terminal) ==
  /\ run' = [run EXCEPT ![j][k] = NoRun]
  /\ inflight' = IF ~terminal THEN inflight \ {j} ELSE inflight

\* A delivery ends.  Its runner frees the slot unless the outcome is terminal;
\* an orphan's outcome reaches nobody.
EndRun(j, k, terminal) ==
  /\ run' = [run EXCEPT ![j][k] = NoRun]
  /\ inflight' = IF Live(j, k) /\ ~terminal THEN inflight \ {j} ELSE inflight

Verify(j, k) ==
  /\ At(j, k, "verify")
  /\ \/ Verifies(j) /\ GoTo(j, k, "work") /\ UNCHANGED faults
     \/ FailsForGood(j) /\ EndRun(j, k, TRUE) /\ UNCHANGED faults
     \/ FailsForNow(j) /\ EndRun(j, k, FALSE) /\ UNCHANGED faults
     \/ Fault /\ EndRun(j, k, FALSE)
  /\ UNCHANGED <<chain, request, sweep, restarts>>

Work(j, k) ==
  /\ At(j, k, "work")
  /\ \/ GoTo(j, k, "submit") /\ UNCHANGED faults
     \/ Fault /\ EndRun(j, k, FALSE)
  /\ UNCHANGED <<chain, request, sweep, restarts>>

\* submitResult verifies again and throws unless the job is still funded; on a
\* wallet that can never submit the outcome is a permanent skip.
Submit(j, k) ==
  /\ At(j, k, "submit")
  /\ \/ Verifies(j) /\ GoTo(j, k, "send") /\ UNCHANGED faults
     \/ Unsupported /\ EndRun(j, k, TRUE) /\ UNCHANGED faults
     \/ ~Verifies(j) /\ EndRun(j, k, FALSE) /\ UNCHANGED faults
     \/ Fault /\ EndRun(j, k, FALSE)
  /\ UNCHANGED <<chain, request, sweep, restarts>>

\* The transaction lands, reverts, or its outcome is lost with or without landing.
Send(j, k) ==
  /\ At(j, k, "send")
  /\ \/ /\ chain[j] = "funded"
        /\ chain' = [chain EXCEPT ![j] = "submitted"]
        /\ \/ EndRun(j, k, TRUE) /\ UNCHANGED faults
           \/ Fault /\ EndRun(j, k, FALSE)
     \/ chain[j] # "funded" /\ EndRun(j, k, FALSE) /\ UNCHANGED <<chain, faults>>
     \/ Fault /\ EndRun(j, k, FALSE) /\ UNCHANGED chain
  /\ UNCHANGED <<request, sweep, restarts>>

\* The deadline of runJob: verification and work come to nothing, a submission
\* goes on without a runner.
Timeout(j, k) ==
  /\ Live(j, k)
  /\ Fault
  /\ run' = [run EXCEPT ![j][k] =
       IF run[j][k].stage \in {"submit", "send"}
       THEN [stage |-> run[j][k].stage, orphan |-> TRUE]
       ELSE NoRun]
  /\ inflight' = inflight \ {j}
  /\ UNCHANGED <<chain, request, sweep, restarts>>

\* The host stops the process: when it is idle, or at its maximal lifetime.
Restart ==
  /\ restarts < MaxRestarts /\ restarts' = restarts + 1
  /\ (~IsBusy /\ UNCHANGED faults) \/ Fault
  /\ inflight' = {}
  /\ run' = [j \in Jobs |-> [k \in Runs |-> NoRun]]
  /\ request' = [q \in Requests |-> NoRequest]
  /\ sweep' = [s \in Sweeps |-> NoSweep]
  /\ UNCHANGED chain

-----------------------------------------------------------------------------

RunStep(j, k) == Verify(j, k) \/ Work(j, k) \/ Submit(j, k) \/ Send(j, k)
SweepStep(s) == Scan(s) \/ ScanFails(s) \/ DeliverListed(s)
RequestStep(q) == PreVerify(q) \/ Reject(q) \/ Accept(q)

SellerNext ==
  \/ \E j \in Jobs : Fund(j) \/ Lapse(j) \/ \E k \in Runs : RunStep(j, k) \/ Timeout(j, k)
  \/ \E q \in Requests : RequestStep(q) \/ \E j \in Jobs : Notify(q, j)
  \/ \E s \in Sweeps : SweepStep(s)
  \/ NotifyBare \/ Restart

SellerSpec == SellerInit /\ [][SellerNext]_sellerVars

\* Awaited calls answer or time out.
AnswersCome ==
  /\ \A j \in Jobs, k \in Runs : WF_sellerVars(RunStep(j, k))
  /\ \A q \in Requests : WF_sellerVars(RequestStep(q))
  /\ \A s \in Sweeps : WF_sellerVars(SweepStep(s))

\* And buyers keep notifying: the "later sweep" of sellerCore.ts:67 needs a later
\* notification.
SellerFairness == AnswersCome /\ WF_sellerVars(NotifyBare)

SellerFairSpec == SellerSpec /\ SellerFairness

-----------------------------------------------------------------------------
(* Properties. *)

SellerTypeOK ==
  /\ chain \in [Jobs -> ChainStatus]
  /\ inflight \subseteq Jobs
  /\ run \in [Jobs -> [Runs -> RunRow]]
  /\ request \in [Requests -> RequestRow]
  /\ sweep \in [Sweeps -> SweepRow]
  /\ faults \in Nat /\ restarts \in Nat

\* One process has at most one runner per job, and the runner holds the job's
\* slot, however notifications, sweeps, deadlines and orphans interleave
\* (sellerCore.ts:324).
OneRunnerPerJob ==
  \A j \in Jobs :
    /\ \A k \in Runs : Live(j, k) => j \in inflight
    /\ \A k, l \in Runs : Live(j, k) /\ Live(j, l) => k = l

\* No work without a verified deal: whatever answer is late or missing, only a job
\* whose terms this seller signed reaches the model (sellerCore.ts:393).
OnlyGenuineWork ==
  \A j \in Jobs, k \in Runs : run[j][k].stage \in {"work", "submit", "send"} => j \in Genuine

\* Unless something fails, a delivered job is not worked on again, although
\* notifications and sweeps may still hold it as funded (sellerCore.ts:358).
NoWorkOnDelivered ==
  faults = 0 =>
    \A j \in Jobs, k \in Runs :
      chain[j] = "submitted" => run[j][k].stage \notin {"work", "submit", "send"}

\* A terminal outcome stays terminal for the life of the process: no later
\* notification, sweep or orphan starts the job again (sellerCore.ts:358).
Closed(j) == j \in inflight /\ \A k \in Runs : ~Live(j, k)
TerminalStays == [][restarts' = restarts => \A j \in Jobs : Closed(j) => Closed(j)']_sellerVars

\* A funded job with this seller's quote is submitted, or lapses, once failures
\* stop and notifications keep coming, even if no buyer names it (sellerCore.ts:65).
FundedIsServed ==
  \A j \in Genuine : (chain[j] = "funded") ~> (chain[j] # "funded")

\* A job is delivered once by a process that meets no failure, and closed for good.
DeliveredOnce == []NoWorkOnDelivered /\ TerminalStays

=============================================================================
