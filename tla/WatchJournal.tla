---------------------------- MODULE WatchJournal ----------------------------
(***************************************************************************)
(* The workspace journal and its follow-up worker                          *)
(* (src/proofops/workspace/store.py and worker.py): a user saves a watch   *)
(* of an on-chain order or of a position; a worker claims the watch that   *)
(* has been due longest under a lease, reads its source, may call the      *)
(* provider of a funded order, and records the result with the time of     *)
(* the next check.  The journal is an SQLite file, so it outlives workers, *)
(* and every one of its methods is one transaction.                        *)
(*                                                                         *)
(* Time is a countdown in every row that holds a time stamp, and Tick      *)
(* takes one unit of each; a unit is of the order of 30 s.  A worker is    *)
(* the task of one process: two of them model a deployment that overlaps.  *)
(*                                                                         *)
(* Abstractions.  The reads of health, LP, grid and yield sources are one  *)
(* read that finds an alarm or none.  A funded order may be reported       *)
(* overdue, and the time of a watch (one day or ten) be up, at any time.   *)
(* The events of a watch, which no operation here reads, and its counter   *)
(* `attempts', which nothing reads, are left out.                          *)
(***************************************************************************)
EXTENDS Integers, FiniteSets

CONSTANTS
  Watches,   \* rows the journal may hold
  WatchedJobs,      \* on-chain orders
  NoWatchedJob,     \* what a watch that is not of an order watches
  JobOf,     \* the order of each watch
  Notifies,  \* watches whose user lets the server call the provider
  Workers,
  NoWatch,   \* what an idle worker has claimed
  NotifyTimeout, Lease, Interval, Spacing,   \* 150 s, 180 s, 300 s, 300 s
  MaxCalls,  \* three
  MaxLate,   \* bound: how long a watch is known to be overdue
  MaxWatchFaults  \* bound on failures

ASSUME JournalConstantsOK ==
  /\ JobOf \in [Watches -> WatchedJobs \union {NoWatchedJob}] /\ NoWatchedJob \notin WatchedJobs
  /\ Notifies \subseteq Watches
  /\ NoWatch \notin Watches /\ IsFiniteSet(Workers)
  /\ {NotifyTimeout, Lease, Interval, Spacing, MaxCalls, MaxLate, MaxWatchFaults} \subseteq Nat
  /\ NotifyTimeout < Lease

VARIABLES
  watchedChain,    \* status of each order on chain
  watch,    \* rows of `watches'
  attempt,  \* rows of `notify_attempts'
  worker,   \* the workers
  resumed,  \* watches resumed in this unit of time (bound)
  calls,    \* calls made to the provider of each order (for properties only)
  watchFaults

watchVars == <<watchedChain, watch, attempt, worker, resumed, calls, watchFaults>>

-----------------------------------------------------------------------------

WatchedStatus == {"open", "funded", "submitted", "completed", "rejected", "expired"}
ChainMove == {<<"open", "funded">>, <<"funded", "submitted">>, <<"funded", "expired">>,
              <<"submitted", "completed">>, <<"submitted", "rejected">>}

Alarms == {"alert", "error", "acceptance_failed", "overdue"}
WatchState == WatchedStatus \union Alarms \union {"pending", "observing"}

\* `saved' is FALSE until the row is inserted; `over': its `expires' has passed;
\* `seen' is the last chain status a check recorded (for properties only).
WatchRow ==
  [saved: BOOLEAN, active: BOOLEAN, state: WatchState, due: -MaxLate .. Interval,
   lease: 0 .. Lease, over: BOOLEAN, seen: WatchedStatus]

NoRow == [saved |-> FALSE, active |-> FALSE, state |-> "pending",
          due |-> 0, lease |-> 0, over |-> FALSE, seen |-> "open"]

\* "reading": live_job_status or observe_*; "calling": notify_live_agent reads the
\* order again; "called": its request is out; "fetching": live_delivery.
Busy == {"reading", "calling", "called", "fetching"}
WorkerRow == [phase: {"down", "idle"} \union Busy, watch: Watches \union {NoWatch},
              status: WatchedStatus, elapsed: 0 .. NotifyTimeout]
Resting(phase) == [phase |-> phase, watch |-> NoWatch, status |-> "open", elapsed |-> 0]

WatchInit ==
  /\ watchedChain = [j \in WatchedJobs |-> "open"]
  /\ watch = [w \in Watches |-> NoRow]
  /\ attempt = [j \in WatchedJobs |-> [count |-> 0, wait |-> 0]]
  /\ worker = [a \in Workers |-> Resting("down")]
  /\ resumed = {}
  /\ calls = [j \in WatchedJobs |-> 0]
  /\ watchFaults = 0

WatchFault == watchFaults < MaxWatchFaults /\ watchFaults' = watchFaults + 1

IsOrder(w) == JobOf[w] # NoWatchedJob

-----------------------------------------------------------------------------
(* The user. *)

\* add: a watch that is there already, running or not, is returned as it is.
Add(w) ==
  /\ ~watch[w].saved
  /\ watch' = [watch EXCEPT ![w] = [NoRow EXCEPT !.saved = TRUE, !.active = TRUE]]
  /\ UNCHANGED <<watchedChain, attempt, worker, resumed, calls, watchFaults>>

Pause(w) ==
  /\ watch[w].saved
  /\ watch' = [watch EXCEPT ![w].active = FALSE]
  /\ UNCHANGED <<watchedChain, attempt, worker, resumed, calls, watchFaults>>

ResumedWatch(row) == [row EXCEPT !.active = TRUE, !.over = FALSE, !.due = 0]

Resume(w) ==
  /\ watch[w].saved /\ w \notin resumed
  /\ ~(IsOrder(w) /\ watch[w].state \in {"completed", "rejected"})
  /\ watch' = [watch EXCEPT ![w] = ResumedWatch(watch[w])]
  /\ resumed' = resumed \union {w}
  /\ UNCHANGED <<watchedChain, attempt, worker, calls, watchFaults>>

-----------------------------------------------------------------------------
(* claim *)

\* The first statement of claim ends every watch whose time is up.
Swept(w) ==
  IF watch[w].active /\ watch[w].over
  THEN [watch[w] EXCEPT !.active = FALSE, !.state = "expired"]
  ELSE watch[w]

\* Mutant: the lease of another worker is not respected.
ClaimableUnleased(w) == watch[w].active /\ ~watch[w].over /\ watch[w].due <= 0

ClaimableWatch(w) ==
  /\ watch[w].active /\ ~watch[w].over
  /\ watch[w].due <= 0 /\ watch[w].lease = 0

\* Mutant: the watch that became due last goes first.
LatestDue(w) == ClaimableWatch(w) /\ \A v \in Watches : ClaimableWatch(v) => watch[w].due >= watch[v].due
LongestDue(w) == ClaimableWatch(w) /\ \A v \in Watches : ClaimableWatch(v) => watch[w].due <= watch[v].due

\* Mutant: the lease ends with the deadline of the check.
LeaseShort(w) == [watch[w] EXCEPT !.lease = NotifyTimeout]
Leased(w) == [watch[w] EXCEPT !.lease = Lease]

Claim(a) ==
  /\ worker[a].phase = "idle"
  /\ \E w \in Watches :
       /\ LongestDue(w)
       /\ watch' = [v \in Watches |-> IF v = w THEN Leased(v) ELSE Swept(v)]
       /\ worker' = [worker EXCEPT ![a] = [phase |-> "reading", watch |-> w,
                                           status |-> "open", elapsed |-> 0]]
  /\ UNCHANGED <<watchedChain, attempt, resumed, calls, watchFaults>>

ClaimNothing(a) ==
  /\ worker[a].phase = "idle"
  /\ ~\E w \in Watches : ClaimableWatch(w)
  /\ watch' = [w \in Watches |-> Swept(w)]
  /\ UNCHANGED <<watchedChain, attempt, worker, resumed, calls, watchFaults>>

-----------------------------------------------------------------------------
(* process and finish *)

\* finish writes what the check found.  A terminal status closes the watch; that
\* the watch was paused meanwhile is kept.
Finished(row, state, terminal, seen) ==
  [row EXCEPT !.state = state, !.due = Interval, !.lease = 0,
              !.active = row.active /\ ~terminal, !.seen = seen]

Claimed(a) == worker[a].watch

Finish(a, state, terminal, seen) ==
  /\ watch' = [watch EXCEPT ![Claimed(a)] = Finished(watch[Claimed(a)], state, terminal, seen)]
  /\ worker' = [worker EXCEPT ![a] = Resting("idle")]

FinishError(a) == Finish(a, "error", FALSE, watch[Claimed(a)].seen)

WorkerGoesTo(a, phase, status) ==
  /\ worker' = [worker EXCEPT ![a].phase = phase, ![a].status = status]
  /\ UNCHANGED watch

\* reserve_notification, committed before the call.  Mutants: attempts are not limited;
\* an attempt is only counted by the answer.
ReservableSpaced(j) == attempt[j].wait = 0
Reservable(j) == attempt[j].count < MaxCalls /\ attempt[j].wait = 0
ReserveLater(j) == attempt' = [attempt EXCEPT ![j].wait = Spacing]
Reserve(j) == attempt' = [attempt EXCEPT ![j] = [count |-> attempt[j].count + 1, wait |-> Spacing]]

\* A funded order is reported as funded, or as overdue once the follow-up
\* threshold has passed.
FinishFunded(a) == \E s \in {"funded", "overdue"} : Finish(a, s, FALSE, "funded")

ReadPosition(a) ==
  /\ worker[a].phase = "reading" /\ ~IsOrder(Claimed(a))
  /\ \E s \in {"observing", "alert"} : Finish(a, s, FALSE, watch[Claimed(a)].seen)
  /\ UNCHANGED <<watchedChain, attempt, resumed, calls, watchFaults>>

ReadOrder(a) ==
  LET w == Claimed(a)
      s == watchedChain[JobOf[w]]
      callable == w \in Notifies /\ Reservable(JobOf[w])
  IN
  /\ worker[a].phase = "reading" /\ IsOrder(w)
  /\ \/ s = "open" /\ Finish(a, s, FALSE, s) /\ UNCHANGED attempt
     \/ s \in {"rejected", "expired"} /\ Finish(a, s, TRUE, s) /\ UNCHANGED attempt
     \/ s = "funded" /\ callable /\ Reserve(JobOf[w]) /\ WorkerGoesTo(a, "calling", s)
     \/ s = "funded" /\ ~callable /\ FinishFunded(a) /\ UNCHANGED attempt
     \/ s \in {"submitted", "completed"} /\ WorkerGoesTo(a, "fetching", s) /\ UNCHANGED attempt
  /\ UNCHANGED <<watchedChain, resumed, calls, watchFaults>>

\* notify_live_agent reads the order again before it sends anything.
Call(a) ==
  LET j == JobOf[Claimed(a)] IN
  /\ worker[a].phase = "calling"
  /\ \/ /\ watchedChain[j] = "funded"
        /\ calls' = [calls EXCEPT ![j] = calls[j] + 1]
        /\ WorkerGoesTo(a, "called", "funded")
     \/ watchedChain[j] \in {"submitted", "completed"} /\ FinishFunded(a) /\ UNCHANGED calls
     \/ watchedChain[j] \in {"rejected", "expired"} /\ FinishError(a) /\ UNCHANGED calls
  /\ UNCHANGED <<watchedChain, attempt, resumed, watchFaults>>

\* The provider accepts, or refuses, which is an error.
NotifyAnswers(a) ==
  /\ worker[a].phase = "called"
  /\ FinishFunded(a) \/ FinishError(a)
  /\ UNCHANGED <<watchedChain, attempt, resumed, calls, watchFaults>>

\* live_delivery reads the order again, then its manifest.  A delivery that fails
\* its acceptance replaces the status, so that even a completed order stays open.
Fetch(a) ==
  LET s == worker[a].status IN
  /\ worker[a].phase = "fetching"
  /\ \/ /\ watchedChain[JobOf[Claimed(a)]] \in {"submitted", "completed"}
        /\ Finish(a, s, s = "completed", s) \/ Finish(a, "acceptance_failed", FALSE, s)
     \/ watchedChain[JobOf[Claimed(a)]] \notin {"submitted", "completed"} /\ FinishError(a)
  /\ UNCHANGED <<watchedChain, attempt, resumed, calls, watchFaults>>

\* A source or the provider fails in one of the ways that process catches.
SourceFails(a) ==
  /\ worker[a].phase \in Busy
  /\ WatchFault
  /\ FinishError(a)
  /\ UNCHANGED <<watchedChain, attempt, resumed, calls>>

\* asyncio.timeout in run.
CheckTimesOut(a) ==
  /\ worker[a].phase \in Busy /\ worker[a].elapsed = NotifyTimeout
  /\ FinishError(a)
  /\ UNCHANGED <<watchedChain, attempt, resumed, calls, watchFaults>>

\* The process dies, or an exception that run does not catch (a database that is
\* locked, an arithmetic error of a Decimal) ends the task.
Die(a) ==
  /\ worker[a].phase # "down"
  /\ WatchFault
  /\ worker' = [worker EXCEPT ![a] = Resting("down")]
  /\ UNCHANGED <<watchedChain, watch, attempt, resumed, calls>>

\* The lifespan of a new process starts the task.
StartWorker(a) ==
  /\ worker[a].phase = "down"
  /\ worker' = [worker EXCEPT ![a] = Resting("idle")]
  /\ UNCHANGED <<watchedChain, watch, attempt, resumed, calls, watchFaults>>

-----------------------------------------------------------------------------
(* The chain and the clock. *)

Move(j) ==
  /\ \E s \in WatchedStatus : <<watchedChain[j], s>> \in ChainMove /\ watchedChain' = [watchedChain EXCEPT ![j] = s]
  /\ UNCHANGED <<watch, attempt, worker, resumed, calls, watchFaults>>

\* The time of a watch is up.
RunOut(w) ==
  /\ watch[w].saved /\ ~watch[w].over
  /\ watch' = [watch EXCEPT ![w].over = TRUE]
  /\ UNCHANGED <<watchedChain, attempt, worker, resumed, calls, watchFaults>>

TimeLess(n) == IF n > 0 THEN n - 1 ELSE 0

\* No unit of time passes while a check is over its deadline, or an idle worker
\* has a watch to claim: its loop looks every 5 s.
Tick ==
  /\ \A a \in Workers : worker[a].phase \in Busy => worker[a].elapsed < NotifyTimeout
  /\ \A a \in Workers : worker[a].phase = "idle" => \A w \in Watches : ~ClaimableWatch(w)
  /\ watch' = [w \in Watches |->
       [watch[w] EXCEPT !.due = IF watch[w].due > -MaxLate THEN watch[w].due - 1 ELSE watch[w].due,
                        !.lease = TimeLess(watch[w].lease)]]
  /\ attempt' = [j \in WatchedJobs |-> [attempt[j] EXCEPT !.wait = TimeLess(attempt[j].wait)]]
  /\ worker' = [a \in Workers |->
       IF worker[a].phase \in Busy
       THEN [worker[a] EXCEPT !.elapsed = worker[a].elapsed + 1]
       ELSE worker[a]]
  /\ resumed' = {}
  /\ UNCHANGED <<watchedChain, calls, watchFaults>>

-----------------------------------------------------------------------------

Check(a) == ReadPosition(a) \/ ReadOrder(a) \/ Call(a) \/ NotifyAnswers(a) \/ Fetch(a)

WorkerStep(a) ==
  \/ Claim(a) \/ ClaimNothing(a) \/ Check(a) \/ SourceFails(a) \/ CheckTimesOut(a)
  \/ Die(a) \/ StartWorker(a)

WatchNext ==
  \/ \E w \in Watches : Add(w) \/ Pause(w) \/ Resume(w) \/ RunOut(w)
  \/ \E a \in Workers : WorkerStep(a)
  \/ \E j \in WatchedJobs : Move(j)
  \/ Tick

WatchSpec == WatchInit /\ [][WatchNext]_watchVars

\* Time passes, a worker's loop goes on, its deadline fires, and a process that
\* stopped is started again.
WatchFairness ==
  /\ WF_watchVars(Tick)
  /\ \A a \in Workers :
       /\ WF_watchVars(Claim(a) \/ ClaimNothing(a))
       /\ WF_watchVars(CheckTimesOut(a)) /\ WF_watchVars(StartWorker(a))

WatchFairSpec == WatchSpec /\ WatchFairness

-----------------------------------------------------------------------------
(* Properties. *)

WatchTypeOK ==
  /\ watchedChain \in [WatchedJobs -> WatchedStatus]
  /\ watch \in [Watches -> WatchRow]
  /\ attempt \in [WatchedJobs -> [count: 0 .. MaxCalls, wait: 0 .. Spacing]]
  /\ worker \in [Workers -> WorkerRow]
  /\ resumed \subseteq Watches
  /\ calls \in [WatchedJobs -> Nat]
  /\ watchFaults \in Nat

\* The provider of an order is called at most three times, however many watches
\* and workspaces follow the order and whatever dies between the reservation, the
\* call and its answer (reserve_notification; live-hire.html:54).
CallsWithinBudget == \A j \in WatchedJobs : calls[j] <= MaxCalls

\* A watch is checked by one worker at a time: a lease outlives the check it was
\* taken for, also across a pause and a resume (claim, run).
OneCheckPerWatch ==
  \A a, b \in Workers :
    worker[a].phase \in Busy /\ worker[b].phase \in Busy /\ Claimed(a) = Claimed(b) => a = b

\* Checks exclude each other and the calls they make are counted, whatever overlaps
\* or dies (claim, reserve_notification).
ChecksAreBounded == OneCheckPerWatch /\ CallsWithinBudget

\* What the journal records of an order never goes back: no late check overwrites
\* the status a later one has recorded (finish).
Rank(s) == CASE s = "open" -> 0 [] s = "funded" -> 1 [] s = "submitted" -> 2 [] OTHER -> 3
RecordNeverRegresses ==
  [][\A w \in Watches : Rank(watch[w].seen) <= Rank(watch[w].seen')]_watchVars

\* An order that the journal has closed stays closed: no resume, expiry, restart or
\* late check opens it again or changes its state (resume, finish).
ClosedOrder(w) == IsOrder(w) /\ watch[w].state \in {"completed", "rejected"}
ClosedOrderStaysClosed ==
  [][\A w \in Watches : ClosedOrder(w) =>
       ~watch'[w].active /\ watch'[w].state = watch[w].state]_watchVars

\* As long as a watch runs it is checked again and again, however many others are
\* due, whatever stopped in the middle of its check and whichever watches others
\* resume; only resuming it over and over may put it off (claim, run, resume).
ActiveWatchIsChecked ==
  \A w \in Watches : []<>(~watch[w].active \/ watch[w].due = Interval \/ w \in resumed)

\* The journal follows an order, never leads or turns back.
RecordsOnlyAdvance == RecordNeverRegresses /\ ClosedOrderStaysClosed

=============================================================================
