--------------------------- MODULE Workspace_proofs ---------------------------
(***************************************************************************)
(* Theorems about the workspace (the journal of watches with the worker    *)
(* that follows orders up, the outbox of push notifications) and about the *)
(* run MCServices, of which both are parts.                                *)
(***************************************************************************)
EXTENDS MCServices, Jobs_proofs, FiniteSetTheorems, TLAPS

-----------------------------------------------------------------------------
(* Rows. *)

LEMMA Bounds ==
  /\ NotifyTimeout \in Nat /\ Lease \in Nat /\ Interval \in Nat /\ Spacing \in Nat
  /\ MaxCalls \in Nat /\ MaxLate \in Nat /\ MaxWatchFaults \in Nat /\ NotifyTimeout < Lease
  BY JournalConstantsOK DEF JournalConstantsOK

LEMMA Zeroes == 0 \in -MaxLate .. Interval /\ 0 \in 0 .. Lease /\ Interval \in -MaxLate .. Interval
  BY Bounds

LEMMA ResumedRow ==
  ASSUME NEW row \in WatchRow
  PROVE  ResumedWatch(row) \in WatchRow /\ ResumedWatch(row).lease = row.lease
  BY Zeroes DEF ResumedWatch, WatchRow

LEMMA FinishedRow ==
  ASSUME NEW row \in WatchRow, NEW s \in WatchState, NEW t \in BOOLEAN, NEW c \in WatchedStatus
  PROVE  Finished(row, s, t, c) \in WatchRow
  BY Zeroes DEF Finished, WatchRow

LEMMA SweptRow ==
  ASSUME WatchTypeOK, NEW w \in Watches
  PROVE  Swept(w) \in WatchRow /\ Swept(w).lease = watch[w].lease
  BY DEF WatchTypeOK, Swept, WatchRow, WatchState, WatchedStatus

LEMMA TickedRow ==
  ASSUME NEW row \in WatchRow
  PROVE  [row EXCEPT !.due = IF row.due > -MaxLate THEN row.due - 1 ELSE row.due,
                     !.lease = TimeLess(row.lease)] \in WatchRow
  <1>1. (IF row.due > -MaxLate THEN row.due - 1 ELSE row.due) \in -MaxLate .. Interval
    BY Bounds DEF WatchRow
  <1>2. TimeLess(row.lease) \in 0 .. Lease
    BY Bounds DEF WatchRow, TimeLess
  <1> QED
    BY <1>1, <1>2 DEF WatchRow

LEMMA NewRow ==
  [NoRow EXCEPT !.saved = TRUE, !.active = TRUE] \in WatchRow /\ NoRow \in WatchRow
  BY Zeroes DEF NoRow, WatchRow, WatchState, WatchedStatus, Alarms

LEMMA RestingRow ==
  ASSUME NEW p \in {"down", "idle"}
  PROVE  Resting(p) \in WorkerRow /\ Resting(p).phase = p /\ Resting(p).phase \notin Busy
  BY Bounds DEF Resting, WorkerRow, Busy, WatchedStatus

-----------------------------------------------------------------------------
(* The lease of a watch and the check it was taken for. *)

LeaseHeld(a) ==
  worker[a].phase \in Busy =>
    /\ Claimed(a) \in Watches
    /\ watch[Claimed(a)].lease = Lease - worker[a].elapsed

UnsavedAtRest == \A w \in Watches : ~watch[w].saved => ~watch[w].active /\ watch[w].lease = 0

LeaseInv == WatchTypeOK /\ UnsavedAtRest /\ (\A a \in Workers : LeaseHeld(a)) /\ OneCheckPerWatch

\* While a watch is checked, its lease has not run out.
LEMMA CheckedIsLeased ==
  ASSUME LeaseInv, NEW a \in Workers, worker[a].phase \in Busy
  PROVE  Claimed(a) \in Watches /\ watch[Claimed(a)].lease > 0
  BY Bounds DEF LeaseInv, WatchTypeOK, LeaseHeld, WorkerRow

\* A step that leaves the workers and the leases alone.
LEMMA LeasesUntouched ==
  ASSUME LeaseInv, worker' = worker, watch' \in [Watches -> WatchRow],
         \A w \in Watches : watch'[w].lease = watch[w].lease,
         \A w \in Watches : ~watch'[w].saved => ~watch'[w].active /\ ~watch[w].saved
  PROVE  UnsavedAtRest' /\ (\A a \in Workers : LeaseHeld(a)') /\ OneCheckPerWatch'
  BY DEF LeaseInv, UnsavedAtRest, LeaseHeld, OneCheckPerWatch, Claimed

\* The end of a check.
LEMMA FinishKeepsLeases ==
  ASSUME LeaseInv, NEW a \in Workers, worker[a].phase \in Busy,
         NEW s \in WatchState, NEW t \in BOOLEAN, NEW c \in WatchedStatus, Finish(a, s, t, c)
  PROVE  /\ watch' \in [Watches -> WatchRow] /\ worker' \in [Workers -> WorkerRow]
         /\ UnsavedAtRest' /\ (\A b \in Workers : LeaseHeld(b)') /\ OneCheckPerWatch'
  <1> DEFINE w == Claimed(a)
             row == Finished(watch[w], s, t, c)
  <1>1. w \in Watches /\ watch[w].lease > 0 /\ watch[w].saved
    BY CheckedIsLeased DEF LeaseInv, UnsavedAtRest, WatchTypeOK, WatchRow
  <1>2. row \in WatchRow /\ row.saved = watch[w].saved
    <2>1. watch[w] \in WatchRow  BY <1>1 DEF LeaseInv, WatchTypeOK
    <2> QED  BY <2>1, FinishedRow DEF Finished, WatchRow
  <1>3. watch' = [watch EXCEPT ![w] = row] /\ worker' = [worker EXCEPT ![a] = Resting("idle")]
    BY DEF Finish
  <1> HIDE DEF w, row
  <1>4. worker' \in [Workers -> WorkerRow]
    BY <1>3, RestingRow DEF LeaseInv, WatchTypeOK
  <1>5. watch' \in [Watches -> WatchRow]
    BY <1>1, <1>2, <1>3 DEF LeaseInv, WatchTypeOK
  <1>6. UnsavedAtRest'
    BY <1>1, <1>2, <1>3 DEF LeaseInv, WatchTypeOK, UnsavedAtRest
  <1>7. \A b \in Workers : worker'[b].phase \in Busy => b # a /\ worker'[b] = worker[b]
    BY <1>3, RestingRow DEF LeaseInv, WatchTypeOK
  <1>8. \A b \in Workers : LeaseHeld(b)'
    <2> SUFFICES ASSUME NEW b \in Workers, worker'[b].phase \in Busy
                 PROVE  /\ worker'[b].watch \in Watches
                        /\ watch'[worker'[b].watch].lease = Lease - worker'[b].elapsed
      BY DEF LeaseHeld, Claimed
    <2>1. b # a /\ worker'[b] = worker[b]  BY <1>7
    <2>2. worker[b].watch \in Watches /\ worker[b].watch # w
      BY <2>1 DEF LeaseInv, LeaseHeld, OneCheckPerWatch, Claimed, w
    <2>3. watch'[worker[b].watch] = watch[worker[b].watch]  BY <1>3, <2>2 DEF LeaseInv, WatchTypeOK
    <2> QED  BY <2>1, <2>2, <2>3 DEF LeaseInv, LeaseHeld, Claimed
  <1>9. OneCheckPerWatch'
    BY <1>7 DEF LeaseInv, OneCheckPerWatch, Claimed
  <1> QED  BY <1>4, <1>5, <1>6, <1>8, <1>9

\* A check goes on.
LEMMA GoToKeepsLeases ==
  ASSUME LeaseInv, NEW a \in Workers, worker[a].phase \in Busy,
         NEW p \in Busy, NEW s \in WatchedStatus, WorkerGoesTo(a, p, s)
  PROVE  /\ watch' \in [Watches -> WatchRow] /\ worker' \in [Workers -> WorkerRow]
         /\ UnsavedAtRest' /\ (\A b \in Workers : LeaseHeld(b)') /\ OneCheckPerWatch'
  <1> DEFINE row == [worker[a] EXCEPT !.phase = p, !.status = s]
  <1>1. watch' = watch /\ worker' = [worker EXCEPT ![a] = row]
    BY DEF WorkerGoesTo, LeaseInv, WatchTypeOK
  <1>2. /\ row \in WorkerRow /\ row.phase = p
        /\ row.watch = worker[a].watch /\ row.elapsed = worker[a].elapsed
    BY DEF LeaseInv, WatchTypeOK, WorkerRow
  <1> HIDE DEF row
  <1>3. worker' \in [Workers -> WorkerRow]
    BY <1>1, <1>2 DEF LeaseInv, WatchTypeOK
  <1>4. ASSUME NEW b \in Workers, worker'[b].phase \in Busy
        PROVE  /\ worker[b].phase \in Busy /\ worker'[b].watch = worker[b].watch
               /\ worker'[b].elapsed = worker[b].elapsed
    <2>1. CASE b = a
      BY <1>1, <1>2, <2>1 DEF LeaseInv, WatchTypeOK
    <2>2. CASE b # a
      BY <1>1, <1>4, <2>2 DEF LeaseInv, WatchTypeOK
    <2> QED  BY <2>1, <2>2
  <1>5. UnsavedAtRest' /\ watch' \in [Watches -> WatchRow]
    BY <1>1 DEF LeaseInv, UnsavedAtRest, WatchTypeOK
  <1>6. \A b \in Workers : LeaseHeld(b)'
    <2> SUFFICES ASSUME NEW b \in Workers, worker'[b].phase \in Busy
                 PROVE  /\ worker'[b].watch \in Watches
                        /\ watch'[worker'[b].watch].lease = Lease - worker'[b].elapsed
      BY DEF LeaseHeld, Claimed
    <2>1. /\ worker[b].phase \in Busy /\ worker'[b].watch = worker[b].watch
          /\ worker'[b].elapsed = worker[b].elapsed
      BY <1>4
    <2>2. /\ worker[b].watch \in Watches
          /\ watch[worker[b].watch].lease = Lease - worker[b].elapsed
      BY <2>1 DEF LeaseInv, LeaseHeld, Claimed
    <2> QED  BY <1>1, <2>1, <2>2
  <1>7. OneCheckPerWatch'
    <2> SUFFICES ASSUME NEW b \in Workers, NEW c \in Workers, worker'[b].phase \in Busy,
                        worker'[c].phase \in Busy, worker'[b].watch = worker'[c].watch
                 PROVE  b = c
      BY DEF OneCheckPerWatch, Claimed
    <2>1. /\ worker[b].phase \in Busy /\ worker'[b].watch = worker[b].watch
          /\ worker[c].phase \in Busy /\ worker'[c].watch = worker[c].watch
      BY <1>4
    <2> QED  BY <2>1 DEF LeaseInv, OneCheckPerWatch, Claimed
  <1> QED  BY <1>3, <1>5, <1>6, <1>7

\* Only a watch whose lease has run out is claimed.
LEMMA ClaimKeepsLeases ==
  ASSUME LeaseInv, NEW a \in Workers, Claim(a)
  PROVE  /\ watch' \in [Watches -> WatchRow] /\ worker' \in [Workers -> WorkerRow]
         /\ UnsavedAtRest' /\ (\A b \in Workers : LeaseHeld(b)') /\ OneCheckPerWatch'
  <1> DEFINE renewed(w) == [phase |-> "reading", watch |-> w, status |-> "open", elapsed |-> 0]
  <1>1. PICK w \in Watches :
          /\ LongestDue(w)
          /\ watch' = [v \in Watches |-> IF v = w THEN Leased(v) ELSE Swept(v)]
          /\ worker' = [worker EXCEPT ![a] = renewed(w)]
    BY DEF Claim
  <1>2. /\ renewed(w) \in WorkerRow /\ renewed(w).watch = w /\ renewed(w).elapsed = 0
        /\ renewed(w).phase \in Busy
    BY Bounds DEF WorkerRow, Busy, WatchedStatus
  <1> HIDE DEF renewed
  <1>3. watch[w].active /\ watch[w].lease = 0
    BY <1>1 DEF LongestDue, ClaimableWatch
  <1>4. Leased(w) \in WatchRow /\ Leased(w).lease = Lease /\ Leased(w).saved
    BY <1>3, Bounds DEF Leased, WatchRow, LeaseInv, WatchTypeOK, UnsavedAtRest
  <1>5. \A v \in Watches : v # w => watch'[v] \in WatchRow /\ watch'[v].lease = watch[v].lease
    BY <1>1, SweptRow DEF LeaseInv
  <1>6. watch' \in [Watches -> WatchRow] /\ watch'[w] = Leased(w)
    BY <1>1, <1>4, <1>5
  <1>7. worker' \in [Workers -> WorkerRow]
    BY <1>1, <1>2 DEF LeaseInv, WatchTypeOK
  <1>8. UnsavedAtRest'
    <2> SUFFICES ASSUME NEW v \in Watches, ~watch'[v].saved
                 PROVE  ~watch'[v].active /\ watch'[v].lease = 0
      BY DEF UnsavedAtRest
    <2>1. v # w  BY <1>4, <1>6
    <2>2. watch'[v] = Swept(v)  BY <1>1, <2>1
    <2>3. ~watch[v].saved /\ ~Swept(v).active
      BY <2>2 DEF Swept, LeaseInv, UnsavedAtRest, WatchTypeOK, WatchRow
    <2> QED  BY <1>5, <2>1, <2>2, <2>3 DEF LeaseInv, UnsavedAtRest
  <1>9. ASSUME NEW b \in Workers, b # a, worker'[b].phase \in Busy
        PROVE  worker'[b] = worker[b] /\ worker[b].watch \in Watches /\ worker[b].watch # w
    <2>1. worker'[b] = worker[b]  BY <1>1, <1>9 DEF LeaseInv, WatchTypeOK
    <2> QED  BY <1>3, <1>9, <2>1, CheckedIsLeased DEF Claimed
  <1>10. worker'[a] = renewed(w)
    BY <1>1 DEF LeaseInv, WatchTypeOK
  <1>11. \A b \in Workers : LeaseHeld(b)'
    <2> SUFFICES ASSUME NEW b \in Workers, worker'[b].phase \in Busy
                 PROVE  /\ worker'[b].watch \in Watches
                        /\ watch'[worker'[b].watch].lease = Lease - worker'[b].elapsed
      BY DEF LeaseHeld, Claimed
    <2>1. CASE b = a
      BY <1>2, <1>4, <1>6, <1>10, <2>1, Bounds
    <2>2. CASE b # a
      BY <1>5, <1>9, <2>2 DEF LeaseInv, LeaseHeld, Claimed
    <2> QED  BY <2>1, <2>2
  <1>12. OneCheckPerWatch'
    BY <1>2, <1>9, <1>10 DEF LeaseInv, OneCheckPerWatch, Claimed
  <1> QED  BY <1>6, <1>7, <1>8, <1>11, <1>12

\* Time takes as much from a lease as it gives to the check that holds it.
LEMMA TickKeepsLeases ==
  ASSUME LeaseInv, Tick
  PROVE  /\ watch' \in [Watches -> WatchRow] /\ worker' \in [Workers -> WorkerRow]
         /\ UnsavedAtRest' /\ (\A b \in Workers : LeaseHeld(b)') /\ OneCheckPerWatch'
  <1>1. \A w \in Watches :
          /\ watch'[w] \in WatchRow /\ watch'[w].lease = TimeLess(watch[w].lease)
          /\ watch'[w].saved = watch[w].saved /\ watch'[w].active = watch[w].active
    <2> SUFFICES ASSUME NEW w \in Watches
                 PROVE  /\ watch'[w] \in WatchRow /\ watch'[w].lease = TimeLess(watch[w].lease)
                        /\ watch'[w].saved = watch[w].saved /\ watch'[w].active = watch[w].active
      OBVIOUS
    <2> DEFINE row == watch[w]
    <2>1. watch'[w] = [row EXCEPT !.due = IF row.due > -MaxLate THEN row.due - 1 ELSE row.due,
                                  !.lease = TimeLess(row.lease)]
      BY DEF Tick
    <2>2. row \in WatchRow  BY DEF LeaseInv, WatchTypeOK
    <2> HIDE DEF row
    <2>3. watch'[w] \in WatchRow  BY <2>1, <2>2, TickedRow
    <2>4. /\ watch'[w].lease = TimeLess(row.lease)
          /\ watch'[w].saved = row.saved /\ watch'[w].active = row.active
      BY <2>1, <2>2 DEF WatchRow
    <2> QED  BY <2>3, <2>4 DEF row
  <1>2. \A b \in Workers :
          /\ worker'[b] \in WorkerRow
          /\ worker'[b].phase = worker[b].phase /\ worker'[b].watch = worker[b].watch
          /\ worker[b].phase \in Busy => worker'[b].elapsed = worker[b].elapsed + 1
    <2> SUFFICES ASSUME NEW b \in Workers
                 PROVE  /\ worker'[b] \in WorkerRow
                        /\ worker'[b].phase = worker[b].phase /\ worker'[b].watch = worker[b].watch
                        /\ worker[b].phase \in Busy => worker'[b].elapsed = worker[b].elapsed + 1
      OBVIOUS
    <2>1. CASE worker[b].phase \in Busy
      <3> DEFINE e == worker[b].elapsed + 1
      <3>1. worker'[b] = [worker[b] EXCEPT !.elapsed = e]  BY <2>1 DEF Tick
      <3>3. worker[b] \in WorkerRow  BY DEF LeaseInv, WatchTypeOK
      <3>5. worker[b].elapsed \in 0 .. NotifyTimeout  BY <3>3 DEF WorkerRow
      <3>6. worker[b].elapsed < NotifyTimeout  BY <2>1 DEF Tick
      <3>2. e \in 0 .. NotifyTimeout  BY <3>5, <3>6, Bounds
      <3> HIDE DEF e
      <3>4. /\ worker'[b] \in WorkerRow /\ worker'[b].elapsed = e
            /\ worker'[b].phase = worker[b].phase /\ worker'[b].watch = worker[b].watch
        BY <3>1, <3>2, <3>3 DEF WorkerRow
      <3> QED  BY <3>4 DEF e
    <2>2. CASE worker[b].phase \notin Busy
      BY <2>2 DEF Tick, LeaseInv, WatchTypeOK
    <2> QED  BY <2>1, <2>2
  <1>3. watch' \in [Watches -> WatchRow] /\ worker' \in [Workers -> WorkerRow]
    BY <1>1, <1>2 DEF Tick
  <1>4. UnsavedAtRest'
    BY <1>1, Bounds DEF LeaseInv, UnsavedAtRest, TimeLess
  <1>5. \A b \in Workers : LeaseHeld(b)'
    <2> SUFFICES ASSUME NEW b \in Workers, worker'[b].phase \in Busy
                 PROVE  /\ worker'[b].watch \in Watches
                        /\ watch'[worker'[b].watch].lease = Lease - worker'[b].elapsed
      BY DEF LeaseHeld, Claimed
    <2>1. worker[b].phase \in Busy  BY <1>2
    <2>2. worker[b].watch \in Watches /\ watch[worker[b].watch].lease > 0
      BY <2>1, CheckedIsLeased DEF Claimed
    <2>3. watch[worker[b].watch].lease = Lease - worker[b].elapsed
      BY <2>1 DEF LeaseInv, LeaseHeld, Claimed
    <2>4. worker[b].elapsed \in Nat  BY DEF LeaseInv, WatchTypeOK, WorkerRow
    <2> QED  BY <1>1, <1>2, <2>1, <2>2, <2>3, <2>4, Bounds DEF TimeLess
  <1>6. OneCheckPerWatch'
    BY <1>2 DEF LeaseInv, OneCheckPerWatch, Claimed
  <1> QED  BY <1>3, <1>4, <1>5, <1>6

-----------------------------------------------------------------------------
(* One step. *)

\* What TypeOK says of the rest of the state.
Elsewhere ==
  /\ watchedChain \in [WatchedJobs -> WatchedStatus]
  /\ attempt \in [WatchedJobs -> [count: 0 .. MaxCalls, wait: 0 .. Spacing]]
  /\ resumed \subseteq Watches
  /\ calls \in [WatchedJobs -> Nat]
  /\ watchFaults \in Nat

Kept ==
  /\ watch' \in [Watches -> WatchRow] /\ worker' \in [Workers -> WorkerRow]
  /\ UnsavedAtRest' /\ (\A a \in Workers : LeaseHeld(a)') /\ OneCheckPerWatch'

LEMMA KeptIsInv ==
  ASSUME Kept, Elsewhere'  PROVE LeaseInv'
  BY DEF Kept, Elsewhere, LeaseInv, WatchTypeOK

LEMMA UserKeepsInv ==
  ASSUME LeaseInv, NEW w \in Watches, Add(w) \/ Pause(w) \/ Resume(w) \/ RunOut(w)
  PROVE  LeaseInv'
  <1>1. watch[w] \in WatchRow  BY DEF LeaseInv, WatchTypeOK
  <1>2. PICK row \in WatchRow :
          /\ watch' = [watch EXCEPT ![w] = row] /\ row.saved /\ row.lease = watch[w].lease
    <2>1. CASE Add(w)
      <3> DEFINE row == [NoRow EXCEPT !.saved = TRUE, !.active = TRUE]
      <3>1. row \in WatchRow /\ row.saved /\ row.lease = 0
        BY NewRow DEF NoRow
      <3>2. watch[w].lease = 0
        BY <2>1 DEF Add, LeaseInv, UnsavedAtRest
      <3> QED  BY <2>1, <3>1, <3>2 DEF Add
    <2>2. CASE Pause(w)
      <3> DEFINE row == [watch[w] EXCEPT !.active = FALSE]
      <3>1. watch' = [watch EXCEPT ![w] = row]  BY <2>2 DEF Pause
      <3>2. row \in WatchRow /\ row.saved /\ row.lease = watch[w].lease
        BY <1>1, <2>2 DEF Pause, WatchRow
      <3> QED  BY <3>1, <3>2
    <2>3. CASE Resume(w)
      BY <1>1, <2>3, ResumedRow DEF Resume, ResumedWatch, WatchRow
    <2>4. CASE RunOut(w)
      <3> DEFINE row == [watch[w] EXCEPT !.over = TRUE]
      <3>1. watch' = [watch EXCEPT ![w] = row]  BY <2>4 DEF RunOut
      <3>2. row \in WatchRow /\ row.saved /\ row.lease = watch[w].lease
        BY <1>1, <2>4 DEF RunOut, WatchRow
      <3> QED  BY <3>1, <3>2
    <2> QED  BY <2>1, <2>2, <2>3, <2>4
  <1>3. worker' = worker /\ Elsewhere'
    BY DEF Add, Pause, Resume, RunOut, LeaseInv, WatchTypeOK, Elsewhere
  <1>4. /\ watch' \in [Watches -> WatchRow]
        /\ \A v \in Watches : watch'[v].lease = watch[v].lease
        /\ \A v \in Watches : ~watch'[v].saved => ~watch'[v].active /\ ~watch[v].saved
    BY <1>2 DEF LeaseInv, WatchTypeOK, UnsavedAtRest
  <1> QED  BY <1>3, <1>4, LeasesUntouched, KeptIsInv DEF Kept, LeaseInv, WatchTypeOK

LEMMA StatusIsState ==
  /\ WatchedStatus \subseteq WatchState /\ Alarms \subseteq WatchState /\ "observing" \in WatchState
  /\ {"error", "acceptance_failed", "overdue", "alert"} \subseteq WatchState
  /\ {"open", "funded", "submitted", "completed", "rejected", "expired"} \subseteq WatchedStatus
  /\ {"reading", "calling", "called", "fetching"} \subseteq Busy
  BY DEF WatchState, WatchedStatus, Alarms, Busy

\* The ways a check ends.
LEMMA EndsKeepLeases ==
  ASSUME LeaseInv, NEW a \in Workers, worker[a].phase \in Busy, FinishError(a) \/ FinishFunded(a)
  PROVE  Kept
  <1>1. Claimed(a) \in Watches /\ watch[Claimed(a)].seen \in WatchedStatus
    BY CheckedIsLeased DEF LeaseInv, WatchTypeOK, WatchRow
  <1>2. CASE FinishError(a)
    BY <1>1, <1>2, FinishKeepsLeases, StatusIsState DEF FinishError, Kept
  <1>3. CASE FinishFunded(a)
    <2>1. PICK s \in {"funded", "overdue"} : Finish(a, s, FALSE, "funded")
      BY <1>3 DEF FinishFunded
    <2> QED  BY <2>1, FinishKeepsLeases, StatusIsState DEF Kept
  <1> QED  BY <1>2, <1>3

LEMMA CheckKeepsInv ==
  ASSUME LeaseInv, NEW a \in Workers, Check(a)
  PROVE  LeaseInv'
  <1>1. worker[a].phase \in Busy
    BY DEF Check, ReadPosition, ReadOrder, Call, NotifyAnswers, Fetch, Busy
  <1>2. Claimed(a) \in Watches /\ watch[Claimed(a)].seen \in WatchedStatus
    BY <1>1, CheckedIsLeased DEF LeaseInv, WatchTypeOK, WatchRow
  <1>3. Elsewhere  BY DEF LeaseInv, WatchTypeOK, Elsewhere
  <1>4. CASE ReadPosition(a)
    <2>1. PICK s \in {"observing", "alert"} : Finish(a, s, FALSE, watch[Claimed(a)].seen)
      BY <1>4 DEF ReadPosition
    <2>2. Kept  BY <1>1, <1>2, <2>1, FinishKeepsLeases, StatusIsState DEF Kept
    <2> QED  BY <1>3, <1>4, <2>2, KeptIsInv DEF ReadPosition, Elsewhere
  <1>5. CASE ReadOrder(a)
    <2> DEFINE j == JobOf[Claimed(a)]
    <2>1. j \in WatchedJobs /\ watchedChain[j] \in WatchedStatus
      BY <1>2, <1>3, <1>5, JournalConstantsOK DEF ReadOrder, IsOrder, JournalConstantsOK, Elsewhere
    <2>2. Kept
      <3>1. CASE Finish(a, watchedChain[j], FALSE, watchedChain[j]) \/ Finish(a, watchedChain[j], TRUE, watchedChain[j])
        BY <1>1, <2>1, <3>1, FinishKeepsLeases, StatusIsState DEF Kept
      <3>2. CASE WorkerGoesTo(a, "calling", watchedChain[j]) \/ WorkerGoesTo(a, "fetching", watchedChain[j])
        BY <1>1, <2>1, <3>2, GoToKeepsLeases, StatusIsState DEF Kept
      <3>3. CASE FinishFunded(a)
        BY <1>1, <3>3, EndsKeepLeases
      <3> QED  BY <1>5, <3>1, <3>2, <3>3 DEF ReadOrder
    <2>3. attempt' \in [WatchedJobs -> [count: 0 .. MaxCalls, wait: 0 .. Spacing]]
      <3>1. CASE attempt' = attempt  BY <1>3, <3>1 DEF Elsewhere
      <3>2. CASE Reservable(j) /\ Reserve(j)
        <4> DEFINE n == attempt[j].count + 1
        <4>1. n \in 0 .. MaxCalls  BY <1>3, <2>1, <3>2, Bounds DEF Elsewhere, Reservable
        <4>2. attempt' = [attempt EXCEPT ![j] = [count |-> n, wait |-> Spacing]]
          BY <3>2 DEF Reserve
        <4> HIDE DEF n
        <4>3. [count |-> n, wait |-> Spacing] \in [count: 0 .. MaxCalls, wait: 0 .. Spacing]
          BY <4>1, Bounds
        <4> HIDE DEF j
        <4> QED  BY <1>3, <4>2, <4>3 DEF Elsewhere
      <3> QED  BY <1>5, <3>1, <3>2 DEF ReadOrder
    <2> QED  BY <1>3, <1>5, <2>2, <2>3, KeptIsInv DEF ReadOrder, Elsewhere
  <1>6. CASE Call(a)
    <2>1. Kept
      BY <1>1, <1>6, GoToKeepsLeases, EndsKeepLeases, StatusIsState DEF Call, Kept
    <2>2. calls' \in [WatchedJobs -> Nat]
      BY <1>3, <1>6 DEF Call, Elsewhere
    <2> QED  BY <1>3, <1>6, <2>1, <2>2, KeptIsInv DEF Call, Elsewhere
  <1>7. CASE NotifyAnswers(a)
    BY <1>1, <1>3, <1>7, EndsKeepLeases, KeptIsInv DEF NotifyAnswers, Elsewhere
  <1>8. CASE Fetch(a)
    <2>1. worker[a].status \in WatchedStatus  BY DEF LeaseInv, WatchTypeOK, WorkerRow
    <2>2. Kept
      <3>1. CASE \E t \in BOOLEAN : Finish(a, worker[a].status, t, worker[a].status)
        BY <1>1, <2>1, <3>1, FinishKeepsLeases, StatusIsState DEF Kept
      <3>2. CASE Finish(a, "acceptance_failed", FALSE, worker[a].status)
        BY <1>1, <2>1, <3>2, FinishKeepsLeases, StatusIsState DEF Kept
      <3>3. CASE FinishError(a)  BY <1>1, <3>3, EndsKeepLeases
      <3> QED  BY <1>8, <3>1, <3>2, <3>3 DEF Fetch
    <2> QED  BY <1>3, <1>8, <2>2, KeptIsInv DEF Fetch, Elsewhere
  <1> QED  BY <1>4, <1>5, <1>6, <1>7, <1>8 DEF Check

LEMMA WorkerKeepsInv ==
  ASSUME LeaseInv, NEW a \in Workers, WorkerStep(a)
  PROVE  LeaseInv'
  <1>1. Elsewhere  BY DEF LeaseInv, WatchTypeOK, Elsewhere
  <1>2. CASE Claim(a)
    BY <1>1, <1>2, ClaimKeepsLeases, KeptIsInv DEF Claim, Kept, Elsewhere
  <1>3. CASE ClaimNothing(a)
    <2>1. \A w \in Watches : watch'[w] = Swept(w) /\ watch'[w] \in WatchRow
                              /\ watch'[w].lease = watch[w].lease
      BY <1>3, SweptRow DEF ClaimNothing, LeaseInv
    <2>2. watch' \in [Watches -> WatchRow]
      BY <1>3, <2>1 DEF ClaimNothing
    <2>3. \A w \in Watches : ~watch'[w].saved => ~watch'[w].active /\ ~watch[w].saved
      BY <2>1 DEF Swept, LeaseInv, UnsavedAtRest, WatchTypeOK, WatchRow
    <2>4. worker' = worker /\ Elsewhere'  BY <1>1, <1>3 DEF ClaimNothing, Elsewhere
    <2>5. worker' \in [Workers -> WorkerRow]  BY <2>4 DEF LeaseInv, WatchTypeOK
    <2> QED  BY <2>1, <2>2, <2>3, <2>4, <2>5, LeasesUntouched, KeptIsInv DEF Kept
  <1>4. CASE SourceFails(a) \/ CheckTimesOut(a)
    <2>1. worker[a].phase \in Busy /\ FinishError(a)
      BY <1>4 DEF SourceFails, CheckTimesOut
    <2>2. Elsewhere'
      BY <1>1, <1>4 DEF SourceFails, CheckTimesOut, Elsewhere, WatchFault
    <2> QED  BY <2>1, <2>2, EndsKeepLeases, KeptIsInv
  <1>5. CASE Die(a) \/ StartWorker(a)
    <2>1. PICK p \in {"down", "idle"} : worker' = [worker EXCEPT ![a] = Resting(p)]
      BY <1>5 DEF Die, StartWorker
    <2>2. worker' \in [Workers -> WorkerRow]
      BY <2>1, RestingRow DEF LeaseInv, WatchTypeOK
    <2>3. \A b \in Workers : worker'[b].phase \in Busy => worker'[b] = worker[b]
      BY <2>1, RestingRow DEF LeaseInv, WatchTypeOK
    <2>4. watch' = watch  BY <1>5 DEF Die, StartWorker
    <2>5. UnsavedAtRest' /\ watch' \in [Watches -> WatchRow]
      BY <2>4 DEF LeaseInv, WatchTypeOK, UnsavedAtRest
    <2>6. (\A b \in Workers : LeaseHeld(b)') /\ OneCheckPerWatch'
      BY <2>3, <2>4 DEF LeaseInv, LeaseHeld, OneCheckPerWatch, Claimed
    <2>7. Elsewhere'
      BY <1>1, <1>5 DEF Die, StartWorker, Elsewhere, WatchFault
    <2> QED  BY <2>2, <2>5, <2>6, <2>7, KeptIsInv DEF Kept
  <1> QED  BY <1>2, <1>3, <1>4, <1>5, CheckKeepsInv DEF WorkerStep

LEMMA LeaseStep ==
  ASSUME LeaseInv, [WatchNext]_watchVars  PROVE LeaseInv'
  <1>1. Elsewhere  BY DEF LeaseInv, WatchTypeOK, Elsewhere
  <1>2. CASE \E j \in WatchedJobs : Move(j)
    <2>1. watchedChain' \in [WatchedJobs -> WatchedStatus] /\ worker' = worker /\ watch' = watch
      BY <1>1, <1>2 DEF Move, Elsewhere
    <2>2. Elsewhere'  BY <1>1, <1>2, <2>1 DEF Move, Elsewhere
    <2>3. Kept
      BY <2>1 DEF Kept, LeaseInv, WatchTypeOK, UnsavedAtRest, LeaseHeld, OneCheckPerWatch, Claimed
    <2> QED  BY <2>2, <2>3, KeptIsInv
  <1>3. CASE Tick
    <2>1. \A n \in 0 .. Spacing : TimeLess(n) \in 0 .. Spacing  BY Bounds DEF TimeLess
    <2>2. attempt' \in [WatchedJobs -> [count: 0 .. MaxCalls, wait: 0 .. Spacing]]
      BY <1>1, <1>3, <2>1 DEF Tick, Elsewhere
    <2> QED  BY <1>1, <1>3, <2>2, TickKeepsLeases, KeptIsInv DEF Tick, Kept, Elsewhere
  <1>4. CASE UNCHANGED watchVars
    BY <1>4 DEF watchVars, LeaseInv, WatchTypeOK, UnsavedAtRest, LeaseHeld, OneCheckPerWatch, Claimed
  <1> QED  BY <1>2, <1>3, <1>4, UserKeepsInv, WorkerKeepsInv DEF WatchNext

LEMMA LeaseInitially ==
  ASSUME WatchInit  PROVE LeaseInv
  <1>1. watch \in [Watches -> WatchRow] /\ worker \in [Workers -> WorkerRow]
    BY NewRow, RestingRow DEF WatchInit
  <1>2. \A a \in Workers : worker[a].phase \notin Busy
    BY RestingRow DEF WatchInit
  <1>3. Elsewhere
    BY Bounds DEF WatchInit, Elsewhere, WatchedStatus
  <1>4. UnsavedAtRest
    BY DEF WatchInit, UnsavedAtRest, NoRow
  <1> QED
    BY <1>1, <1>2, <1>3, <1>4 DEF LeaseInv, WatchTypeOK, Elsewhere, LeaseHeld, OneCheckPerWatch

\* Every row of the journal and every worker stays in its range.
THEOREM JournalTypeCorrect == WatchSpec => []WatchTypeOK
  <1>1. LeaseInv => WatchTypeOK  BY DEF LeaseInv
  <1> QED  BY LeaseInitially, LeaseStep, <1>1, PTL DEF WatchSpec

\* A watch is checked by one worker at a time: the lease that claim takes outlives
\* the deadline that run gives the check.
THEOREM ChecksAreExclusive == WatchSpec => []OneCheckPerWatch
  <1>1. LeaseInv => OneCheckPerWatch  BY DEF LeaseInv
  <1> QED  BY LeaseInitially, LeaseStep, <1>1, PTL DEF WatchSpec

-----------------------------------------------------------------------------
(* The budget of calls. *)

\* The workers that have reserved an attempt and not used it yet.
Holders(j) == {a \in Workers : worker[a].phase = "calling" /\ JobOf[Claimed(a)] = j}

\* Calls made and calls reserved are counted attempts.
BudgetInv == \A j \in WatchedJobs : calls[j] + Cardinality(Holders(j)) <= attempt[j].count

LEMMA HoldersFinite ==
  ASSUME NEW j \in WatchedJobs
  PROVE  IsFiniteSet(Holders(j)) /\ Cardinality(Holders(j)) \in Nat
  BY JournalConstantsOK, FS_Subset, FS_CardinalityType DEF JournalConstantsOK, Holders

LEMMA HoldersFiniteAfter ==
  ASSUME NEW j \in WatchedJobs
  PROVE  IsFiniteSet(Holders(j)') /\ Cardinality(Holders(j)') \in Nat
  <1>1. Holders(j)' \subseteq Workers  BY DEF Holders
  <1> QED  BY <1>1, JournalConstantsOK, FS_Subset, FS_CardinalityType DEF JournalConstantsOK

\* Numbers of TypeOK, at one order.
LEMMA Counted ==
  ASSUME LeaseInv, LeaseInv', NEW j \in WatchedJobs
  PROVE  /\ calls[j] \in Nat /\ calls'[j] \in Nat
         /\ attempt[j].count \in 0 .. MaxCalls /\ attempt'[j].count \in 0 .. MaxCalls
  BY DEF LeaseInv, WatchTypeOK

\* A step that reserves nothing and calls nobody.
LEMMA NothingReserved ==
  ASSUME LeaseInv, LeaseInv', BudgetInv, calls' = calls,
         \A j \in WatchedJobs : attempt'[j].count = attempt[j].count,
         \A b \in Workers : worker'[b].phase = "calling" => worker'[b] = worker[b]
                                                           \/ /\ worker[b].phase = "calling"
                                                              /\ worker'[b].watch = worker[b].watch
  PROVE  BudgetInv'
  <1> SUFFICES ASSUME NEW j \in WatchedJobs
               PROVE  calls'[j] + Cardinality(Holders(j)') <= attempt'[j].count
    BY DEF BudgetInv
  <1>1. Holders(j)' \subseteq Holders(j)  BY DEF Holders, Claimed
  <1>2. Cardinality(Holders(j)') <= Cardinality(Holders(j))
    BY <1>1, HoldersFinite, FS_Subset
  <1>3. calls[j] + Cardinality(Holders(j)) <= attempt[j].count  BY DEF BudgetInv
  <1> QED
    BY <1>2, <1>3, HoldersFinite, HoldersFiniteAfter, Counted, Bounds

\* reserve_notification counts the attempt in the step that makes a holder.
LEMMA ReservationCounted ==
  ASSUME LeaseInv, LeaseInv', BudgetInv, NEW a \in Workers, NEW k \in WatchedJobs, calls' = calls,
         JobOf[Claimed(a)] = k, WorkerGoesTo(a, "calling", "funded"), Reserve(k)
  PROVE  BudgetInv'
  <1> SUFFICES ASSUME NEW j \in WatchedJobs
               PROVE  calls'[j] + Cardinality(Holders(j)') <= attempt'[j].count
    BY DEF BudgetInv
  <1>1. \A b \in Workers : b # a => worker'[b] = worker[b]
    BY DEF WorkerGoesTo, LeaseInv, WatchTypeOK
  <1>2. worker'[a].watch = worker[a].watch
    BY DEF WorkerGoesTo, LeaseInv, WatchTypeOK, WorkerRow
  <1>3. calls[j] + Cardinality(Holders(j)) <= attempt[j].count  BY DEF BudgetInv
  <1>4. CASE j = k
    <2>1. Holders(j)' \subseteq Holders(j) \union {a}
      BY <1>1, <1>2 DEF Holders, Claimed
    <2>2. /\ IsFiniteSet(Holders(j) \union {a})
          /\ Cardinality(Holders(j) \union {a}) <= Cardinality(Holders(j)) + 1
      BY HoldersFinite, FS_AddElement, Bounds
    <2>3. Cardinality(Holders(j)') <= Cardinality(Holders(j)) + 1
      <3>1. Cardinality(Holders(j)') <= Cardinality(Holders(j) \union {a})
        BY <2>1, <2>2, FS_Subset
      <3>2. Cardinality(Holders(j) \union {a}) \in Nat  BY <2>2, FS_CardinalityType
      <3> QED  BY <2>2, <3>1, <3>2, HoldersFinite, HoldersFiniteAfter
    <2>4. attempt'[j].count = attempt[j].count + 1
      BY <1>4 DEF Reserve, LeaseInv, WatchTypeOK
    <2> QED
      BY <1>3, <2>3, <2>4, HoldersFinite, HoldersFiniteAfter, Counted, Bounds
  <1>5. CASE j # k
    <2>1. Holders(j)' \subseteq Holders(j)
      BY <1>1, <1>2, <1>5 DEF Holders, Claimed
    <2>2. Cardinality(Holders(j)') <= Cardinality(Holders(j))
      BY <2>1, HoldersFinite, FS_Subset
    <2>3. attempt'[j].count = attempt[j].count
      BY <1>5 DEF Reserve, LeaseInv, WatchTypeOK
    <2> QED
      BY <1>3, <2>2, <2>3, HoldersFinite, HoldersFiniteAfter, Counted, Bounds
  <1> QED  BY <1>4, <1>5

\* A call uses the reservation of the worker that makes it.
LEMMA CallReserved ==
  ASSUME LeaseInv, LeaseInv', BudgetInv, NEW a \in Workers, NEW k \in WatchedJobs,
         worker[a].phase = "calling", JobOf[Claimed(a)] = k, attempt' = attempt,
         WorkerGoesTo(a, "called", "funded"), calls' = [calls EXCEPT ![k] = calls[k] + 1]
  PROVE  BudgetInv'
  <1> SUFFICES ASSUME NEW j \in WatchedJobs
               PROVE  calls'[j] + Cardinality(Holders(j)') <= attempt'[j].count
    BY DEF BudgetInv
  <1>1. \A b \in Workers : b # a => worker'[b] = worker[b]
    BY DEF WorkerGoesTo, LeaseInv, WatchTypeOK
  <1>2. worker'[a].phase = "called"
    BY DEF WorkerGoesTo, LeaseInv, WatchTypeOK, WorkerRow
  <1>3. calls[j] + Cardinality(Holders(j)) <= attempt[j].count  BY DEF BudgetInv
  <1>4. CASE j = k
    <2>1. a \in Holders(j)  BY <1>4 DEF Holders
    <2>2. Holders(j)' \subseteq Holders(j) \ {a}
      BY <1>1, <1>2 DEF Holders, Claimed
    <2>3. /\ IsFiniteSet(Holders(j) \ {a})
          /\ Cardinality(Holders(j) \ {a}) = Cardinality(Holders(j)) - 1
      BY <2>1, HoldersFinite, FS_RemoveElement
    <2>4. Cardinality(Holders(j)') <= Cardinality(Holders(j)) - 1
      BY <2>2, <2>3, FS_Subset
    <2>5. calls'[j] = calls[j] + 1
      BY <1>4 DEF LeaseInv, WatchTypeOK
    <2> QED
      BY <1>3, <2>4, <2>5, HoldersFinite, HoldersFiniteAfter, Counted, Bounds
  <1>5. CASE j # k
    <2>1. Holders(j)' \subseteq Holders(j)
      BY <1>1, <1>2 DEF Holders, Claimed
    <2>2. Cardinality(Holders(j)') <= Cardinality(Holders(j))
      BY <2>1, HoldersFinite, FS_Subset
    <2>3. calls'[j] = calls[j]
      BY <1>5 DEF LeaseInv, WatchTypeOK
    <2> QED
      BY <1>3, <2>2, <2>3, HoldersFinite, HoldersFiniteAfter, Counted, Bounds
  <1> QED  BY <1>4, <1>5

\* Only the call of a worker, and only its reservation, touch the counts.
LEMMA BudgetStep ==
  ASSUME LeaseInv, LeaseInv', BudgetInv, [WatchNext]_watchVars
  PROVE  BudgetInv'
  <1> DEFINE CountKept ==
        /\ calls' = calls
        /\ \A j \in WatchedJobs : attempt'[j].count = attempt[j].count
        /\ \A b \in Workers : worker'[b].phase = "calling" =>
             \/ worker'[b] = worker[b]
             \/ worker[b].phase = "calling" /\ worker'[b].watch = worker[b].watch
  <1>1. CountKept => BudgetInv'
    BY NothingReserved
  <1>2. ASSUME NEW a \in Workers, NEW row \in WorkerRow, row.phase # "calling",
               worker' = [worker EXCEPT ![a] = row], calls' = calls, attempt' = attempt
        PROVE  CountKept
    BY <1>2 DEF LeaseInv, WatchTypeOK
  <1>3. ASSUME NEW a \in Workers, NEW p \in {"called", "fetching"}, NEW s \in WatchedStatus,
               WorkerGoesTo(a, p, s), calls' = calls, attempt' = attempt
        PROVE  CountKept
    BY <1>3 DEF WorkerGoesTo, LeaseInv, WatchTypeOK, WorkerRow
  <1>4. ASSUME NEW a \in Workers, calls' = calls, attempt' = attempt,
               \E s, c, t : Finish(a, s, t, c)
        PROVE  CountKept
    BY <1>2, <1>4, RestingRow DEF Finish, Resting
  <1>5. ASSUME NEW w \in Watches, Add(w) \/ Pause(w) \/ Resume(w) \/ RunOut(w)  PROVE CountKept
    BY <1>5 DEF Add, Pause, Resume, RunOut
  <1>6. ASSUME NEW j \in WatchedJobs, Move(j)  PROVE CountKept
    BY <1>6 DEF Move
  <1>7. CASE Tick
    <2>1. \A j \in WatchedJobs : attempt'[j].count = attempt[j].count
      <3> SUFFICES ASSUME NEW j \in WatchedJobs  PROVE attempt'[j].count = attempt[j].count
        OBVIOUS
      <3> DEFINE n == TimeLess(attempt[j].wait)
      <3>1. attempt'[j] = [attempt[j] EXCEPT !.wait = n]  BY <1>7 DEF Tick
      <3>2. attempt[j] \in [count: 0 .. MaxCalls, wait: 0 .. Spacing]  BY DEF LeaseInv, WatchTypeOK
      <3> HIDE DEF n
      <3> QED  BY <3>1, <3>2
    <2>2. \A b \in Workers : /\ worker'[b].phase = worker[b].phase
                              /\ worker'[b].watch = worker[b].watch
      <3> SUFFICES ASSUME NEW b \in Workers
                   PROVE  /\ worker'[b].phase = worker[b].phase
                          /\ worker'[b].watch = worker[b].watch
        OBVIOUS
      <3> DEFINE e == worker[b].elapsed + 1
      <3>1. worker[b] \in WorkerRow  BY DEF LeaseInv, WatchTypeOK
      <3>2. worker'[b] = worker[b] \/ worker'[b] = [worker[b] EXCEPT !.elapsed = e]
        BY <1>7 DEF Tick
      <3> HIDE DEF e
      <3> QED  BY <3>1, <3>2 DEF WorkerRow
    <2> QED  BY <1>1, <1>7, <2>1, <2>2 DEF Tick
  <1>8. CASE UNCHANGED watchVars
    BY <1>1, <1>8 DEF watchVars
  <1>9. ASSUME NEW a \in Workers, WorkerStep(a)  PROVE BudgetInv'
    <2>1. CASE Claim(a)
      <3>1. PICK w \in Watches :
              worker' = [worker EXCEPT ![a] = [phase |-> "reading", watch |-> w,
                                               status |-> "open", elapsed |-> 0]]
        BY <2>1 DEF Claim
      <3>2. \A b \in Workers : worker'[b].phase = "calling" => worker'[b] = worker[b]
        BY <3>1 DEF LeaseInv, WatchTypeOK
      <3> QED  BY <1>1, <2>1, <3>2 DEF Claim
    <2>2. CASE ClaimNothing(a)
      BY <1>1, <2>2 DEF ClaimNothing
    <2>3. CASE ReadPosition(a) \/ NotifyAnswers(a) \/ SourceFails(a) \/ CheckTimesOut(a)
      BY <1>1, <1>4, <2>3
         DEF ReadPosition, NotifyAnswers, SourceFails, CheckTimesOut, FinishError, FinishFunded
    <2>4. CASE ReadOrder(a)
      <3>1. CASE WorkerGoesTo(a, "calling", "funded") /\ Reserve(JobOf[Claimed(a)])
        <4>1. JobOf[Claimed(a)] \in WatchedJobs /\ calls' = calls
          <5>1. worker[a].phase \in Busy  BY <2>4 DEF ReadOrder, Busy
          <5> QED
            BY <2>4, <5>1, CheckedIsLeased, JournalConstantsOK
               DEF ReadOrder, IsOrder, JournalConstantsOK
        <4> QED  BY <3>1, <4>1, ReservationCounted
      <3>2. CASE attempt' = attempt /\ \E s, c, t : Finish(a, s, t, c)
        BY <1>1, <1>4, <2>4, <3>2 DEF ReadOrder
      <3>3. CASE attempt' = attempt /\ \E s \in WatchedStatus : WorkerGoesTo(a, "fetching", s)
        BY <1>1, <1>3, <2>4, <3>3 DEF ReadOrder
      <3> QED
        BY <2>4, <3>1, <3>2, <3>3, StatusIsState DEF ReadOrder, FinishFunded
    <2>5. CASE Call(a)
      <3>1. CASE calls' = calls
        BY <1>1, <1>3, <1>4, <2>5, <3>1, StatusIsState
           DEF Call, FinishError, FinishFunded
      <3>2. CASE /\ calls' = [calls EXCEPT ![JobOf[Claimed(a)]] = calls[JobOf[Claimed(a)]] + 1]
                 /\ WorkerGoesTo(a, "called", "funded")
        <4>1. CASE JobOf[Claimed(a)] \in WatchedJobs
          BY <2>5, <3>2, <4>1, CallReserved DEF Call
        <4>2. CASE JobOf[Claimed(a)] \notin WatchedJobs
          <5>1. calls' = calls  BY <3>2, <4>2 DEF LeaseInv, WatchTypeOK
          <5> QED  BY <1>1, <1>3, <2>5, <3>2, <5>1, StatusIsState DEF Call
        <4> QED  BY <4>1, <4>2
      <3> QED  BY <2>5, <3>1, <3>2 DEF Call
    <2>6. CASE Fetch(a)
      BY <1>1, <1>4, <2>6 DEF Fetch, FinishError
    <2>7. CASE Die(a) \/ StartWorker(a)
      BY <1>1, <1>2, <2>7, RestingRow DEF Die, StartWorker, Resting
    <2> QED
      BY <1>9, <2>1, <2>2, <2>3, <2>4, <2>5, <2>6, <2>7 DEF WorkerStep, Check
  <1> HIDE DEF CountKept
  <1> QED  BY <1>1, <1>5, <1>6, <1>7, <1>8, <1>9 DEF WatchNext

\* The provider of an order is called at most MaxCalls times, whatever dies or times
\* out between the reservation of a call and its answer, and however many watches
\* and workers share the order.
THEOREM CallsAreBudgeted == WatchSpec => []CallsWithinBudget
  <1>1. WatchInit => BudgetInv
    <2> SUFFICES ASSUME WatchInit, NEW j \in WatchedJobs
                 PROVE  calls[j] + Cardinality(Holders(j)) <= attempt[j].count
      BY DEF BudgetInv
    <2>1. Holders(j) = {}
      BY RestingRow DEF WatchInit, Holders, Resting
    <2> QED  BY <2>1, FS_EmptySet DEF WatchInit
  <1>2. LeaseInv /\ BudgetInv => CallsWithinBudget
    <2> SUFFICES ASSUME LeaseInv, BudgetInv, NEW j \in WatchedJobs  PROVE calls[j] <= MaxCalls
      BY DEF CallsWithinBudget
    <2>1. calls[j] \in Nat /\ attempt[j].count \in 0 .. MaxCalls
      BY DEF LeaseInv, WatchTypeOK
    <2>2. calls[j] + Cardinality(Holders(j)) <= attempt[j].count  BY DEF BudgetInv
    <2> QED  BY <2>1, <2>2, HoldersFinite, Bounds
  <1>3. LeaseInv /\ BudgetInv /\ [WatchNext]_watchVars => LeaseInv' /\ BudgetInv'
    BY LeaseStep, BudgetStep
  <1> QED  BY LeaseInitially, <1>1, <1>2, <1>3, PTL DEF WatchSpec

\* Every watch is checked by one worker at a time and every provider called at most
\* MaxCalls times, for every number of workers and watches that share an order.
THEOREM ChecksStayBounded == WatchSpec => []ChecksAreBounded
  <1>1. OneCheckPerWatch /\ CallsWithinBudget <=> ChecksAreBounded  BY DEF ChecksAreBounded
  <1> QED  BY <1>1, ChecksAreExclusive, CallsAreBudgeted, PTL

-----------------------------------------------------------------------------
(* What the journal records of an order. *)

\* What is recorded of an order is behind the chain or level with it; the status a
\* check carries from its first read to its end lies between the two; and an order
\* that is closed is neither active nor being checked.
UnsavedUnseen == \A w \in Watches : ~watch[w].saved => watch[w].state = "pending" /\ watch[w].seen = "open"
ClosedAtRest ==
  \A w \in Watches : ClosedOrder(w) =>
    ~watch[w].active /\ \A a \in Workers : worker[a].phase \in Busy => Claimed(a) # w
SeenOnChain == \A w \in Watches : IsOrder(w) => Rank(watch[w].seen) <= Rank(watchedChain[JobOf[w]])
CarriedBy(phase) == IF phase = "fetching" THEN {"submitted", "completed"} ELSE {"funded"}
CarriesStatus(a) ==
  worker[a].phase \in Busy \ {"reading"} =>
    /\ IsOrder(Claimed(a))
    /\ worker[a].status \in CarriedBy(worker[a].phase)
    /\ Rank(watch[Claimed(a)].seen) <= Rank(worker[a].status)
    /\ Rank(worker[a].status) <= Rank(watchedChain[JobOf[Claimed(a)]])

RecordInv == UnsavedUnseen /\ ClosedAtRest /\ SeenOnChain /\ \A a \in Workers : CarriesStatus(a)

SeenAdvances(w) == Rank(watch[w].seen) <= Rank(watch'[w].seen)
StaysClosed(w) == ClosedOrder(w) => ~watch'[w].active /\ watch'[w].state = watch[w].state
Advances == \A w \in Watches : SeenAdvances(w) /\ StaysClosed(w)

LEMMA RankType == \A s : Rank(s) \in 0 .. 3
  BY DEF Rank

LEMMA OrderJob == ASSUME NEW w \in Watches, IsOrder(w)  PROVE JobOf[w] \in WatchedJobs
  BY JournalConstantsOK DEF JournalConstantsOK, IsOrder

\* A step that records nothing: rows keep what they have seen, no order is closed or
\* opened, the chain does not turn back, and a check goes on as it was or begins on a
\* watch that is not closed.
RowKept(w) ==
  /\ watch'[w].seen = watch[w].seen
  /\ StaysClosed(w)
  /\ watch'[w].state # watch[w].state => watch'[w].state \notin {"completed", "rejected"}
  /\ ~watch'[w].saved => ~watch[w].saved /\ watch'[w].state = watch[w].state
CheckKept(b) ==
  worker'[b].phase \in Busy =>
    \/ /\ worker[b].phase = worker'[b].phase /\ worker[b].watch = worker'[b].watch
       /\ worker[b].status = worker'[b].status
    \/ worker'[b].phase = "reading" /\ ~ClosedOrder(worker'[b].watch)

LEMMA NothingRecorded ==
  ASSUME LeaseInv, LeaseInv', RecordInv,
         \A w \in Watches : RowKept(w),
         \A j \in WatchedJobs : Rank(watchedChain[j]) <= Rank(watchedChain'[j]),
         \A b \in Workers : CheckKept(b)
  PROVE  RecordInv' /\ Advances
  <1>1. UnsavedUnseen'
    BY DEF RecordInv, UnsavedUnseen, RowKept
  <1>2. ASSUME NEW w \in Watches, ClosedOrder(w)'  PROVE ClosedOrder(w)
    BY <1>2 DEF ClosedOrder, RowKept
  <1>3. ClosedAtRest'
    <2> SUFFICES ASSUME NEW w \in Watches, ClosedOrder(w)'
                 PROVE  /\ ~watch'[w].active
                        /\ \A a \in Workers : worker'[a].phase \in Busy => worker'[a].watch # w
      BY DEF ClosedAtRest, Claimed
    <2>1. ClosedOrder(w)  BY <1>2
    <2>2. ~watch'[w].active  BY <2>1 DEF RowKept, StaysClosed
    <2>3. ASSUME NEW a \in Workers, worker'[a].phase \in Busy  PROVE worker'[a].watch # w
      BY <2>1, <2>3 DEF CheckKept, RecordInv, ClosedAtRest, Claimed
    <2> QED  BY <2>2, <2>3
  <1>4. SeenOnChain'
    <2> SUFFICES ASSUME NEW w \in Watches, IsOrder(w)
                 PROVE  Rank(watch'[w].seen) <= Rank(watchedChain'[JobOf[w]])
      BY DEF SeenOnChain, IsOrder
    <2>1. Rank(watch'[w].seen) <= Rank(watchedChain[JobOf[w]])
      BY DEF RecordInv, SeenOnChain, RowKept
    <2>2. Rank(watchedChain[JobOf[w]]) <= Rank(watchedChain'[JobOf[w]])
      BY OrderJob
    <2> HIDE DEF Rank
    <2> QED  BY <2>1, <2>2, RankType
  <1>5. ASSUME NEW a \in Workers  PROVE CarriesStatus(a)'
    <2> SUFFICES ASSUME worker'[a].phase \in Busy \ {"reading"}
                 PROVE  /\ IsOrder(worker'[a].watch)
                        /\ worker'[a].status \in CarriedBy(worker'[a].phase)
                        /\ Rank(watch'[worker'[a].watch].seen) <= Rank(worker'[a].status)
                        /\ Rank(worker'[a].status) <= Rank(watchedChain'[JobOf[worker'[a].watch]])
      BY DEF CarriesStatus, Claimed, IsOrder
    <2>1. /\ worker[a].phase = worker'[a].phase /\ worker[a].watch = worker'[a].watch
          /\ worker[a].status = worker'[a].status /\ worker[a].phase \in Busy
      BY DEF CheckKept
    <2>2. worker[a].watch \in Watches
      BY <2>1 DEF LeaseInv, LeaseHeld, Claimed
    <2>3. /\ IsOrder(worker[a].watch)
          /\ worker[a].status \in CarriedBy(worker[a].phase)
          /\ Rank(watch[worker[a].watch].seen) <= Rank(worker[a].status)
          /\ Rank(worker[a].status) <= Rank(watchedChain[JobOf[worker[a].watch]])
      BY <2>1 DEF RecordInv, CarriesStatus, Claimed
    <2>4. Rank(watchedChain[JobOf[worker[a].watch]]) <= Rank(watchedChain'[JobOf[worker[a].watch]])
      BY <2>2, <2>3, OrderJob
    <2>5. watch'[worker[a].watch].seen = watch[worker[a].watch].seen
      BY <2>2 DEF RowKept
    <2> QED  BY <2>1, <2>3, <2>4, <2>5, RankType
  <1>6. Advances
    BY RankType DEF Advances, SeenAdvances, RowKept
  <1> QED  BY <1>1, <1>3, <1>4, <1>5, <1>6 DEF RecordInv

\* The end of a check that closes its order only by a terminal status, and records a
\* status that is neither behind the record nor ahead of the chain.
LEMMA FinishRecords ==
  ASSUME LeaseInv, LeaseInv', RecordInv, NEW a \in Workers, worker[a].phase \in Busy,
         watchedChain' = watchedChain,
         NEW s \in WatchState, NEW t \in BOOLEAN, NEW c \in WatchedStatus, Finish(a, s, t, c),
         IsOrder(Claimed(a)) /\ s \in {"completed", "rejected"} => t,
         Rank(watch[Claimed(a)].seen) <= Rank(c),
         IsOrder(Claimed(a)) => Rank(c) <= Rank(watchedChain[JobOf[Claimed(a)]])
  PROVE  RecordInv' /\ Advances
  <1> DEFINE w == Claimed(a)
             row == Finished(watch[w], s, t, c)
  <1>1. w \in Watches /\ watch[w].lease > 0 /\ watch[w] \in WatchRow /\ watch[w].saved
    BY CheckedIsLeased DEF LeaseInv, UnsavedAtRest, WatchTypeOK
  <1>2. /\ row.saved /\ row.state = s /\ row.seen = c
        /\ t => ~row.active
    BY <1>1 DEF Finished, WatchRow
  <1>3. watch' = [watch EXCEPT ![w] = row] /\ worker' = [worker EXCEPT ![a] = Resting("idle")]
    BY DEF Finish
  <1>4. ~ClosedOrder(w)
    BY <1>1 DEF RecordInv, ClosedAtRest, Claimed
  <1>5. /\ watch'[w] = row
        /\ \A v \in Watches : v # w => watch'[v] = watch[v]
    BY <1>1, <1>3 DEF LeaseInv, WatchTypeOK
  <1>6. \A b \in Workers : worker'[b].phase \in Busy =>
          b # a /\ worker'[b] = worker[b] /\ worker[b].watch # w /\ worker[b].watch \in Watches
    <2> SUFFICES ASSUME NEW b \in Workers, worker'[b].phase \in Busy
                 PROVE  /\ b # a /\ worker'[b] = worker[b]
                        /\ worker[b].watch # w /\ worker[b].watch \in Watches
      OBVIOUS
    <2>1. b # a /\ worker'[b] = worker[b]
      BY <1>3, RestingRow DEF LeaseInv, WatchTypeOK
    <2>2. worker[b].watch # w /\ worker[b].watch \in Watches
      BY <2>1 DEF LeaseInv, OneCheckPerWatch, LeaseHeld, Claimed
    <2> QED  BY <2>1, <2>2
  <1>7. IsOrder(w) => Rank(c) <= Rank(watchedChain[JobOf[w]])
    OBVIOUS
  <1>8. Rank(watch[w].seen) <= Rank(c)
    OBVIOUS
  <1>9. IsOrder(w) /\ s \in {"completed", "rejected"} => t
    OBVIOUS
  <1> HIDE DEF w, row
  <1>10. UnsavedUnseen'
    BY <1>2, <1>5 DEF RecordInv, UnsavedUnseen
  <1>11. ClosedAtRest'
    <2> SUFFICES ASSUME NEW v \in Watches, ClosedOrder(v)'
                 PROVE  /\ ~watch'[v].active
                        /\ \A b \in Workers : worker'[b].phase \in Busy => worker'[b].watch # v
      BY DEF ClosedAtRest, Claimed
    <2>1. CASE v = w
      <3>1. IsOrder(w) /\ s \in {"completed", "rejected"}
        BY <1>2, <1>5, <2>1 DEF ClosedOrder, IsOrder
      <3> QED  BY <1>2, <1>5, <1>6, <1>9, <2>1, <3>1
    <2>2. CASE v # w
      <3>1. ClosedOrder(v)  BY <1>5, <2>2 DEF ClosedOrder, IsOrder
      <3> QED  BY <1>5, <1>6, <2>2, <3>1 DEF RecordInv, ClosedAtRest, Claimed
    <2> QED  BY <2>1, <2>2
  <1>12. SeenOnChain'
    <2> SUFFICES ASSUME NEW v \in Watches, IsOrder(v)
                 PROVE  Rank(watch'[v].seen) <= Rank(watchedChain[JobOf[v]])
      BY DEF SeenOnChain, IsOrder
    <2>1. CASE v = w  BY <1>2, <1>5, <1>7, <2>1
    <2>2. CASE v # w  BY <1>5, <2>2 DEF RecordInv, SeenOnChain
    <2> QED  BY <2>1, <2>2
  <1>13. ASSUME NEW b \in Workers  PROVE CarriesStatus(b)'
    <2> SUFFICES ASSUME worker'[b].phase \in Busy \ {"reading"}
                 PROVE  /\ IsOrder(worker'[b].watch)
                        /\ worker'[b].status \in CarriedBy(worker'[b].phase)
                        /\ Rank(watch'[worker'[b].watch].seen) <= Rank(worker'[b].status)
                        /\ Rank(worker'[b].status) <= Rank(watchedChain[JobOf[worker'[b].watch]])
      BY DEF CarriesStatus, Claimed, IsOrder
    <2>1. worker'[b] = worker[b] /\ worker[b].watch # w /\ worker[b].watch \in Watches
      BY <1>6
    <2>2. watch'[worker[b].watch] = watch[worker[b].watch]  BY <1>5, <2>1
    <2> QED  BY <2>1, <2>2 DEF RecordInv, CarriesStatus, Claimed
  <1>14. Advances
    <2> SUFFICES ASSUME NEW v \in Watches  PROVE SeenAdvances(v) /\ StaysClosed(v)
      BY DEF Advances
    <2>1. CASE v = w
      BY <1>2, <1>4, <1>5, <1>8, <2>1 DEF SeenAdvances, StaysClosed
    <2>2. CASE v # w
      <3>1. SeenAdvances(v)  BY <1>5, <2>2, RankType DEF SeenAdvances
      <3>2. StaysClosed(v)  BY <1>5, <2>2 DEF StaysClosed, RecordInv, ClosedAtRest
      <3> QED  BY <3>1, <3>2
    <2> QED  BY <2>1, <2>2
  <1> QED  BY <1>10, <1>11, <1>12, <1>13, <1>14 DEF RecordInv

\* A check goes on with a status that lies between the record and the chain.
LEMMA GoToRecords ==
  ASSUME LeaseInv, LeaseInv', RecordInv, NEW a \in Workers, worker[a].phase \in Busy,
         watchedChain' = watchedChain, NEW p \in Busy \ {"reading"}, NEW s \in WatchedStatus,
         WorkerGoesTo(a, p, s), IsOrder(Claimed(a)), s \in CarriedBy(p),
         Rank(watch[Claimed(a)].seen) <= Rank(s),
         Rank(s) <= Rank(watchedChain[JobOf[Claimed(a)]])
  PROVE  RecordInv' /\ Advances
  <1>1. /\ watch' = watch
        /\ worker'[a].phase = p /\ worker'[a].status = s /\ worker'[a].watch = worker[a].watch
        /\ \A b \in Workers : b # a => worker'[b] = worker[b]
    BY DEF WorkerGoesTo, LeaseInv, WatchTypeOK, WorkerRow
  <1>2. UnsavedUnseen' /\ SeenOnChain'
    BY <1>1 DEF RecordInv, UnsavedUnseen, SeenOnChain, IsOrder
  <1>3. ClosedAtRest'
    <2> SUFFICES ASSUME NEW w \in Watches, ClosedOrder(w)
                 PROVE  /\ ~watch[w].active
                        /\ \A b \in Workers : worker'[b].phase \in Busy => worker'[b].watch # w
      BY <1>1 DEF ClosedAtRest, Claimed, ClosedOrder
    <2> QED  BY <1>1 DEF RecordInv, ClosedAtRest, Claimed
  <1>4. ASSUME NEW b \in Workers  PROVE CarriesStatus(b)'
    <2>1. CASE b = a
      BY <1>1, <2>1 DEF CarriesStatus, Claimed, IsOrder
    <2>2. CASE b # a
      <3>1. worker'[b] = worker[b] /\ CarriesStatus(b)  BY <1>1, <2>2 DEF RecordInv
      <3> QED  BY <1>1, <3>1 DEF CarriesStatus, Claimed, IsOrder
    <2> QED  BY <2>1, <2>2
  <1>5. Advances
    BY <1>1, RankType DEF Advances, SeenAdvances, StaysClosed, RecordInv, ClosedAtRest
  <1> QED  BY <1>2, <1>3, <1>4, <1>5 DEF RecordInv

\* The user and the clock of a watch record nothing.
LEMMA UserRecords ==
  ASSUME LeaseInv, LeaseInv', RecordInv, NEW w \in Watches,
         Add(w) \/ Pause(w) \/ Resume(w) \/ RunOut(w)
  PROVE  RecordInv' /\ Advances
  <1>1. watchedChain' = watchedChain /\ worker' = worker
    BY DEF Add, Pause, Resume, RunOut
  <1>2. \A v \in Watches : v # w => watch'[v] = watch[v]
    BY DEF Add, Pause, Resume, RunOut, LeaseInv, WatchTypeOK
  <1>3. watch[w] \in WatchRow
    BY DEF LeaseInv, WatchTypeOK
  <1>4. RowKept(w)
    <2>1. CASE Add(w)
      <3>1. watch'[w] = [NoRow EXCEPT !.saved = TRUE, !.active = TRUE]
        BY <2>1 DEF Add, LeaseInv, WatchTypeOK
      <3>2. watch'[w].saved /\ watch'[w].state = "pending" /\ watch'[w].seen = "open"
        BY <3>1 DEF NoRow
      <3>3. watch[w].state = "pending" /\ watch[w].seen = "open"
        BY <2>1 DEF Add, RecordInv, UnsavedUnseen
      <3> QED  BY <3>2, <3>3 DEF RowKept, StaysClosed, ClosedOrder
    <2>2. CASE Pause(w)
      <3>1. watch'[w] = [watch[w] EXCEPT !.active = FALSE]
        BY <2>2 DEF Pause, LeaseInv, WatchTypeOK
      <3>2. /\ ~watch'[w].active /\ watch'[w].saved = watch[w].saved
            /\ watch'[w].state = watch[w].state /\ watch'[w].seen = watch[w].seen
        BY <1>3, <3>1 DEF WatchRow
      <3> QED  BY <3>2 DEF RowKept, StaysClosed
    <2>3. CASE Resume(w)
      <3>1. watch'[w] = ResumedWatch(watch[w]) /\ ~ClosedOrder(w)
        BY <2>3 DEF Resume, LeaseInv, WatchTypeOK, ClosedOrder
      <3>2. /\ watch'[w].saved = watch[w].saved
            /\ watch'[w].state = watch[w].state /\ watch'[w].seen = watch[w].seen
        BY <1>3, <3>1 DEF WatchRow, ResumedWatch
      <3> QED  BY <3>1, <3>2 DEF RowKept, StaysClosed
    <2>4. CASE RunOut(w)
      <3>1. watch'[w] = [watch[w] EXCEPT !.over = TRUE]
        BY <2>4 DEF RunOut, LeaseInv, WatchTypeOK
      <3>2. /\ watch'[w].active = watch[w].active /\ watch'[w].saved = watch[w].saved
            /\ watch'[w].state = watch[w].state /\ watch'[w].seen = watch[w].seen
        BY <1>3, <3>1 DEF WatchRow
      <3> QED  BY <3>2 DEF RowKept, StaysClosed, RecordInv, ClosedAtRest
    <2> QED  BY <2>1, <2>2, <2>3, <2>4
  <1>5. \A v \in Watches : RowKept(v)
    <2>1. ASSUME NEW v \in Watches, v # w  PROVE RowKept(v)
      BY <1>2, <2>1 DEF RowKept, StaysClosed, RecordInv, ClosedAtRest
    <2> QED  BY <1>4, <2>1
  <1>6. \A b \in Workers : CheckKept(b)
    BY <1>1 DEF CheckKept
  <1>7. \A j \in WatchedJobs : Rank(watchedChain[j]) <= Rank(watchedChain'[j])
    BY <1>1, RankType
  <1> QED  BY <1>5, <1>6, <1>7, NothingRecorded

\* A claim takes an active watch, which is no closed order, and ends others.
LEMMA SweptKept ==
  ASSUME LeaseInv, RecordInv, NEW v \in Watches, watch'[v] = Swept(v)
  PROVE  RowKept(v)
  <1>1. watch[v] \in WatchRow
    BY DEF LeaseInv, WatchTypeOK
  <1>2. CASE watch[v].active /\ watch[v].over
    <2>1. watch'[v] = [watch[v] EXCEPT !.active = FALSE, !.state = "expired"]
      BY <1>2 DEF Swept
    <2>2. /\ watch'[v].state = "expired" /\ watch'[v].seen = watch[v].seen
          /\ watch'[v].saved = watch[v].saved
      BY <1>1, <2>1 DEF WatchRow
    <2>3. watch[v].saved /\ ~ClosedOrder(v)
      BY <1>2 DEF LeaseInv, UnsavedAtRest, RecordInv, ClosedAtRest
    <2> QED  BY <1>1, <2>2, <2>3 DEF RowKept, StaysClosed, WatchRow
  <1>3. CASE ~(watch[v].active /\ watch[v].over)
    <2>1. watch'[v] = watch[v]  BY <1>3 DEF Swept
    <2> QED  BY <2>1 DEF RowKept, StaysClosed, RecordInv, ClosedAtRest
  <1> QED  BY <1>2, <1>3

LEMMA ClaimRecords ==
  ASSUME LeaseInv, LeaseInv', RecordInv, NEW a \in Workers, Claim(a) \/ ClaimNothing(a)
  PROVE  RecordInv' /\ Advances
  <1>1. \A j \in WatchedJobs : Rank(watchedChain[j]) <= Rank(watchedChain'[j])
    BY RankType DEF Claim, ClaimNothing
  <1>2. CASE Claim(a)
    <2>1. PICK w \in Watches :
            /\ LongestDue(w)
            /\ watch' = [v \in Watches |-> IF v = w THEN Leased(v) ELSE Swept(v)]
            /\ worker' = [worker EXCEPT ![a] = [phase |-> "reading", watch |-> w,
                                                status |-> "open", elapsed |-> 0]]
      BY <1>2 DEF Claim
    <2>2. ~ClosedOrder(w)
      BY <2>1 DEF LongestDue, ClaimableWatch, RecordInv, ClosedAtRest
    <2>3. RowKept(w)
      <3>1. watch[w] \in WatchRow
        BY DEF LeaseInv, WatchTypeOK
      <3>2. /\ watch'[w].state = watch[w].state /\ watch'[w].seen = watch[w].seen
            /\ watch'[w].saved = watch[w].saved
        BY <2>1, <3>1 DEF Leased, WatchRow
      <3> QED  BY <2>2, <3>2 DEF RowKept, StaysClosed
    <2>4. \A v \in Watches : RowKept(v)
      BY <2>1, <2>3, SweptKept
    <2>5. ASSUME NEW b \in Workers  PROVE CheckKept(b)
      <3>1. CASE b = a
        <4>1. worker'[b].phase = "reading" /\ worker'[b].watch = w
          BY <2>1, <3>1 DEF LeaseInv, WatchTypeOK
        <4> QED  BY <2>2, <4>1 DEF CheckKept
      <3>2. CASE b # a
        <4>1. worker'[b] = worker[b]  BY <2>1, <3>2 DEF LeaseInv, WatchTypeOK
        <4> QED  BY <4>1 DEF CheckKept
      <3> QED  BY <3>1, <3>2
    <2> QED  BY <1>1, <2>4, <2>5, NothingRecorded
  <1>3. CASE ClaimNothing(a)
    <2>1. \A v \in Watches : RowKept(v)
      BY <1>3, SweptKept DEF ClaimNothing
    <2>2. \A b \in Workers : CheckKept(b)
      BY <1>3 DEF ClaimNothing, CheckKept
    <2> QED  BY <1>1, <2>1, <2>2, NothingRecorded
  <1> QED  BY <1>2, <1>3

\* The first read of a check.
LEMMA ReadRecords ==
  ASSUME LeaseInv, LeaseInv', RecordInv, NEW a \in Workers, ReadPosition(a) \/ ReadOrder(a)
  PROVE  RecordInv' /\ Advances
  <1> DEFINE w == Claimed(a)
             s == watchedChain[JobOf[w]]
  <1>1. worker[a].phase \in Busy /\ watchedChain' = watchedChain
    BY DEF ReadPosition, ReadOrder, Busy
  <1>2. w \in Watches
    BY <1>1, CheckedIsLeased
  <1>3. watch[w].seen \in WatchedStatus
    BY <1>2 DEF LeaseInv, WatchTypeOK, WatchRow
  <1>4. IsOrder(w) => Rank(watch[w].seen) <= Rank(s)
    BY <1>2 DEF RecordInv, SeenOnChain
  <1>5. CASE ReadPosition(a)
    <2>1. PICK r \in {"observing", "alert"} : Finish(a, r, FALSE, watch[w].seen)
      BY <1>5 DEF ReadPosition
    <2>2. r \in WatchState /\ ~IsOrder(w)
      BY <1>5 DEF ReadPosition, WatchState, Alarms
    <2>3. Rank(watch[w].seen) <= Rank(watch[w].seen)  BY RankType
    <2> HIDE DEF w
    <2> QED  BY <1>1, <1>3, <2>1, <2>2, <2>3, FinishRecords DEF w
  <1>6. CASE ReadOrder(a)
    <2>1. IsOrder(w) /\ s \in WatchedStatus /\ s \in WatchState
      BY <1>2, <1>6, OrderJob DEF ReadOrder, LeaseInv, WatchTypeOK, WatchState
    <2>2. Rank(s) <= Rank(s)  BY RankType
    <2>3. CASE s = "open" /\ Finish(a, s, FALSE, s)
      BY <1>1, <1>4, <2>1, <2>2, <2>3, FinishRecords
    <2>4. CASE s \in {"rejected", "expired"} /\ Finish(a, s, TRUE, s)
      BY <1>1, <1>4, <2>1, <2>2, <2>4, FinishRecords
    <2>5. CASE s = "funded" /\ WorkerGoesTo(a, "calling", s)
      BY <1>1, <1>4, <2>1, <2>2, <2>5, GoToRecords DEF Busy, CarriedBy
    <2>6. CASE s = "funded" /\ FinishFunded(a)
      <3>1. PICK r \in {"funded", "overdue"} : Finish(a, r, FALSE, "funded")
        BY <2>6 DEF FinishFunded
      <3>2. r \in WatchState /\ "funded" \in WatchedStatus
        BY DEF WatchState, WatchedStatus, Alarms
      <3> QED  BY <1>1, <1>4, <2>1, <2>2, <2>6, <3>1, <3>2, FinishRecords
    <2>7. CASE s \in {"submitted", "completed"} /\ WorkerGoesTo(a, "fetching", s)
      BY <1>1, <1>4, <2>1, <2>2, <2>7, GoToRecords DEF Busy, CarriedBy
    <2> QED  BY <1>6, <2>3, <2>4, <2>5, <2>6, <2>7 DEF ReadOrder
  <1> QED  BY <1>5, <1>6

\* A check that ends in an error records no status.
LEMMA ErrorRecords ==
  ASSUME LeaseInv, LeaseInv', RecordInv, NEW a \in Workers, worker[a].phase \in Busy,
         watchedChain' = watchedChain, FinishError(a)
  PROVE  RecordInv' /\ Advances
  <1>1. Claimed(a) \in Watches
    BY CheckedIsLeased
  <1>2. watch[Claimed(a)].seen \in WatchedStatus /\ "error" \in WatchState
    BY <1>1 DEF LeaseInv, WatchTypeOK, WatchRow, WatchState, Alarms
  <1>3. IsOrder(Claimed(a)) => Rank(watch[Claimed(a)].seen) <= Rank(watchedChain[JobOf[Claimed(a)]])
    BY <1>1 DEF RecordInv, SeenOnChain
  <1>4. Rank(watch[Claimed(a)].seen) <= Rank(watch[Claimed(a)].seen)  BY RankType
  <1>5. Finish(a, "error", FALSE, watch[Claimed(a)].seen)  BY DEF FinishError
  <1> QED  BY <1>2, <1>3, <1>4, <1>5, FinishRecords

\* The later steps of a check.
LEMMA AnswerRecords ==
  ASSUME LeaseInv, LeaseInv', RecordInv, NEW a \in Workers,
         Call(a) \/ NotifyAnswers(a) \/ Fetch(a)
  PROVE  RecordInv' /\ Advances
  <1> DEFINE w == Claimed(a)
             s == worker[a].status
  <1>1. worker[a].phase \in Busy /\ worker[a].phase # "reading" /\ watchedChain' = watchedChain
    BY DEF Call, NotifyAnswers, Fetch, Busy
  <1>2. /\ IsOrder(w) /\ Rank(watch[w].seen) <= Rank(s) /\ Rank(s) <= Rank(watchedChain[JobOf[w]])
        /\ s \in CarriedBy(worker[a].phase)
    BY <1>1 DEF RecordInv, CarriesStatus
  <1>3. s \in WatchedStatus /\ s \in WatchState
    BY DEF LeaseInv, WatchTypeOK, WorkerRow, WatchState
  <1>4. CASE FinishError(a)
    BY <1>1, <1>4, ErrorRecords
  <1>5. CASE FinishFunded(a) /\ s = "funded"
    <2>1. PICK r \in {"funded", "overdue"} : Finish(a, r, FALSE, "funded")
      BY <1>5 DEF FinishFunded
    <2>2. r \in WatchState /\ r \notin {"completed", "rejected"}
      BY DEF WatchState, WatchedStatus, Alarms
    <2> QED  BY <1>1, <1>2, <1>3, <1>5, <2>1, <2>2, FinishRecords
  <1>6. CASE WorkerGoesTo(a, "called", "funded") /\ s = "funded"
    BY <1>1, <1>2, <1>3, <1>6, GoToRecords DEF Busy, CarriedBy
  <1>7. CASE Fetch(a)
    <2> s # "rejected"
      BY <1>2, <1>7 DEF Fetch, CarriedBy
    <2>1. CASE Finish(a, s, s = "completed", s)
      BY <1>1, <1>2, <1>3, <2>1, FinishRecords
    <2>2. CASE Finish(a, "acceptance_failed", FALSE, s)
      <3>1. "acceptance_failed" \in WatchState  BY DEF WatchState, Alarms
      <3> QED  BY <1>1, <1>2, <1>3, <2>2, <3>1, FinishRecords
    <2> QED  BY <1>4, <1>7, <2>1, <2>2 DEF Fetch
  <1> QED
    BY <1>2, <1>4, <1>5, <1>6, <1>7 DEF Call, NotifyAnswers, CarriedBy

\* The clock, the chain and the workers' lives record nothing.
LEMMA RestRecords ==
  ASSUME LeaseInv, LeaseInv', RecordInv,
         \/ Tick \/ UNCHANGED watchVars
         \/ \E j \in WatchedJobs : Move(j)
         \/ \E a \in Workers : Die(a) \/ StartWorker(a)
  PROVE  RecordInv' /\ Advances
  <1>1. \A w \in Watches : watch'[w].state = watch[w].state /\ watch'[w].seen = watch[w].seen
                          /\ watch'[w].active = watch[w].active /\ watch'[w].saved = watch[w].saved
    <2> SUFFICES ASSUME NEW w \in Watches
                 PROVE  /\ watch'[w].state = watch[w].state /\ watch'[w].seen = watch[w].seen
                        /\ watch'[w].active = watch[w].active /\ watch'[w].saved = watch[w].saved
      OBVIOUS
    <2>1. CASE Tick
      <3> DEFINE d == IF watch[w].due > -MaxLate THEN watch[w].due - 1 ELSE watch[w].due
                 n == TimeLess(watch[w].lease)
      <3>1. watch'[w] = [watch[w] EXCEPT !.due = d, !.lease = n]  BY <2>1 DEF Tick
      <3>2. watch[w] \in WatchRow  BY DEF LeaseInv, WatchTypeOK
      <3> HIDE DEF d, n
      <3> QED  BY <3>1, <3>2 DEF WatchRow
    <2>2. CASE watch' = watch
      BY <2>2
    <2> QED  BY <2>1, <2>2 DEF watchVars, Move, Die, StartWorker
  <1>2. \A w \in Watches : RowKept(w)
    BY <1>1 DEF RowKept, StaysClosed, RecordInv, ClosedAtRest
  <1>3. \A b \in Workers : CheckKept(b)
    <2> SUFFICES ASSUME NEW b \in Workers  PROVE CheckKept(b)
      OBVIOUS
    <2>1. CASE Tick
      <3> DEFINE e == worker[b].elapsed + 1
      <3>1. worker'[b] = worker[b] \/ worker'[b] = [worker[b] EXCEPT !.elapsed = e]
        BY <2>1 DEF Tick
      <3>2. worker[b] \in WorkerRow  BY DEF LeaseInv, WatchTypeOK
      <3> HIDE DEF e
      <3>3. /\ worker'[b].phase = worker[b].phase /\ worker'[b].watch = worker[b].watch
            /\ worker'[b].status = worker[b].status
        BY <3>1, <3>2 DEF WorkerRow
      <3> QED  BY <3>3 DEF CheckKept
    <2>2. CASE worker' = worker
      BY <2>2 DEF CheckKept
    <2>3. CASE \E a \in Workers : Die(a) \/ StartWorker(a)
      <3>1. worker'[b] = worker[b] \/ worker'[b].phase \notin Busy
        BY <2>3, RestingRow DEF Die, StartWorker, LeaseInv, WatchTypeOK
      <3> QED  BY <3>1 DEF CheckKept
    <2> QED  BY <2>1, <2>2, <2>3 DEF watchVars, Move
  <1>4. \A j \in WatchedJobs : Rank(watchedChain[j]) <= Rank(watchedChain'[j])
    <2> SUFFICES ASSUME NEW j \in WatchedJobs
                 PROVE  Rank(watchedChain[j]) <= Rank(watchedChain'[j])
      OBVIOUS
    <2>1. CASE watchedChain' = watchedChain
      BY <2>1, RankType
    <2>2. CASE \E k \in WatchedJobs : Move(k)
      <3>1. PICK k \in WatchedJobs, s \in WatchedStatus :
              <<watchedChain[k], s>> \in ChainMove /\ watchedChain' = [watchedChain EXCEPT ![k] = s]
        BY <2>2 DEF Move
      <3>2. CASE k = j
        <4>1. watchedChain'[j] = s  BY <3>1, <3>2 DEF LeaseInv, WatchTypeOK
        <4>2. Rank(watchedChain[j]) <= Rank(s)
          BY <3>1, <3>2 DEF ChainMove, Rank
        <4> QED  BY <4>1, <4>2
      <3>3. CASE k # j
        <4>1. watchedChain'[j] = watchedChain[j]  BY <3>1, <3>3 DEF LeaseInv, WatchTypeOK
        <4> QED  BY <4>1, RankType
      <3> QED  BY <3>2, <3>3
    <2> QED  BY <2>1, <2>2 DEF watchVars, Tick, Die, StartWorker
  <1> QED  BY <1>2, <1>3, <1>4, NothingRecorded

LEMMA RecordStep ==
  ASSUME LeaseInv, LeaseInv', RecordInv, [WatchNext]_watchVars
  PROVE  RecordInv' /\ Advances
  <1>1. ASSUME NEW a \in Workers, SourceFails(a) \/ CheckTimesOut(a)
        PROVE  RecordInv' /\ Advances
    BY <1>1, ErrorRecords DEF SourceFails, CheckTimesOut
  <1>2. ASSUME NEW a \in Workers, WorkerStep(a)  PROVE RecordInv' /\ Advances
    BY <1>1, <1>2, ClaimRecords, ReadRecords, AnswerRecords, RestRecords
       DEF WorkerStep, Check
  <1> QED  BY <1>2, UserRecords, RestRecords DEF WatchNext

\* What the journal records of an order never goes back, and an order it has closed
\* stays closed: a check carries a status that lies between the record and the chain,
\* and a closed order is in nobody's hands.
THEOREM JournalOnlyAdvances == WatchSpec => RecordsOnlyAdvance
  <1>1. WatchInit => RecordInv
    <2> SUFFICES ASSUME WatchInit  PROVE RecordInv
      OBVIOUS
    <2>1. \A w \in Watches : ~watch[w].active /\ watch[w].state = "pending" /\ watch[w].seen = "open"
      BY DEF WatchInit, NoRow
    <2>2. \A a \in Workers : worker[a].phase \notin Busy
      BY RestingRow DEF WatchInit
    <2>3. SeenOnChain
      <3>1. \A w \in Watches : IsOrder(w) => watchedChain[JobOf[w]] = "open"
        BY OrderJob DEF WatchInit
      <3> QED  BY <2>1, <3>1, RankType DEF SeenOnChain
    <2> QED
      BY <2>1, <2>2, <2>3 DEF RecordInv, UnsavedUnseen, ClosedAtRest, ClosedOrder, CarriesStatus
  <1>2. Advances =>
          /\ \A w \in Watches : Rank(watch[w].seen) <= Rank(watch[w].seen')
          /\ \A w \in Watches : ClosedOrder(w) =>
               ~watch'[w].active /\ watch'[w].state = watch[w].state
    BY DEF Advances, SeenAdvances, StaysClosed
  <1>3. LeaseInv /\ RecordInv /\ [WatchNext]_watchVars =>
          /\ LeaseInv' /\ RecordInv'
          /\ [\A w \in Watches : Rank(watch[w].seen) <= Rank(watch[w].seen')]_watchVars
          /\ [\A w \in Watches : ClosedOrder(w) =>
               ~watch'[w].active /\ watch'[w].state = watch[w].state]_watchVars
    BY <1>2, LeaseStep, RecordStep
  <1> QED
    BY LeaseInitially, <1>1, <1>3, PTL
       DEF WatchSpec, RecordsOnlyAdvance, RecordNeverRegresses, ClosedOrderStaysClosed

-----------------------------------------------------------------------------
(* PushOutbox *)

\* A row, whatever its deadline: no property depends on how long an alert waits.
IsRow(r) ==
  r \in [state: {"none", "pending", "sending"} \union Final, attempts: 0 .. MaxAttempts,
         due: {r.due}, lease: {r.lease}, generation: Nat, since: 0 .. Minute]

InQueue(r) == r.state \in {"pending", "sending"}
Recent(r) == r.state = "accepted" /\ r.since > 0

\* What a row may become when no send is counted.
AlertKept(r, s) ==
  /\ IsRow(s)
  /\ s.attempts = r.attempts
  /\ Recent(s) => Recent(r)
  /\ r.state \in Final => s.state = r.state
  /\ InQueue(s) => InQueue(r) /\ s.generation = r.generation
  /\ s.state = "none" <=> r.state = "none"

LEMMA PushBounds ==
  /\ MaxAttempts = 3 /\ Minute = 1 /\ LeaseTime = 1 /\ MaxBinds \in Nat /\ NoAlert \notin Alerts
  /\ IsFiniteSet(Alerts) /\ IsFiniteSet(Pushers)
  BY PushConstantsOK DEF PushConstantsOK, MaxAttempts, Minute, LeaseTime

LEMMA AlertRowKept == ASSUME NEW r, IsRow(r) PROVE AlertKept(r, r)
  BY DEF AlertKept, IsRow

\* A row that leaves the queue, or only changes its lease or its deadline.
LEMMA RowLeaves ==
  ASSUME NEW r, IsRow(r), InQueue(r), NEW s \in {"failed", "expired", "cancelled"}
  PROVE  AlertKept(r, [r EXCEPT !.state = s])
  <1> DEFINE q == [r EXCEPT !.state = s]
  <1>1. q.state = s /\ q.attempts = r.attempts /\ q.due = r.due /\ q.lease = r.lease
        /\ q.generation = r.generation /\ q.since = r.since
    BY DEF IsRow
  <1>2. IsRow(q)
    BY DEF IsRow, Final
  <1>3. s # "accepted" /\ s # "none" /\ ~InQueue(q) /\ r.state \notin Final /\ r.state # "none"
    BY <1>1 DEF InQueue, Final
  <1> HIDE DEF q
  <1>4. AlertKept(r, q)
    BY <1>1, <1>2, <1>3 DEF AlertKept, Recent
  <1> QED
    BY <1>4 DEF q

LEMMA RowTicks ==
  ASSUME NEW r, IsRow(r)
  PROVE  AlertKept(r, [r EXCEPT !.due = OneLess(r.due), !.lease = OneLess(r.lease), !.since = OneLess(r.since)])
  <1> DEFINE q == [r EXCEPT !.due = OneLess(r.due), !.lease = OneLess(r.lease), !.since = OneLess(r.since)]
  <1>1. OneLess(r.since) \in 0 .. Minute /\ (OneLess(r.since) > 0 => r.since > 0)
    BY PushBounds DEF OneLess, IsRow
  <1>2. q.state = r.state /\ q.attempts = r.attempts /\ q.generation = r.generation
        /\ q.since = OneLess(r.since)
    BY DEF IsRow
  <1>3. IsRow(q)
    BY <1>1 DEF IsRow
  <1> HIDE DEF q
  <1>4. AlertKept(r, q)
    BY <1>1, <1>2, <1>3 DEF AlertKept, Recent, InQueue
  <1> QED
    BY <1>4 DEF q

LEMMA RowIsKept ==
  ASSUME NEW r, IsRow(r)
  PROVE  AlertKept(r, GivenUp(r))
  BY AlertRowKept, RowLeaves DEF GivenUp, InQueue

-----------------------------------------------------------------------------

PushTypes ==
  /\ channel \in Channel
  /\ fresh \subseteq Alerts
  /\ outbox = [e \in Alerts |-> outbox[e]] /\ \A e \in Alerts : IsRow(outbox[e])
  /\ pusher \in [Pushers -> [alert: Alerts \union {NoAlert}, attempts: 0 .. MaxAttempts, generation: Nat]]
  /\ sends \in [Alerts -> Nat]

\* A send is counted before it is made, so the count of a row is no less than its sends.
SendsCounted ==
  \A e \in Alerts : sends[e] <= outbox[e].attempts /\ (outbox[e].state = "none" => sends[e] = 0)

Lately == {e \in Alerts : Recent(outbox[e])}
Sending == {w \in Pushers : pusher[w] # Idle}

PushInv == PushTypes /\ SendsCounted /\ OneAlertAMinute /\ SendsToBoundDevice

LEMMA LatelyFinite ==
  /\ IsFiniteSet(Lately) /\ IsFiniteSet(Sending) /\ IsFiniteSet(Lately') /\ IsFiniteSet(Sending')
  /\ Cardinality(Lately) \in Nat /\ Cardinality(Sending) \in Nat
  /\ Cardinality(Lately') \in Nat /\ Cardinality(Sending') \in Nat /\ Cardinality(Pushers) \in Nat
  <1>1. Lately \subseteq Alerts /\ Sending \subseteq Pushers /\ Lately' \subseteq Alerts /\ Sending' \subseteq Pushers
    BY DEF Lately, Sending
  <1>2. IsFiniteSet(Lately) /\ IsFiniteSet(Sending) /\ IsFiniteSet(Lately') /\ IsFiniteSet(Sending')
    BY <1>1, PushBounds, FS_Subset
  <1> QED
    BY <1>2, PushBounds, FS_CardinalityType

LEMMA MinuteCounts ==
  /\ OneAlertAMinute <=> Cardinality(Lately) + Cardinality(Sending) <= Cardinality(Pushers)
  /\ OneAlertAMinute' <=> Cardinality(Lately') + Cardinality(Sending') <= Cardinality(Pushers)
  BY DEF OneAlertAMinute, Lately, Sending, Recent

\* When no row is newly accepted and nothing new is sent, the minute stays as free as it was.
LEMMA MinuteStays ==
  ASSUME OneAlertAMinute, Lately' \subseteq Lately, Sending' \subseteq Sending
  PROVE  OneAlertAMinute'
  <1>1. Cardinality(Lately') <= Cardinality(Lately) /\ Cardinality(Sending') <= Cardinality(Sending)
    BY LatelyFinite, FS_Subset
  <1> QED
    BY <1>1, LatelyFinite, MinuteCounts

\* The steps that send nothing: rows are kept, or leave the state none for the queue of
\* the verified device.
LEMMA QuietStep ==
  ASSUME PushInv, channel' \in Channel, fresh' \subseteq Alerts, UNCHANGED sends,
         outbox' = [e \in Alerts |-> outbox'[e]],
         \A e \in Alerts : AlertKept(outbox[e], outbox'[e]),
         pusher' \in [Pushers -> [alert: Alerts \union {NoAlert}, attempts: 0 .. MaxAttempts, generation: Nat]],
         Sending' \subseteq Sending,
         SendsToBoundDevice'
  PROVE  PushInv'
  <1>1. PushTypes'
    BY DEF PushInv, PushTypes, AlertKept
  <1>2. SendsCounted'
    BY DEF PushInv, SendsCounted, AlertKept
  <1>3. Lately' \subseteq Lately
    BY DEF Lately, AlertKept
  <1>4. OneAlertAMinute'
    BY <1>3, MinuteStays DEF PushInv
  <1> QED
    BY <1>1, <1>2, <1>4 DEF PushInv

-----------------------------------------------------------------------------
(* The user, and time. *)

LEMMA CancelledRows ==
  ASSUME PushTypes, outbox' = Cancelled
  PROVE  /\ outbox' = [e \in Alerts |-> outbox'[e]]
         /\ \A e \in Alerts : AlertKept(outbox[e], outbox'[e]) /\ ~InQueue(outbox'[e])
  <1>1. outbox' = [e \in Alerts |-> outbox'[e]]
    BY DEF Cancelled
  <1>2. ASSUME NEW e \in Alerts
        PROVE  AlertKept(outbox[e], outbox'[e]) /\ ~InQueue(outbox'[e])
    <2>1. CASE InQueue(outbox[e])
      <3>1. outbox'[e] = [outbox[e] EXCEPT !.state = "cancelled"]
        BY <2>1 DEF Cancelled, Queued, InQueue
      <3>2. IsRow(outbox[e])
        BY DEF PushTypes
      <3>3. outbox'[e].state = "cancelled"
        BY <3>1, <3>2 DEF IsRow
      <3> QED
        BY <2>1, <3>1, <3>2, <3>3, RowLeaves DEF InQueue
    <2>2. CASE ~InQueue(outbox[e])
      <3>1. outbox'[e] = outbox[e]
        BY <2>2 DEF Cancelled, Queued, InQueue
      <3> QED
        BY <2>2, <3>1, AlertRowKept DEF PushTypes
    <2> QED
      BY <2>1, <2>2
  <1> QED
    BY <1>1, <1>2

LEMMA RowsStay ==
  ASSUME PushTypes, UNCHANGED outbox
  PROVE  /\ outbox' = [e \in Alerts |-> outbox'[e]]
         /\ \A e \in Alerts : AlertKept(outbox[e], outbox'[e])
  BY AlertRowKept DEF PushTypes

UserPush == \/ Bind \/ VerifyChannel \/ CodeLapses \/ Unsubscribe \/ PauseAlerts
            \/ \E e \in Alerts : Raise(e)

LEMMA BoundDevice ==
  /\ SendsToBoundDevice <=>
       \A e \in Alerts : InQueue(outbox[e]) => channel.verified /\ outbox[e].generation = channel.generation
  /\ SendsToBoundDevice' <=>
       \A e \in Alerts : InQueue(outbox'[e]) => channel'.verified /\ outbox'[e].generation = channel'.generation
  BY DEF SendsToBoundDevice, Queued, InQueue

LEMMA UserPushKeeps ==
  ASSUME PushInv, UserPush
  PROVE  PushInv' /\ \A e \in Alerts : AlertKept(outbox[e], outbox'[e])
  <1> USE PushBounds
  <1>1. pusher' = pusher /\ sends' = sends /\ fresh' \subseteq Alerts /\ fresh \subseteq Alerts
    BY DEF UserPush, Bind, VerifyChannel, CodeLapses, Unsubscribe, PauseAlerts, Raise, PushInv, PushTypes
  <1>2. Sending' \subseteq Sending
        /\ pusher' \in [Pushers -> [alert: Alerts \union {NoAlert}, attempts: 0 .. MaxAttempts, generation: Nat]]
    BY <1>1 DEF Sending, PushInv, PushTypes
  <1>3. channel' \in Channel
    <2>0. channel \in Channel
      BY DEF PushInv, PushTypes
    <2>1. CASE Bind
      BY <2>0, <2>1 DEF Bind, Channel
    <2>2. CASE VerifyChannel
      <3>1. channel' = [generation |-> channel.generation, verified |-> TRUE, code |-> FALSE, wait |-> Minute]
        BY <2>0, <2>2 DEF VerifyChannel, Channel
      <3> QED
        BY <2>0, <3>1 DEF Channel
    <2>3. CASE CodeLapses
      BY <2>0, <2>3 DEF CodeLapses, Channel
    <2>4. CASE Unsubscribe
      BY <2>0, <2>4 DEF Unsubscribe, Channel
    <2>5. CASE PauseAlerts \/ \E e \in Alerts : Raise(e)
      BY <2>0, <2>5 DEF PauseAlerts, Raise
    <2> QED
      BY <2>1, <2>2, <2>3, <2>4, <2>5 DEF UserPush
  <1>4. CASE Bind \/ Unsubscribe
    <2>1. outbox' = Cancelled
      BY <1>4 DEF Bind, Unsubscribe
    <2>2. /\ outbox' = [e \in Alerts |-> outbox'[e]]
          /\ \A e \in Alerts : AlertKept(outbox[e], outbox'[e]) /\ ~InQueue(outbox'[e])
      BY <2>1, CancelledRows DEF PushInv
    <2>3. SendsToBoundDevice'
      BY <2>2, BoundDevice
    <2> QED
      BY <1>1, <1>2, <1>3, <2>2, <2>3, QuietStep
  <1>5. CASE ~(Bind \/ Unsubscribe)
    <2>1. outbox' = outbox /\ channel'.generation = channel.generation
          /\ (channel.verified => channel'.verified)
      BY <1>5 DEF UserPush, VerifyChannel, CodeLapses, PauseAlerts, Raise, PushInv, PushTypes, Channel
    <2>2. /\ outbox' = [e \in Alerts |-> outbox'[e]]
          /\ \A e \in Alerts : AlertKept(outbox[e], outbox'[e])
      BY <2>1, RowsStay DEF PushInv
    <2>3. SendsToBoundDevice'
      BY <2>1, BoundDevice DEF PushInv
    <2> QED
      BY <1>1, <1>2, <1>3, <2>2, <2>3, QuietStep
  <1> QED
    BY <1>4, <1>5

LEMMA PushTickKeeps ==
  ASSUME PushInv, PushTick
  PROVE  PushInv' /\ \A e \in Alerts : AlertKept(outbox[e], outbox'[e])
  <1>1. /\ pusher' = pusher /\ sends' = sends /\ fresh' \subseteq Alerts
        /\ pusher' \in [Pushers -> [alert: Alerts \union {NoAlert}, attempts: 0 .. MaxAttempts, generation: Nat]]
    BY DEF PushTick, PushInv, PushTypes
  <1>2. Sending' \subseteq Sending
    BY <1>1 DEF Sending
  <1>3. channel' \in Channel /\ channel'.verified = channel.verified /\ channel'.generation = channel.generation
    <2>1. channel \in Channel /\ channel' = [channel EXCEPT !.wait = OneLess(channel.wait)]
      BY DEF PushTick, PushInv, PushTypes
    <2>2. OneLess(channel.wait) \in 0 .. Minute
      BY <2>1, PushBounds DEF Channel, OneLess
    <2> QED
      BY <2>1, <2>2 DEF Channel
  <1>4. outbox' = [e \in Alerts |-> outbox'[e]]
    BY DEF PushTick
  <1>5. \A e \in Alerts : AlertKept(outbox[e], outbox'[e])
    BY RowTicks DEF PushTick, PushInv, PushTypes
  <1>6. SendsToBoundDevice'
    BY <1>3, <1>5, BoundDevice DEF PushInv, AlertKept
  <1> QED
    BY <1>1, <1>2, <1>3, <1>4, <1>5, <1>6, QuietStep

LEMMA PushCrashKeeps ==
  ASSUME PushInv, NEW w \in Pushers, PushCrash(w)
  PROVE  PushInv' /\ \A e \in Alerts : AlertKept(outbox[e], outbox'[e])
  <1>1. channel' = channel /\ outbox' = outbox /\ sends' = sends /\ fresh' = fresh
    BY DEF PushCrash
  <1>2. pusher' \in [Pushers -> [alert: Alerts \union {NoAlert}, attempts: 0 .. MaxAttempts, generation: Nat]]
    BY PushBounds DEF PushCrash, PushInv, PushTypes, Idle
  <1>3. Sending' \subseteq Sending
    BY DEF PushCrash, Sending, PushInv, PushTypes
  <1>4. /\ outbox' = [e \in Alerts |-> outbox'[e]]
        /\ \A e \in Alerts : AlertKept(outbox[e], outbox'[e])
    BY <1>1, RowsStay DEF PushInv
  <1>5. SendsToBoundDevice'
    BY <1>1, BoundDevice DEF PushInv
  <1>6. channel' \in Channel /\ fresh' \subseteq Alerts
    BY <1>1 DEF PushInv, PushTypes
  <1> QED
    BY <1>1, <1>2, <1>3, <1>4, <1>5, <1>6, QuietStep

-----------------------------------------------------------------------------
(* The answer of the service. *)

LEMMA AnsweredRow ==
  ASSUME NEW r, IsRow(r), r.state = "sending", NEW accepted \in BOOLEAN, NEW n \in 0 .. MaxAttempts
  PROVE  LET s == Answered(r, accepted, n) IN
         /\ IsRow(s) /\ s.attempts = r.attempts /\ s.generation = r.generation
         /\ s.state \in {"accepted", "failed", "pending"}
         /\ Recent(s) => accepted
  <1> USE PushBounds
  <1>1. CASE accepted
    <2>1. Answered(r, accepted, n) = [r EXCEPT !.state = "accepted", !.lease = 0, !.since = Minute]
      BY <1>1 DEF Answered
    <2> DEFINE s == [r EXCEPT !.state = "accepted", !.lease = 0, !.since = Minute]
    <2>2. s \in [state : {"accepted"}, attempts : {r.attempts}, due : {r.due}, lease : {0},
                 generation : {r.generation}, since : {Minute}]
      BY DEF IsRow
    <2>3. r.attempts \in 0 .. MaxAttempts /\ r.generation \in Nat
      BY DEF IsRow
    <2> HIDE DEF s
    <2>4. s.state = "accepted" /\ s.attempts = r.attempts /\ s.generation = r.generation
      BY <2>2
    <2>5. IsRow(s)
      BY <2>2, <2>3 DEF IsRow, Final
    <2>6. Answered(r, accepted, n) = s
      BY <2>1 DEF s
    <2> QED
      BY <1>1, <2>4, <2>5, <2>6
  <1>2. CASE ~accepted /\ n + 1 >= MaxAttempts
    <2>1. Answered(r, accepted, n) = [r EXCEPT !.state = "failed", !.lease = 0]
      BY <1>2 DEF Answered
    <2> QED
      BY <1>2, <2>1 DEF IsRow, Final, Recent
  <1>3. CASE ~accepted /\ ~(n + 1 >= MaxAttempts)
    <2> DEFINE d == Backoff(n)
    <2>1. Answered(r, accepted, n) = [r EXCEPT !.state = "pending", !.lease = 0, !.due = d]
      BY <1>3 DEF Answered
    <2> HIDE DEF d
    <2> QED
      BY <1>3, <2>1 DEF IsRow, Final, Recent
  <1> QED
    BY <1>1, <1>2, <1>3

LEMMA PushAnswerKeeps ==
  ASSUME PushInv, NEW w \in Pushers, PushAnswer(w)
  PROVE  /\ PushInv'
         /\ \A e \in Alerts : outbox[e].state \in Final => outbox'[e].state = outbox[e].state
  <1> DEFINE e == pusher[w].alert
  <1>1. e \in Alerts /\ pusher[w] # Idle /\ w \in Sending /\ pusher[w].attempts \in 0 .. MaxAttempts
    BY DEF PushAnswer, PushInv, PushTypes, Idle, Sending
  <1>2. channel' = channel /\ sends' = sends /\ fresh' = fresh
        /\ pusher' = [pusher EXCEPT ![w] = Idle]
    BY DEF PushAnswer
  <1>3. pusher' \in [Pushers -> [alert: Alerts \union {NoAlert}, attempts: 0 .. MaxAttempts, generation: Nat]]
    BY <1>2, PushBounds DEF PushInv, PushTypes, Idle
  <1>4. Sending' = Sending \ {w}
    BY <1>2 DEF Sending, PushInv, PushTypes
  <1>5. channel' \in Channel /\ fresh' \subseteq Alerts
    BY <1>2 DEF PushInv, PushTypes
  <1>6. CASE ~MayRecord(w)
    <2>1. outbox' = outbox
      BY <1>6 DEF PushAnswer
    <2>2. /\ outbox' = [f \in Alerts |-> outbox'[f]]
          /\ \A f \in Alerts : AlertKept(outbox[f], outbox'[f])
      BY <2>1, RowsStay DEF PushInv
    <2>3. SendsToBoundDevice'
      BY <1>2, <2>1, BoundDevice DEF PushInv
    <2>4. Sending' \subseteq Sending
      BY <1>4
    <2>5. PushInv'
      BY <1>2, <1>3, <1>5, <2>2, <2>3, <2>4, QuietStep
    <2> QED
      BY <2>1, <2>5
  <1>7. CASE MayRecord(w)
    <2>1. PICK accepted \in BOOLEAN :
            outbox' = [outbox EXCEPT ![e] = Answered(outbox[e], accepted, pusher[w].attempts)]
      BY <1>7 DEF PushAnswer
    <2> DEFINE s == Answered(outbox[e], accepted, pusher[w].attempts)
    <2>2. outbox[e].state = "sending" /\ IsRow(outbox[e])
      BY <1>1, <1>7 DEF MayRecord, PushInv, PushTypes
    <2>3. /\ IsRow(s) /\ s.attempts = outbox[e].attempts /\ s.generation = outbox[e].generation
          /\ s.state \in {"accepted", "failed", "pending"}
      BY <1>1, <2>2, AnsweredRow
    <2>4. outbox' = [f \in Alerts |-> outbox'[f]] /\ outbox'[e] = s
          /\ \A f \in Alerts \ {e} : outbox'[f] = outbox[f]
      BY <1>1, <2>1 DEF PushInv, PushTypes
    <2> HIDE DEF s, e
    <2>5. PushTypes'
      BY <1>1, <1>2, <1>3, <1>5, <2>3, <2>4 DEF PushInv, PushTypes
    <2>6. SendsCounted'
      BY <1>1, <1>2, <2>2, <2>3, <2>4 DEF PushInv, SendsCounted
    <2>7. Lately' \subseteq Lately \union {e}
      BY <2>4 DEF Lately
    <2>8. OneAlertAMinute'
      <3>1. Cardinality(Sending') = Cardinality(Sending) - 1
        BY <1>1, <1>4, LatelyFinite, FS_RemoveElement
      <3>2. IsFiniteSet(Lately \union {e}) /\ Cardinality(Lately \union {e}) <= Cardinality(Lately) + 1
            /\ Cardinality(Lately \union {e}) \in Nat
        <4>1. IsFiniteSet(Lately) /\ Cardinality(Lately) \in Nat
          BY LatelyFinite
        <4>2. IsFiniteSet(Lately \union {e})
          BY <4>1, FS_AddElement
        <4>3. Cardinality(Lately \union {e}) = IF e \in Lately THEN Cardinality(Lately) ELSE Cardinality(Lately) + 1
          BY <4>1, FS_AddElement
        <4> QED
          BY <4>1, <4>2, <4>3
      <3>3. Cardinality(Lately') <= Cardinality(Lately \union {e})
        BY <2>7, <3>2, FS_Subset
      <3>4. OneAlertAMinute
        BY DEF PushInv
      <3> QED
        BY <3>1, <3>2, <3>3, <3>4, LatelyFinite, MinuteCounts
    <2>9. SendsToBoundDevice'
      <3>1. ASSUME NEW f \in Alerts, InQueue(outbox'[f])
            PROVE  channel'.verified /\ outbox'[f].generation = channel'.generation
        <4>1. InQueue(outbox[f]) /\ outbox'[f].generation = outbox[f].generation
          BY <2>2, <2>3, <2>4, <3>1 DEF InQueue
        <4> QED
          BY <1>2, <4>1, BoundDevice DEF PushInv
      <3> QED
        BY <3>1, BoundDevice
    <2>10. \A f \in Alerts : outbox[f].state \in Final => outbox'[f].state = outbox[f].state
      BY <2>2, <2>4 DEF Final
    <2> QED
      BY <2>5, <2>6, <2>8, <2>9, <2>10 DEF PushInv
  <1> QED
    BY <1>6, <1>7

-----------------------------------------------------------------------------
(* A turn of a worker. *)

\* What a turn makes of a row before it claims one: it is kept, or it joins the queue
\* of the device that is verified now.
Turned(r, s) ==
  \/ AlertKept(r, s)
  \/ /\ r.state = "none" /\ IsRow(s)
     /\ s.state = "pending" /\ s.attempts = 0
     /\ channel.verified /\ s.generation = channel.generation

LEMMA EnqueuedRow ==
  ASSUME PushTypes, NEW e \in Alerts
  PROVE  Turned(outbox[e], GivenUp(Enqueued(e)))
  <1>1. IsRow(outbox[e])
    BY DEF PushTypes
  <1>2. CASE Enqueued(e) = outbox[e]
    BY <1>1, <1>2, RowIsKept DEF Turned
  <1>3. CASE Enqueued(e) # outbox[e]
    <2>1. /\ outbox[e].state = "none" /\ channel.verified
          /\ Enqueued(e) = [NoRowYet EXCEPT !.state = "pending", !.generation = channel.generation]
      BY <1>3 DEF Enqueued
    <2> DEFINE s == Enqueued(e)
    <2>2. s = [state |-> "pending", attempts |-> 0, due |-> 0, lease |-> 0,
               generation |-> channel.generation, since |-> 0]
      BY <2>1 DEF NoRowYet
    <2>3. channel.generation \in Nat
      BY PushBounds DEF PushTypes, Channel
    <2> HIDE DEF s
    <2>4. IsRow(s) /\ s.state = "pending" /\ s.attempts = 0 /\ s.generation = channel.generation
      BY <2>2, <2>3, PushBounds DEF IsRow
    <2>5. GivenUp(s) = s
      BY <2>4 DEF GivenUp
    <2> QED
      BY <2>1, <2>4, <2>5 DEF Turned, s
  <1> QED
    BY <1>2, <1>3

LEMMA BoxTurned ==
  ASSUME PushTypes, NEW old \in SUBSET {e \in Alerts : Queued(e)}, NEW e \in Alerts
  PROVE  Turned(outbox[e], IF e \in old THEN [outbox[e] EXCEPT !.state = "expired"] ELSE GivenUp(Enqueued(e)))
  <1>1. CASE e \in old
    BY <1>1, RowLeaves DEF Turned, Queued, InQueue, PushTypes
  <1>2. CASE e \notin old
    BY <1>2, EnqueuedRow
  <1> QED
    BY <1>1, <1>2

LEMMA ClaimedIsRow ==
  ASSUME NEW r, IsRow(r), r.attempts < MaxAttempts
  PROVE  LET s == ClaimedRow(r) IN
         /\ IsRow(s) /\ s.state = "sending" /\ s.attempts = r.attempts + 1 /\ s.generation = r.generation
  <1>1. r.attempts \in 0 .. MaxAttempts /\ r.generation \in Nat /\ r.since \in 0 .. Minute
    BY DEF IsRow
  <1>2. r.attempts + 1 \in 0 .. MaxAttempts
    BY <1>1, PushBounds
  <1> DEFINE s == ClaimedRow(r)
  <1>3. s \in [state : {"sending"}, attempts : {r.attempts + 1}, due : {r.due}, lease : {LeaseTime},
               generation : {r.generation}, since : {r.since}]
    BY DEF ClaimedRow, IsRow
  <1> HIDE DEF s
  <1>4. IsRow(s)
    BY <1>1, <1>2, <1>3 DEF IsRow
  <1>5. s.state = "sending" /\ s.attempts = r.attempts + 1 /\ s.generation = r.generation
    BY <1>3
  <1> QED
    BY <1>4, <1>5 DEF s

\* What a turn may assume and what it has to show, before it is known whether it claims.
LEMMA BoxKeeps ==
  ASSUME PushInv, NEW box, box = [e \in Alerts |-> box[e]],
         \A e \in Alerts : Turned(outbox[e], box[e])
  PROVE  /\ \A e \in Alerts : IsRow(box[e])
         /\ \A e \in Alerts : outbox[e].state \in Final => box[e].state = outbox[e].state
         /\ \A e \in Alerts : sends[e] <= box[e].attempts /\ (box[e].state = "none" => sends[e] = 0)
         /\ \A e \in Alerts : InQueue(box[e]) => channel.verified /\ box[e].generation = channel.generation
         /\ {e \in Alerts : Recent(box[e])} \subseteq Lately
  <1>1. ASSUME NEW e \in Alerts
        PROVE  /\ IsRow(box[e])
               /\ outbox[e].state \in Final => box[e].state = outbox[e].state
               /\ sends[e] <= box[e].attempts /\ (box[e].state = "none" => sends[e] = 0)
               /\ InQueue(box[e]) => channel.verified /\ box[e].generation = channel.generation
               /\ Recent(box[e]) => Recent(outbox[e])
    <2>1. sends[e] <= outbox[e].attempts /\ (outbox[e].state = "none" => sends[e] = 0)
      BY DEF PushInv, SendsCounted
    <2>2. InQueue(outbox[e]) => channel.verified /\ outbox[e].generation = channel.generation
      BY BoundDevice DEF PushInv
    <2>3. CASE AlertKept(outbox[e], box[e])
      BY <2>1, <2>2, <2>3 DEF AlertKept
    <2>4. CASE ~AlertKept(outbox[e], box[e])
      <3>1. /\ outbox[e].state = "none" /\ IsRow(box[e])
            /\ box[e].state = "pending" /\ box[e].attempts = 0
            /\ channel.verified /\ box[e].generation = channel.generation
        BY <2>4 DEF Turned
      <3> QED
        BY <2>1, <3>1 DEF Final, Recent, InQueue
    <2> QED
      BY <2>3, <2>4
  <1> QED
    BY <1>1 DEF Lately

LEMMA PushTurnKeeps ==
  ASSUME PushInv, NEW w \in Pushers, PushTurn(w)
  PROVE  /\ PushInv'
         /\ \A e \in Alerts : outbox[e].state \in Final => outbox'[e].state = outbox[e].state
  <1>1. channel' = channel /\ fresh' = fresh /\ pusher[w] = Idle /\ channel \in Channel /\ fresh \subseteq Alerts
    BY DEF PushTurn, PushInv, PushTypes
  <1>2. PICK old \in SUBSET {e \in Alerts : Queued(e)} :
       LET box == [e \in Alerts |->
             IF e \in old THEN [outbox[e] EXCEPT !.state = "expired"] ELSE GivenUp(Enqueued(e))]
       IN
       \/ \E e \in Alerts :
            /\ ClaimableAlert(box, e)
            /\ outbox' = [box EXCEPT ![e] = ClaimedRow(box[e])]
            /\ pusher' = [pusher EXCEPT ![w] = [alert |-> e, attempts |-> box[e].attempts,
                                               generation |-> box[e].generation]]
            /\ sends' = [sends EXCEPT ![e] = sends[e] + 1]
       \/ /\ ~\E e \in Alerts : ClaimableAlert(box, e)
          /\ outbox' = box /\ UNCHANGED <<pusher, sends>>
    BY DEF PushTurn
  <1> DEFINE box == [e \in Alerts |->
               IF e \in old THEN [outbox[e] EXCEPT !.state = "expired"] ELSE GivenUp(Enqueued(e))]
  <1>3. \A e \in Alerts : Turned(outbox[e], box[e])
    BY BoxTurned DEF PushInv
  <1>4. box = [e \in Alerts |-> box[e]]
    OBVIOUS
  <1>5. \/ \E e \in Alerts :
             /\ ClaimableAlert(box, e)
             /\ outbox' = [box EXCEPT ![e] = ClaimedRow(box[e])]
             /\ pusher' = [pusher EXCEPT ![w] = [alert |-> e, attempts |-> box[e].attempts,
                                                generation |-> box[e].generation]]
             /\ sends' = [sends EXCEPT ![e] = sends[e] + 1]
        \/ outbox' = box /\ pusher' = pusher /\ sends' = sends
    BY <1>2
  <1> HIDE DEF box
  <1>6. /\ \A e \in Alerts : IsRow(box[e])
        /\ \A e \in Alerts : outbox[e].state \in Final => box[e].state = outbox[e].state
        /\ \A e \in Alerts : sends[e] <= box[e].attempts /\ (box[e].state = "none" => sends[e] = 0)
        /\ \A e \in Alerts : InQueue(box[e]) => channel.verified /\ box[e].generation = channel.generation
        /\ {e \in Alerts : Recent(box[e])} \subseteq Lately
    BY <1>3, <1>4, BoxKeeps
  <1>7. pusher \in [Pushers -> [alert: Alerts \union {NoAlert}, attempts: 0 .. MaxAttempts, generation: Nat]]
        /\ sends \in [Alerts -> Nat]
    BY DEF PushInv, PushTypes
  <1>8. CASE outbox' = box /\ pusher' = pusher /\ sends' = sends
    <2>1. PushTypes'
      BY <1>1, <1>4, <1>6, <1>7, <1>8 DEF PushTypes
    <2>2. SendsCounted'
      BY <1>6, <1>8 DEF SendsCounted
    <2>3. SendsToBoundDevice'
      BY <1>1, <1>6, <1>8, BoundDevice
    <2>4. Lately' \subseteq Lately /\ Sending' \subseteq Sending
      BY <1>6, <1>8 DEF Lately, Sending
    <2>5. OneAlertAMinute'
      BY <2>4, MinuteStays DEF PushInv
    <2> QED
      BY <1>6, <1>8, <2>1, <2>2, <2>3, <2>5 DEF PushInv
  <1>9. ASSUME NEW e \in Alerts,
               ClaimableAlert(box, e),
               outbox' = [box EXCEPT ![e] = ClaimedRow(box[e])],
               pusher' = [pusher EXCEPT ![w] = [alert |-> e, attempts |-> box[e].attempts,
                                               generation |-> box[e].generation]],
               sends' = [sends EXCEPT ![e] = sends[e] + 1]
        PROVE  /\ PushInv'
               /\ \A f \in Alerts : outbox[f].state \in Final => outbox'[f].state = outbox[f].state
    <2>1. /\ box[e].state \in {"pending", "sending"} /\ box[e].attempts < MaxAttempts
          /\ InQueue(box[e]) /\ IsRow(box[e])
      BY <1>6, <1>9 DEF ClaimableAlert, InQueue
    <2> DEFINE s == ClaimedRow(box[e])
    <2>2. /\ IsRow(s) /\ s.state = "sending" /\ s.attempts = box[e].attempts + 1
          /\ s.generation = box[e].generation
      BY <2>1, ClaimedIsRow
    <2>3. /\ outbox'[e] = s /\ \A f \in Alerts \ {e} : outbox'[f] = box[f]
          /\ outbox' = [f \in Alerts |-> outbox'[f]]
      BY <1>4, <1>9
    <2> HIDE DEF s
    <2>4. box[e].attempts \in 0 .. MaxAttempts /\ box[e].generation \in Nat
      BY <2>1 DEF IsRow
    <2>5. PushTypes'
      <3>1. pusher' \in [Pushers -> [alert: Alerts \union {NoAlert}, attempts: 0 .. MaxAttempts, generation: Nat]]
        BY <1>7, <1>9, <2>4
      <3>2. sends' \in [Alerts -> Nat]
        BY <1>7, <1>9
      <3> QED
        BY <1>1, <1>6, <2>2, <2>3, <3>1, <3>2 DEF PushTypes
    <2>6. SendsCounted'
      <3>1. ASSUME NEW f \in Alerts
            PROVE  sends'[f] <= outbox'[f].attempts /\ (outbox'[f].state = "none" => sends'[f] = 0)
        <4>1. CASE f = e
          <5>1. sends'[e] = sends[e] + 1 /\ sends[e] \in Nat
            BY <1>7, <1>9
          <5> QED
            BY <1>6, <2>2, <2>3, <2>4, <4>1, <5>1, PushBounds
        <4>2. CASE f # e
          <5>1. sends'[f] = sends[f]
            BY <1>7, <1>9, <4>2
          <5> QED
            BY <1>6, <2>3, <4>2, <5>1
        <4> QED
          BY <4>1, <4>2
      <3> QED
        BY <3>1 DEF SendsCounted
    <2>7. SendsToBoundDevice'
      <3>1. ASSUME NEW f \in Alerts, InQueue(outbox'[f])
            PROVE  channel'.verified /\ outbox'[f].generation = channel'.generation
        BY <1>1, <1>6, <2>1, <2>2, <2>3, <3>1
      <3> QED
        BY <3>1, BoundDevice
    <2>8. OneAlertAMinute'
      <3>1. Lately' = {}
        <4>1. ASSUME NEW f \in Alerts
              PROVE  ~Recent(outbox'[f])
          <5>1. CASE f = e
            BY <2>2, <2>3, <5>1 DEF Recent
          <5>2. CASE f # e
            BY <1>9, <2>3, <5>2 DEF Recent, ClaimableAlert, Quiet
          <5> QED
            BY <5>1, <5>2
        <4> QED
          BY <4>1 DEF Lately
      <3>2. Sending' \subseteq Pushers
        BY DEF Sending
      <3>3. Cardinality(Sending') <= Cardinality(Pushers)
        BY <3>2, PushBounds, FS_Subset
      <3>4. Cardinality(Lately') = 0
        BY <3>1, FS_EmptySet
      <3> QED
        BY <3>3, <3>4, LatelyFinite, MinuteCounts
    <2>9. \A f \in Alerts : outbox[f].state \in Final => outbox'[f].state = outbox[f].state
      <3>1. ASSUME NEW f \in Alerts, outbox[f].state \in Final
            PROVE  outbox'[f].state = outbox[f].state
        <4>1. box[f].state = outbox[f].state /\ f # e
          BY <1>6, <2>1, <3>1 DEF Final
        <4> QED
          BY <2>3, <4>1
      <3> QED
        BY <3>1
    <2> QED
      BY <2>5, <2>6, <2>7, <2>8, <2>9 DEF PushInv
  <1> QED
    BY <1>5, <1>8, <1>9

-----------------------------------------------------------------------------

LEMMA PushStarts == PushInit => PushInv
  <1> SUFFICES ASSUME PushInit PROVE PushInv
    OBVIOUS
  <1>1. /\ channel = [generation |-> 0, verified |-> FALSE, code |-> FALSE, wait |-> 0]
        /\ outbox = [e \in Alerts |-> NoRowYet] /\ fresh = {}
        /\ pusher = [w \in Pushers |-> Idle] /\ sends = [e \in Alerts |-> 0]
    BY DEF PushInit
  <1>2. IsRow(NoRowYet) /\ NoRowYet.state = "none" /\ NoRowYet.attempts = 0
    BY PushBounds DEF IsRow, NoRowYet
  <1>3. PushTypes
    BY <1>1, <1>2, PushBounds DEF PushTypes, Channel, Idle
  <1>4. SendsCounted
    BY <1>1, <1>2 DEF SendsCounted
  <1>5. SendsToBoundDevice
    BY <1>1, <1>2 DEF SendsToBoundDevice, Queued
  <1>6. Lately = {} /\ Sending = {}
    BY <1>1, <1>2 DEF Lately, Sending, Recent
  <1>7. OneAlertAMinute
    BY <1>6, LatelyFinite, MinuteCounts, FS_EmptySet
  <1> QED
    BY <1>3, <1>4, <1>5, <1>7 DEF PushInv

LEMMA PushStep ==
  PushInv /\ [PushNext]_pushVars =>
    PushInv' /\ \A e \in Alerts : outbox[e].state \in Final => outbox'[e].state = outbox[e].state
  <1> SUFFICES ASSUME PushInv, [PushNext]_pushVars
               PROVE  PushInv' /\ \A e \in Alerts : outbox[e].state \in Final => outbox'[e].state = outbox[e].state
    OBVIOUS
  <1>1. CASE UserPush
    BY <1>1, UserPushKeeps DEF AlertKept
  <1>2. CASE PushTick
    BY <1>2, PushTickKeeps DEF AlertKept
  <1>3. ASSUME NEW w \in Pushers, PushTurn(w) \/ PushAnswer(w) \/ PushCrash(w)
        PROVE  PushInv' /\ \A e \in Alerts : outbox[e].state \in Final => outbox'[e].state = outbox[e].state
    BY <1>3, PushTurnKeeps, PushAnswerKeeps, PushCrashKeeps DEF AlertKept
  <1>4. CASE UNCHANGED pushVars
    <2>1. channel' = channel /\ fresh' = fresh /\ outbox' = outbox /\ pusher' = pusher /\ sends' = sends
      BY <1>4 DEF pushVars
    <2> QED
      BY <2>1 DEF PushInv, PushTypes, SendsCounted, OneAlertAMinute, SendsToBoundDevice, Queued
  <1> QED
    BY <1>1, <1>2, <1>3, <1>4 DEF PushNext, UserPush

\* notifications.py keeps every promise to the user and to the push service, with any
\* number of workers, alerts, rebindings and crashes.
THEOREM AlertsAlwaysHonoured == PushSpec => AlertsAreHonoured
  <1>1. PushInv => ThreeSendsAtMost
    <2> SUFFICES ASSUME PushInv, NEW e \in Alerts PROVE sends[e] <= MaxAttempts
      BY DEF ThreeSendsAtMost
    <2>1. sends[e] <= outbox[e].attempts /\ outbox[e].attempts \in 0 .. MaxAttempts /\ sends[e] \in Nat
      BY DEF PushInv, PushTypes, SendsCounted, IsRow
    <2> QED
      BY <2>1, PushBounds
  <1>2. PushInv => OneAlertAMinute /\ SendsToBoundDevice
    BY DEF PushInv
  <1>3. PushInv /\ [PushNext]_pushVars =>
          [\A e \in Alerts : outbox[e].state \in Final => outbox'[e].state = outbox[e].state]_pushVars
    BY PushStep
  <1>4. PushInv /\ [PushNext]_pushVars => PushInv'
    BY PushStep
  <1> QED
    BY <1>1, <1>2, <1>3, <1>4, PushStarts, PTL DEF PushSpec, AlertsAreHonoured, SettledAlertStays

\* Every deadline is within the longest back-off, which the third failure never asks for.
LEMMA BackoffWithin ==
  /\ Backoff(MaxAttempts) = 8
  /\ \A n \in 0 .. MaxAttempts : n + 1 < MaxAttempts => Backoff(n) \in 0 .. Backoff(MaxAttempts)
  <1>1. 2^0 = 1 /\ 2^1 = 2 /\ 2^3 = 8  BY Z3
  <1>2. Backoff(0) = 1 /\ Backoff(1) = 2 /\ Backoff(3) = 8
    BY <1>1 DEF Backoff, Minute
  <1>3. \A n \in 0 .. 3 : n + 1 < 3 => n = 0 \/ n = 1  OBVIOUS
  <1> QED  BY <1>2, <1>3, PushBounds

LEMMA FewerLeft == \A m \in Nat : \A n \in 0 .. m : OneLess(n) \in 0 .. m
  BY DEF OneLess

\* A row stays one of its fields' ranges, whichever of them changes.
LEMMA RowFields ==
  ASSUME NEW r \in Row
  PROVE  /\ r.state \in {"none", "pending", "sending"} \union Final /\ r.attempts \in 0 .. MaxAttempts
         /\ r.due \in 0 .. Backoff(MaxAttempts) /\ r.lease \in 0 .. LeaseTime
         /\ r.generation \in 0 .. MaxBinds /\ r.since \in 0 .. Minute
  BY DEF Row

LEMMA RowEnds ==
  ASSUME NEW r \in Row, NEW s \in Final  PROVE [r EXCEPT !.state = s] \in Row
  BY DEF Row

LEMMA RowGivenUp == ASSUME NEW r \in Row  PROVE GivenUp(r) \in Row
  BY RowEnds DEF GivenUp, Final

LEMMA RowClaimed ==
  ASSUME NEW r \in Row, r.attempts < MaxAttempts  PROVE ClaimedRow(r) \in Row
  <1>1. r.attempts + 1 \in 0 .. MaxAttempts /\ LeaseTime \in 0 .. LeaseTime
    BY RowFields, PushBounds
  <1> QED  BY <1>1 DEF ClaimedRow, Row

LEMMA RowAnswered ==
  ASSUME NEW r \in Row, NEW n \in 0 .. MaxAttempts, NEW accepted \in BOOLEAN
  PROVE  Answered(r, accepted, n) \in Row
  <1>1. 0 \in 0 .. LeaseTime /\ Minute \in 0 .. Minute  BY PushBounds
  <1>2. CASE accepted
    <2>1. [r EXCEPT !.state = "accepted", !.lease = 0, !.since = Minute] \in Row
      BY <1>1 DEF Row, Final
    <2> QED  BY <1>2, <2>1 DEF Answered
  <1>3. CASE ~accepted /\ n + 1 >= MaxAttempts
    <2>1. [r EXCEPT !.state = "failed", !.lease = 0] \in Row
      BY <1>1 DEF Row, Final
    <2> QED  BY <1>3, <2>1 DEF Answered
  <1>4. CASE ~accepted /\ ~(n + 1 >= MaxAttempts)
    <2>1. Backoff(n) \in 0 .. Backoff(MaxAttempts)  BY <1>4, BackoffWithin, PushBounds
    <2>2. [r EXCEPT !.state = "pending", !.lease = 0, !.due = Backoff(n)] \in Row
      BY <1>1, <2>1 DEF Row, Final
    <2> QED  BY <1>4, <2>2 DEF Answered
  <1> QED  BY <1>2, <1>3, <1>4

LEMMA ChannelLater ==
  ASSUME NEW c \in Channel, NEW n \in 0 .. Minute  PROVE [c EXCEPT !.wait = n] \in Channel
  BY DEF Channel

LEMMA RowLater ==
  ASSUME NEW r \in Row
  PROVE  [r EXCEPT !.due = OneLess(r.due), !.lease = OneLess(r.lease), !.since = OneLess(r.since)] \in Row
  <1>1. OneLess(r.due) \in 0 .. Backoff(MaxAttempts)
    BY RowFields, FewerLeft, BackoffWithin
  <1>2. OneLess(r.lease) \in 0 .. LeaseTime /\ OneLess(r.since) \in 0 .. Minute
    BY RowFields, FewerLeft, PushBounds
  <1> QED  BY <1>1, <1>2 DEF Row

LEMMA FirstRow == NoRowYet \in Row
  BY BackoffWithin, PushBounds DEF NoRowYet, Row

LEMMA RowEnqueued ==
  ASSUME PushTypeOK, NEW e \in Alerts  PROVE Enqueued(e) \in Row
  <1>1. outbox[e] \in Row /\ channel.generation \in 0 .. MaxBinds
    BY DEF PushTypeOK, Channel
  <1>2. [NoRowYet EXCEPT !.state = "pending", !.generation = channel.generation] \in Row
    BY <1>1, FirstRow DEF Row
  <1> QED  BY <1>1, <1>2 DEF Enqueued

\* Every step keeps the outbox and the workers to their types.
LEMMA PushTypesGoOn == PushTypeOK /\ [PushNext]_pushVars => PushTypeOK'
  <1> SUFFICES ASSUME PushTypeOK, [PushNext]_pushVars  PROVE PushTypeOK'
    OBVIOUS
  <1> DEFINE Pusher == [alert: Alerts \union {NoAlert}, attempts: 0 .. MaxAttempts, generation: 0 .. MaxBinds]
  <1>1. Idle \in Pusher  BY PushBounds DEF Idle
  <1>2. channel.generation \in 0 .. MaxBinds /\ channel.wait \in 0 .. Minute /\ Minute \in 0 .. Minute
    BY PushBounds DEF PushTypeOK, Channel
  <1>3. Cancelled \in [Alerts -> Row]
    BY RowEnds DEF Cancelled, PushTypeOK, Final
  <1>4. CASE Bind
    <2>1. channel' \in Channel
      BY <1>2, <1>4, PushBounds DEF Bind, Channel
    <2> QED  BY <1>3, <1>4, <2>1 DEF Bind, PushTypeOK
  <1>5. CASE VerifyChannel
    <2>1. channel' \in Channel
      BY <1>2, <1>5 DEF VerifyChannel, PushTypeOK, Channel
    <2> QED  BY <1>5, <2>1 DEF VerifyChannel, PushTypeOK
  <1>6. CASE CodeLapses \/ Unsubscribe
    <2>1. channel' \in Channel
      BY <1>6 DEF CodeLapses, Unsubscribe, PushTypeOK, Channel
    <2>2. outbox' \in [Alerts -> Row]
      BY <1>3, <1>6 DEF CodeLapses, Unsubscribe, PushTypeOK
    <2> QED  BY <1>6, <2>1, <2>2 DEF CodeLapses, Unsubscribe, PushTypeOK
  <1>7. CASE PauseAlerts
    BY <1>7 DEF PauseAlerts, PushTypeOK
  <1>8. ASSUME NEW e \in Alerts, Raise(e)  PROVE PushTypeOK'
    BY <1>8 DEF Raise, PushTypeOK
  <1>9. CASE PushTick
    <2> DEFINE Later(r) ==
          [r EXCEPT !.due = OneLess(r.due), !.lease = OneLess(r.lease), !.since = OneLess(r.since)]
    <2>1. /\ channel' = [channel EXCEPT !.wait = OneLess(channel.wait)]
          /\ outbox' = [e \in Alerts |-> Later(outbox[e])]
          /\ UNCHANGED <<fresh, paused, pusher, sends, crashes>>
      BY <1>9, Zenon DEF PushTick
    <2>2. channel' \in Channel
      <3>1. OneLess(channel.wait) \in 0 .. Minute  BY <1>2, FewerLeft, PushBounds
      <3> QED  BY <2>1, <3>1, ChannelLater, Zenon DEF PushTypeOK
    <2>3. ASSUME NEW e \in Alerts  PROVE Later(outbox[e]) \in Row
      <3>1. outbox[e] \in Row  BY DEF PushTypeOK
      <3> QED  BY <3>1, RowLater, Zenon
    <2> HIDE DEF Later
    <2>4. outbox' \in [Alerts -> Row]
      BY <2>1, <2>3, Zenon
    <2>5. UNCHANGED <<fresh, paused, pusher, sends, crashes>>  BY <2>1
    <2> QED  BY <2>2, <2>4, <2>5 DEF PushTypeOK
  <1>10. ASSUME NEW w \in Pushers, PushTurn(w)  PROVE PushTypeOK'
    <2>1. PICK old \in SUBSET {e \in Alerts : Queued(e)} :
            LET box == [e \in Alerts |->
                  IF e \in old THEN [outbox[e] EXCEPT !.state = "expired"] ELSE GivenUp(Enqueued(e))]
            IN
            \/ \E e \in Alerts :
                 /\ ClaimableAlert(box, e)
                 /\ outbox' = [box EXCEPT ![e] = ClaimedRow(box[e])]
                 /\ pusher' = [pusher EXCEPT ![w] = [alert |-> e, attempts |-> box[e].attempts,
                                                    generation |-> box[e].generation]]
                 /\ sends' = [sends EXCEPT ![e] = sends[e] + 1]
            \/ outbox' = box /\ UNCHANGED <<pusher, sends>>
      BY <1>10 DEF PushTurn
    <2> DEFINE box == [e \in Alerts |->
                  IF e \in old THEN [outbox[e] EXCEPT !.state = "expired"] ELSE GivenUp(Enqueued(e))]
    <2>2. box \in [Alerts -> Row]
      <3>1. \A e \in Alerts : outbox[e] \in Row  BY DEF PushTypeOK
      <3>2. \A e \in Alerts : [outbox[e] EXCEPT !.state = "expired"] \in Row
        BY <3>1, RowEnds DEF Final
      <3>3. \A e \in Alerts : GivenUp(Enqueued(e)) \in Row
        BY RowEnqueued, RowGivenUp
      <3> QED  BY <3>2, <3>3
    <2>3. channel' = channel /\ fresh' = fresh /\ paused' = paused /\ crashes' = crashes
      BY <1>10 DEF PushTurn
    <2> HIDE DEF box
    <2>4. CASE outbox' = box /\ UNCHANGED <<pusher, sends>>
      BY <2>2, <2>3, <2>4 DEF PushTypeOK
    <2>5. ASSUME NEW e \in Alerts, ClaimableAlert(box, e),
                 outbox' = [box EXCEPT ![e] = ClaimedRow(box[e])],
                 pusher' = [pusher EXCEPT ![w] = [alert |-> e, attempts |-> box[e].attempts,
                                                 generation |-> box[e].generation]],
                 sends' = [sends EXCEPT ![e] = sends[e] + 1]
          PROVE  PushTypeOK'
      <3>1. box[e] \in Row /\ box[e].attempts < MaxAttempts
        BY <2>2, <2>5 DEF ClaimableAlert
      <3>2. ClaimedRow(box[e]) \in Row  BY <3>1, RowClaimed
      <3>3. outbox' \in [Alerts -> Row]  BY <2>2, <2>5, <3>2
      <3>4. [alert |-> e, attempts |-> box[e].attempts, generation |-> box[e].generation] \in Pusher
        BY <3>1, RowFields
      <3>5. pusher' \in [Pushers -> Pusher]  BY <2>5, <3>4 DEF PushTypeOK
      <3>6. sends' \in [Alerts -> Nat]  BY <2>5 DEF PushTypeOK
      <3> QED  BY <2>3, <3>3, <3>5, <3>6 DEF PushTypeOK
    <2> QED  BY <2>1, <2>4, <2>5 DEF box
  <1>11. ASSUME NEW w \in Pushers, PushAnswer(w)  PROVE PushTypeOK'
    <2>1. pusher[w] \in Pusher  BY DEF PushTypeOK
    <2>2. outbox' \in [Alerts -> Row]
      <3>1. \A e \in Alerts, accepted \in BOOLEAN : Answered(outbox[e], accepted, pusher[w].attempts) \in Row
        BY <2>1, RowAnswered DEF PushTypeOK
      <3> QED  BY <1>11, <2>1, <3>1 DEF PushAnswer, PushTypeOK
    <2>3. pusher' \in [Pushers -> Pusher]
      BY <1>1, <1>11 DEF PushAnswer, PushTypeOK
    <2> QED  BY <1>11, <2>2, <2>3 DEF PushAnswer, PushTypeOK
  <1>12. ASSUME NEW w \in Pushers, PushCrash(w)  PROVE PushTypeOK'
    <2>1. pusher' \in [Pushers -> Pusher]
      BY <1>1, <1>12 DEF PushCrash, PushTypeOK
    <2>2. crashes' \in 0 .. MaxCrashes
      BY <1>12, PushConstantsOK DEF PushCrash, PushTypeOK, PushConstantsOK
    <2> QED  BY <1>12, <2>1, <2>2 DEF PushCrash, PushTypeOK
  <1>13. CASE UNCHANGED pushVars
    BY <1>13 DEF pushVars, PushTypeOK
  <1> QED
    BY <1>4, <1>5, <1>6, <1>7, <1>8, <1>9, <1>10, <1>11, <1>12, <1>13 DEF PushNext

\* Every state of the outbox has its type: no attempt, deadline, lease or binding leaves
\* its range, however often an alert fails.
THEOREM OutboxTypeCorrect == PushSpec => []PushTypeOK
  <1>1. PushInit => PushTypeOK
    <2>1. Idle \in [alert: Alerts \union {NoAlert}, attempts: 0 .. MaxAttempts, generation: 0 .. MaxBinds]
      BY PushBounds DEF Idle
    <2>2. ASSUME PushInit
          PROVE  channel \in Channel /\ crashes \in 0 .. MaxCrashes /\ fresh \subseteq Alerts /\ paused \in BOOLEAN
      <3>1. 0 \in 0 .. MaxBinds /\ 0 \in 0 .. Minute /\ 0 \in 0 .. MaxCrashes
        BY PushConstantsOK, PushBounds DEF PushConstantsOK
      <3>2. channel = [generation |-> 0, verified |-> FALSE, code |-> FALSE, wait |-> 0]
            /\ fresh = {} /\ paused = FALSE /\ crashes = 0
        BY <2>2, Zenon DEF PushInit
      <3> QED  BY <3>1, <3>2 DEF Channel
    <2>3. ASSUME PushInit
          PROVE  /\ outbox \in [Alerts -> Row] /\ sends \in [Alerts -> Nat]
                 /\ pusher \in [Pushers -> [alert: Alerts \union {NoAlert}, attempts: 0 .. MaxAttempts,
                                          generation: 0 .. MaxBinds]]
      BY <2>1, <2>3, FirstRow DEF PushInit
    <2> QED  BY <2>2, <2>3 DEF PushTypeOK
  <1> QED  BY <1>1, PushTypesGoOn, PTL DEF PushSpec

-----------------------------------------------------------------------------
(***************************************************************************)
(* MCServices.  The run takes the steps of one component, or of the page   *)
(* and the agent as a pair, and every behaviour of it is one of each       *)
(* component as its own specification says.  Of the pair this is HiredInv  *)
(* at work, for the agent sees there the chain that the page's orders make.*)
(***************************************************************************)

servicesVars == <<part, vars, sellerVars, watchVars, pushVars>>

\* Apart from the pair, nobody pays the page's orders as the agent sees them.
PairInv ==
  /\ part \in Parts /\ FundedInv
  /\ part = "hired" => HiredInv
  /\ part # "hired" => \A j \in Orders : chain[j] = "none"

LEMMA PairStarts == ServicesInit => PairInv
  <1> SUFFICES ASSUME ServicesInit PROVE PairInv
    OBVIOUS
  <1>1. part \in Parts /\ HiredInit
    BY DEF ServicesInit, HiredInit
  <1>2. HiredInv /\ FundedInv
    BY <1>1, HiredStarts DEF HiredInv
  <1>3. \A j \in Orders : chain[j] = "none"
    BY <1>1, OrdersAreJobs DEF HiredInit, SellerInit, OrdersAreJobs
  <1> QED  BY <1>1, <1>2, <1>3 DEF PairInv

LEMMA PairGoesOn ==
  ASSUME PairInv, [ServicesNext]_servicesVars
  PROVE  /\ PairInv'
         /\ [Next]_vars /\ [SellerNext]_sellerVars /\ [WatchNext]_watchVars /\ [PushNext]_pushVars
  <1>1. ASSUME [SellerNext]_sellerVars  PROVE FundedInv'
    BY <1>1, FundedGoesOn DEF PairInv
  <1>2. ASSUME part # "hired", part' = part, UNCHANGED sellerVars  PROVE PairInv'
    <2>1. chain' = chain  BY <1>2 DEF sellerVars
    <2> QED  BY <1>1, <1>2, <2>1 DEF PairInv
  <1>3. CASE part = "hire" /\ Next /\ OthersWait
    BY <1>2, <1>3 DEF OthersWait, Waits
  <1>4. CASE part = "seller" /\ SellerNext /\ AskedOnlyOf(Jobs \ Orders) /\ OthersWait
    <2>1. \A j \in Orders : chain'[j] = "none"
      BY <1>4, OrdersAreJobs DEF AskedOnlyOf, OrdersAreJobs
    <2>2. part' = part /\ UNCHANGED vars /\ UNCHANGED watchVars /\ UNCHANGED pushVars
      BY <1>4 DEF OthersWait, Waits
    <2> QED  BY <1>1, <1>4, <2>1, <2>2 DEF PairInv
  <1>5. CASE part = "hired" /\ HiredNext /\ OthersWait
    <2>1. HiredInv  BY <1>5 DEF PairInv
    <2>2. [Next]_vars /\ [SellerNext]_sellerVars
      BY <1>5, <2>1, HiredIsBoth
    <2>3. HiredInv'
      BY <1>5, <2>1, HiredGoesOn
    <2>4. part' = part /\ UNCHANGED watchVars /\ UNCHANGED pushVars
      BY <1>5 DEF OthersWait, Waits
    <2> QED  BY <1>1, <1>5, <2>2, <2>3, <2>4 DEF PairInv
  <1>6. CASE part = "watch" /\ WatchNext /\ OthersWait
    BY <1>2, <1>6 DEF OthersWait, Waits
  <1>7. CASE part = "push" /\ PushNext /\ OthersWait
    BY <1>2, <1>7 DEF OthersWait, Waits
  <1>8. CASE UNCHANGED servicesVars
    <2>1. part' = part /\ UNCHANGED vars /\ UNCHANGED sellerVars /\ UNCHANGED watchVars /\ UNCHANGED pushVars
      BY <1>8 DEF servicesVars
    <2>2. hiredVars' = hiredVars
      BY <2>1 DEF hiredVars
    <2>3. part = "hired" => HiredInv'
      BY <2>2, HiredGoesOn DEF PairInv
    <2>4. chain' = chain  BY <2>1 DEF sellerVars
    <2> QED  BY <1>1, <2>1, <2>3, <2>4 DEF PairInv
  <1> QED
    BY <1>3, <1>4, <1>5, <1>6, <1>7, <1>8 DEF ServicesNext

LEMMA PairIsPaid == PairInv => WorkIsPaidFor
  <1>1. ASSUME PairInv, part # "hired"  PROVE WorkIsPaidFor
    <2>1. \A j \in Orders : chain[j] = "none" /\ ~Working(j)
      BY <1>1, OrdersAreJobs DEF PairInv, FundedInv, FundedFirst, OrdersAreJobs
    <2> QED  BY <2>1 DEF WorkIsPaidFor
  <1> QED  BY <1>1, HiredIsPaid DEF PairInv

\* What TLC explores of a component, or of a pair, are behaviours of its own
\* specification, so that what is proved of that holds of every state of the run.
THEOREM ServicesAreTheirParts == ServicesSpec => Spec /\ SellerSpec /\ WatchSpec /\ PushSpec
  <1>1. ServicesInit => Init /\ SellerInit /\ WatchInit /\ PushInit
    BY DEF ServicesInit
  <1>2. PairInv /\ [ServicesNext]_servicesVars =>
          /\ PairInv'
          /\ [Next]_vars /\ [SellerNext]_sellerVars /\ [WatchNext]_watchVars /\ [PushNext]_pushVars
    BY PairGoesOn
  <1> QED
    BY <1>1, <1>2, PairStarts, PTL DEF ServicesSpec, servicesVars, Spec, SellerSpec, WatchSpec, PushSpec

\* Every component of the run keeps to its types, for every value of the constants.
THEOREM ServicesTypeCorrect == ServicesSpec => []TypesOK
  <1>1. PairInv /\ TypeOK /\ SellerTypeOK /\ WatchTypeOK /\ PushTypeOK => TypesOK
    BY PartsAreKnown DEF PartsAreKnown, PairInv, TypesOK
  <1>2. PairInv /\ [ServicesNext]_servicesVars => PairInv'
    BY PairGoesOn
  <1>3. ServicesSpec => []PairInv
    BY <1>2, PairStarts, PTL DEF ServicesSpec, servicesVars
  <1> QED
    BY <1>1, <1>3, ServicesAreTheirParts, HireTypeCorrect, SellerTypeCorrect, JournalTypeCorrect,
       OutboxTypeCorrect, PTL

\* All that TLC checks of the run holds for every value of the constants, the model's
\* bounds among them.
THEOREM ServicesKeepTheirPromises ==
  ServicesSpec => /\ [](EscrowIsSafe /\ OneRunnerPerJob /\ WorkIsPaidFor /\ ChecksAreBounded)
                  /\ DeliveredOnce /\ RecordsOnlyAdvance /\ AlertsAreHonoured
  <1>1. PairInv /\ [ServicesNext]_servicesVars => PairInv'
    BY PairGoesOn
  <1>2. ServicesSpec => []WorkIsPaidFor
    BY <1>1, PairStarts, PairIsPaid, PTL DEF ServicesSpec, servicesVars
  <1> QED
    BY <1>2, ServicesAreTheirParts, EscrowStaysSafe, JobsHaveOneRunner, ChecksStayBounded,
       DeliveriesAreNotRepeated, JournalOnlyAdvances, AlertsAlwaysHonoured, PTL

=============================================================================
