------------------------------ MODULE PushOutbox ------------------------------
(***************************************************************************)
(* Push notifications of one workspace (workspace/notifications.py): a     *)
(* device is bound and verified by a code; alerts of the journal are       *)
(* queued once in the table push_outbox; a worker claims one under a lease,*)
(* commits the attempt, sends it and records the answer if the row is      *)
(* still its own to record.                                                *)
(*                                                                         *)
(* A method is one transaction between awaits; run calls enqueue and the   *)
(* claim of deliver_one without an await in between.  Time stamps are      *)
(* countdowns that Tick moves by half a minute.  The ages that expire an   *)
(* alert (30 minutes) or a code (15 minutes) may be reached at any time.   *)
(* Encryption, texts and the removal of rows after a week are left out.    *)
(***************************************************************************)
EXTENDS Integers, FiniteSets

CONSTANTS
  Alerts,    \* events of kind alert or delivery_ready
  Pushers,   \* workers: one per process of the API
  NoAlert,
  MaxBinds,  \* bound: devices bound
  MaxCrashes \* bound: processes that die

ASSUME PushConstantsOK ==
  /\ NoAlert \notin Alerts /\ IsFiniteSet(Alerts) /\ IsFiniteSet(Pushers)
  /\ MaxBinds \in Nat /\ MaxCrashes \in Nat

VARIABLES
  channel,  \* row of push_channels
  fresh,    \* alerts raised since the channel changed
  paused,   \* whether the watch the alerts are of is not active
  outbox,   \* rows of push_outbox
  pusher,   \* what each worker is sending
  sends,    \* requests sent for each alert (for properties only)
  crashes

pushVars == <<channel, fresh, paused, outbox, pusher, sends, crashes>>

-----------------------------------------------------------------------------

MaxAttempts == 3
Minute == 1     \* 60 s
LeaseTime == 1  \* 45 s, rounded up
Backoff(attempts) == Minute * 2 ^ attempts   \* 60 * 2 ** attempts

Channel == [generation: 0 .. MaxBinds, verified: BOOLEAN, code: BOOLEAN, wait: 0 .. Minute]

Final == {"accepted", "failed", "cancelled", "expired"}
Row == [state: {"none", "pending", "sending"} \union Final, attempts: 0 .. MaxAttempts,
        due: 0 .. Backoff(MaxAttempts), lease: 0 .. LeaseTime, generation: 0 .. MaxBinds,
        since: 0 .. Minute]   \* what is left of the minute after it was accepted
NoRowYet == [state |-> "none", attempts |-> 0, due |-> 0, lease |-> 0, generation |-> 0, since |-> 0]

Idle == [alert |-> NoAlert, attempts |-> 0, generation |-> 0]

PushInit ==
  /\ channel = [generation |-> 0, verified |-> FALSE, code |-> FALSE, wait |-> 0]
  /\ fresh = {} /\ paused = FALSE
  /\ outbox = [e \in Alerts |-> NoRowYet]
  /\ pusher = [w \in Pushers |-> Idle]
  /\ sends = [e \in Alerts |-> 0]
  /\ crashes = 0

-----------------------------------------------------------------------------
(* The user *)

Queued(e) == outbox[e].state \in {"pending", "sending"}
Cancelled == [e \in Alerts |-> IF Queued(e) THEN [outbox[e] EXCEPT !.state = "cancelled"] ELSE outbox[e]]

\* A binding is a new generation; whatever was queued for the old one is cancelled.
Bind ==
  /\ channel.wait = 0 /\ channel.generation < MaxBinds
  /\ channel' = [generation |-> channel.generation + 1, verified |-> FALSE, code |-> TRUE, wait |-> Minute]
  /\ fresh' = {}
  /\ outbox' = Cancelled
  /\ UNCHANGED <<paused, pusher, sends, crashes>>

VerifyChannel ==
  /\ channel.code /\ ~channel.verified
  /\ channel' = [channel EXCEPT !.verified = TRUE, !.code = FALSE, !.wait = Minute]
  /\ fresh' = {}
  /\ UNCHANGED <<paused, outbox, pusher, sends, crashes>>

\* Five wrong codes, or fifteen minutes.
CodeLapses ==
  /\ channel.code
  /\ channel' = [channel EXCEPT !.code = FALSE]
  /\ UNCHANGED <<fresh, paused, outbox, pusher, sends, crashes>>

\* The rate limit of bind is kept.
Unsubscribe ==
  /\ channel.generation > 0
  /\ channel' = [channel EXCEPT !.verified = FALSE, !.code = FALSE]
  /\ outbox' = Cancelled
  /\ UNCHANGED <<fresh, paused, pusher, sends, crashes>>

\* The journal records an alert; a watch is paused or resumed.
Raise(e) ==
  /\ outbox[e].state = "none" /\ e \notin fresh
  /\ fresh' = fresh \union {e}
  /\ UNCHANGED <<channel, paused, outbox, pusher, sends, crashes>>
PauseAlerts ==
  /\ paused' = ~paused
  /\ UNCHANGED <<channel, fresh, outbox, pusher, sends, crashes>>

-----------------------------------------------------------------------------
(* The worker *)

\* enqueue: an event has one row, ever.  Of what is queued, any may be too old.
Enqueued(e) ==
  IF outbox[e].state = "none" /\ e \in fresh /\ ~paused /\ channel.verified
  THEN [NoRowYet EXCEPT !.state = "pending", !.generation = channel.generation]
  ELSE outbox[e]

\* The first statement of deliver_one.
GivenUp(row) ==
  IF row.state = "sending" /\ row.lease = 0 /\ row.attempts >= MaxAttempts
  THEN [row EXCEPT !.state = "failed"] ELSE row

\* Mutant: attempts are not counted when the claim is made.
ClaimedUncounted(row) == [row EXCEPT !.state = "sending", !.lease = LeaseTime]
ClaimedRow(row) == [row EXCEPT !.state = "sending", !.lease = LeaseTime, !.attempts = row.attempts + 1]

Quiet(box, e) == \A p \in Alerts \ {e} : box[p].state = "accepted" => box[p].since = 0

ClaimableAlert(box, e) ==
  /\ box[e].state \in {"pending", "sending"} /\ box[e].attempts < MaxAttempts
  /\ box[e].due = 0 /\ box[e].lease = 0
  /\ channel.verified /\ channel.generation = box[e].generation
  /\ ~paused /\ Quiet(box, e)

\* One turn of run, up to the await of send_bark.
PushTurn(w) ==
  /\ pusher[w] = Idle
  /\ \E old \in SUBSET {e \in Alerts : Queued(e)} :
       LET box == [e \in Alerts |->
             IF e \in old THEN [outbox[e] EXCEPT !.state = "expired"] ELSE GivenUp(Enqueued(e))]
       IN
       \/ \E e \in Alerts :
            /\ ClaimableAlert(box, e)
            /\ outbox' = [box EXCEPT ![e] = ClaimedRow(box[e])]
            /\ pusher' = [pusher EXCEPT ![w] = [alert |-> e, attempts |-> box[e].attempts,
                                               generation |-> box[e].generation]]
            /\ sends' = [sends EXCEPT ![e] = sends[e] + 1]
       \/ /\ ~\E e \in Alerts : ClaimableAlert(box, e)
          /\ outbox' = box /\ UNCHANGED <<pusher, sends>>
  /\ UNCHANGED <<channel, fresh, paused, crashes>>

Answered(row, accepted, attempts) ==
  CASE accepted -> [row EXCEPT !.state = "accepted", !.lease = 0, !.since = Minute]
    [] ~accepted /\ attempts + 1 >= MaxAttempts -> [row EXCEPT !.state = "failed", !.lease = 0]
    [] OTHER -> [row EXCEPT !.state = "pending", !.lease = 0, !.due = Backoff(attempts)]

MayRecord(w) ==
  outbox[pusher[w].alert].state = "sending" /\ outbox[pusher[w].alert].generation = pusher[w].generation

\* The answer, however late: another worker may have claimed the row meanwhile.
PushAnswer(w) ==
  LET e == pusher[w].alert IN
  /\ e # NoAlert
  /\ \E accepted \in BOOLEAN :
       outbox' = IF MayRecord(w)
                 THEN [outbox EXCEPT ![e] = Answered(outbox[e], accepted, pusher[w].attempts)]
                 ELSE outbox
  /\ pusher' = [pusher EXCEPT ![w] = Idle]
  /\ UNCHANGED <<channel, fresh, paused, sends, crashes>>

\* The process dies and is started again; the row keeps its lease.
PushCrash(w) ==
  /\ pusher[w] # Idle /\ crashes < MaxCrashes
  /\ crashes' = crashes + 1
  /\ pusher' = [pusher EXCEPT ![w] = Idle]
  /\ UNCHANGED <<channel, fresh, paused, outbox, sends>>

OneLess(n) == IF n = 0 THEN 0 ELSE n - 1
PushTick ==
  /\ channel' = [channel EXCEPT !.wait = OneLess(channel.wait)]
  /\ outbox' = [e \in Alerts |-> [outbox[e] EXCEPT !.due = OneLess(outbox[e].due),
                   !.lease = OneLess(outbox[e].lease), !.since = OneLess(outbox[e].since)]]
  /\ UNCHANGED <<fresh, paused, pusher, sends, crashes>>

PushNext ==
  \/ Bind \/ VerifyChannel \/ CodeLapses \/ Unsubscribe \/ PauseAlerts \/ PushTick
  \/ \E e \in Alerts : Raise(e)
  \/ \E w \in Pushers : PushTurn(w) \/ PushAnswer(w) \/ PushCrash(w)

PushSpec == PushInit /\ [][PushNext]_pushVars

-----------------------------------------------------------------------------
(* Properties *)

PushTypeOK ==
  /\ channel \in Channel
  /\ fresh \subseteq Alerts /\ paused \in BOOLEAN
  /\ outbox \in [Alerts -> Row]
  /\ pusher \in [Pushers -> [alert: Alerts \union {NoAlert}, attempts: 0 .. MaxAttempts,
                            generation: 0 .. MaxBinds]]
  /\ sends \in [Alerts -> Nat]
  /\ crashes \in 0 .. MaxCrashes

\* An alert is sent three times at most, however many workers, crashes and late
\* answers there are.
ThreeSendsAtMost == \A e \in Alerts : sends[e] <= MaxAttempts

\* What became of an alert stays: a late answer does not bring back an alert that was
\* accepted, given up, expired, or cancelled by its user.
SettledAlertStays ==
  [][\A e \in Alerts : outbox[e].state \in Final => outbox'[e].state = outbox[e].state]_pushVars

\* The alerts of the last minute and those being sent are not more than the workers:
\* one alert a minute, with the one worker the deployment has.
OneAlertAMinute ==
  Cardinality({e \in Alerts : outbox[e].state = "accepted" /\ outbox[e].since > 0})
    + Cardinality({w \in Pushers : pusher[w] # Idle}) <= Cardinality(Pushers)

\* An alert goes to the device its user has verified: what is being sent and not
\* yet cancelled belongs to the binding in force.
SendsToBoundDevice ==
  \A e \in Alerts : Queued(e) => channel.verified /\ outbox[e].generation = channel.generation

\* What the outbox promises of an alert, to its user and to the service it is sent by:
\* no crash, late answer or rebinding gets a send past a limit, or an alert out of the
\* state it ended in.
AlertsAreHonoured == [](ThreeSendsAtMost /\ OneAlertAMinute /\ SendsToBoundDevice) /\ SettledAlertStays

=============================================================================
