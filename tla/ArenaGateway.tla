----------------------------- MODULE ArenaGateway -----------------------------
(***************************************************************************)
(* The quote gateway (arena/providers.py): requests for quotes share a few *)
(* connections, each for twenty seconds at most, and a circuit per route   *)
(* keeps a failing provider from being asked again for thirty.             *)
(*                                                                         *)
(* One process, one event loop: quote runs up to its first await, and what *)
(* follows the awaited call is a step of its own, so the count of failures *)
(* a call writes is the one it read before.  A provider is external: it    *)
(* may answer anything or nothing.  A unit of time is ten seconds.         *)
(***************************************************************************)
EXTENDS Integers, FiniteSets

CONSTANTS
  Routes,     \* reviewed identity and skill routes (agent_ref)
  Quotes,     \* requests for a quote at one time
  QuoteSlots, \* the semaphore's size, 4 in the code
  MaxAsked    \* bound: quotes asked for

ASSUME GatewayConstantsOK == {QuoteSlots, MaxAsked} \subseteq Nat /\ QuoteSlots > 0 /\ IsFiniteSet(Quotes)

VARIABLES
  circuit,  \* failures recorded of each route, and how long they count
  call,     \* what each request waits for
  failed,   \* ages of the last failures of each route, the latest first (for properties only)
  asked

gatewayVars == <<circuit, call, failed, asked>>

-----------------------------------------------------------------------------

OpenFor == 3     \* 30 s
CallTimeout == 2 \* 20 s, the wait for a connection included
Threshold == 3
Window == 2 * (OpenFor + CallTimeout) + OpenFor  \* the life of three failures in a row
Long == Window + 1 \* bound: the age at which ages stop counting, also of a failure that never was

NoCall == [stage |-> "idle", route |-> "none", read |-> 0, left |-> 0]

GatewayInit ==
  /\ circuit = [r \in Routes |-> [failures |-> 0, left |-> 0]]
  /\ call = [q \in Quotes |-> NoCall]
  /\ failed = [r \in Routes |-> [n \in 1 .. Threshold |-> Long]]
  /\ asked = 0

-----------------------------------------------------------------------------

\* Mutant: failures count however long ago they were.
CountedAlways(r) == circuit[r].failures
Counted(r) == IF circuit[r].left = 0 THEN 0 ELSE circuit[r].failures
Open(r) == circuit[r].failures >= Threshold /\ circuit[r].left > 0

\* quote, up to the wait for a connection.
AskQuote(q, r) ==
  /\ call[q].stage = "idle" /\ asked < MaxAsked
  /\ asked' = asked + 1
  /\ call' = IF Open(r) THEN call
             ELSE [call EXCEPT ![q] = [stage |-> "waiting", route |-> r, read |-> Counted(r), left |-> CallTimeout]]
  /\ UNCHANGED <<circuit, failed>>

InStage(s) == {q \in Quotes : call[q].stage = s}

OpenConnection(q) ==
  /\ call[q].stage = "waiting" /\ Cardinality(InStage("calling")) < QuoteSlots
  /\ call' = [call EXCEPT ![q].stage = "calling"]
  /\ UNCHANGED <<circuit, failed, asked>>

\* What _call requires of an answer: that it accepts, for this chain, this task and
\* skill, at a price, and that it has not lapsed; an answer lacks one of these at most.
Demands == {"accepted", "chain", "bound", "price", "current"}
ProviderAnswers == {Demands} \union {Demands \ {d} : d \in Demands}
Usable(a) == Demands \subseteq a

Succeeded(q) ==
  /\ circuit' = [circuit EXCEPT ![call[q].route] = [failures |-> 0, left |-> 0]]
  /\ UNCHANGED failed
FailedCall(q) ==
  /\ circuit' = [circuit EXCEPT ![call[q].route] = [failures |-> call[q].read + 1, left |-> OpenFor]]
  /\ failed' = [failed EXCEPT ![call[q].route] = [n \in 1 .. Threshold |-> IF n = 1 THEN 0 ELSE @[n - 1]]]

Ends(q) == call' = [call EXCEPT ![q] = NoCall] /\ UNCHANGED asked

Respond(q) ==
  /\ call[q].stage = "calling" /\ Ends(q)
  /\ \E a \in ProviderAnswers : IF Usable(a) THEN Succeeded(q) ELSE FailedCall(q)
\* asyncio.timeout, also while waiting for a connection; a transport error.
GivesOut(q) ==
  /\ call[q].stage = "calling" \/ (call[q].stage = "waiting" /\ call[q].left = 0)
  /\ FailedCall(q) /\ Ends(q)

GatewayTick ==
  /\ \A q \in Quotes : call[q].stage # "idle" => call[q].left > 0
  /\ call' = [q \in Quotes |-> IF call[q].stage = "idle" THEN NoCall ELSE [call[q] EXCEPT !.left = @ - 1]]
  /\ circuit' = [r \in Routes |-> [circuit[r] EXCEPT !.left = IF @ = 0 THEN 0 ELSE @ - 1]]
  /\ failed' = [r \in Routes |-> [n \in 1 .. Threshold |-> IF failed[r][n] = Long THEN Long ELSE failed[r][n] + 1]]
  /\ UNCHANGED asked

GatewayNext ==
  \/ GatewayTick
  \/ \E q \in Quotes : OpenConnection(q) \/ Respond(q) \/ GivesOut(q) \/ \E r \in Routes : AskQuote(q, r)

GatewaySpec == GatewayInit /\ [][GatewayNext]_gatewayVars

-----------------------------------------------------------------------------
(* Properties *)

\* A circuit that counts n failures rests on n failures of its route, the first of them
\* not long ago, and counts three at most, whatever calls overlapped and whichever of
\* them wrote last.
FailuresAreRecent ==
  \A r \in Routes : circuit[r].left > 0 =>
    \A n \in 1 .. circuit[r].failures : n <= Threshold /\ failed[r][n] <= Window

=============================================================================
