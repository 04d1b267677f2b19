------------------------------ MODULE WalletAuth ------------------------------
(***************************************************************************)
(* Wallet sign-in (services/wallet_auth.py over execution/store.py): a     *)
(* challenge of one row per owner, its verification, the session.          *)
(*                                                                         *)
(* verify is three statements of the database: it reads the row, uses it   *)
(* up, inserts the session.  One process runs them without an await in     *)
(* between; processes that share the database interleave them, and one may *)
(* die between two.  The wallet signs a challenge it was shown; what is    *)
(* left out is only how a signature is checked.  One owner.                *)
(***************************************************************************)
EXTENDS Integers, FiniteSets

CONSTANTS
  AuthProcesses, \* processes over one database
  MaxChallenges  \* bound: challenges asked for

ASSUME AuthConstantsOK == IsFiniteSet(AuthProcesses) /\ MaxChallenges \in Nat

VARIABLES
  challenge, \* row of wallet_challenges: its number, whether it has expired, whether used
  signed,    \* challenges the wallet has signed
  verifying, \* how far each process is with a verification
  sessions   \* how many sessions were opened

authVars == <<challenge, signed, verifying, sessions>>

-----------------------------------------------------------------------------

FreeProcess == "free"

AuthInit ==
  /\ challenge = [number |-> 0, expired |-> FALSE, used |-> FALSE]
  /\ signed = {} /\ sessions = 0
  /\ verifying = [p \in AuthProcesses |-> FreeProcess]

AskChallenge ==
  /\ challenge.number < MaxChallenges
  /\ challenge' = [number |-> challenge.number + 1, expired |-> FALSE, used |-> FALSE]
  /\ UNCHANGED <<signed, verifying, sessions>>
LapseChallenge ==
  /\ challenge.number > 0
  /\ challenge' = [challenge EXCEPT !.expired = TRUE]
  /\ UNCHANGED <<signed, verifying, sessions>>
Sign ==
  /\ challenge.number > 0
  /\ signed' = signed \union {challenge.number}
  /\ UNCHANGED <<challenge, verifying, sessions>>

\* The row is read and the message of the request compared with it.  A request may
\* arrive more than once, and late.
ReadChallenge(p) ==
  /\ verifying[p] = FreeProcess
  /\ challenge.number \in signed /\ ~challenge.used /\ ~challenge.expired
  /\ verifying' = [verifying EXCEPT ![p] = "read"]
  /\ UNCHANGED <<challenge, signed, sessions>>

\* Mutant: the row is marked without looking whether it is used.
UnusedAlways == TRUE
Unused == ~challenge.used

\* UPDATE ... WHERE owner=? AND used=0: the row of the owner, whichever challenge it
\* holds by now.
ConsumeChallenge(p) ==
  /\ verifying[p] = "read"
  /\ IF Unused
     THEN /\ challenge' = [challenge EXCEPT !.used = TRUE]
          /\ verifying' = [verifying EXCEPT ![p] = "used"]
     ELSE verifying' = [verifying EXCEPT ![p] = FreeProcess] /\ UNCHANGED challenge
  /\ UNCHANGED <<signed, sessions>>
SaveSession(p) ==
  /\ verifying[p] = "used"
  /\ sessions' = sessions + 1
  /\ verifying' = [verifying EXCEPT ![p] = FreeProcess]
  /\ UNCHANGED <<challenge, signed>>
AuthCrash(p) ==
  /\ verifying' = [verifying EXCEPT ![p] = FreeProcess]
  /\ UNCHANGED <<challenge, signed, sessions>>

AuthNext ==
  \/ AskChallenge \/ LapseChallenge \/ Sign
  \/ \E p \in AuthProcesses : ReadChallenge(p) \/ ConsumeChallenge(p) \/ SaveSession(p) \/ AuthCrash(p)

AuthSpec == AuthInit /\ [][AuthNext]_authVars

-----------------------------------------------------------------------------
(* Properties *)

\* However many processes verify at once, and whatever they read before a newer
\* challenge replaced the row, no more sessions are opened than challenges asked for.
SessionsWereAskedFor == sessions <= challenge.number

=============================================================================
