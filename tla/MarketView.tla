------------------------------ MODULE MarketView ------------------------------
(***************************************************************************)
(* The market of live agents (services/live_agent_market.py), the cache in *)
(* front of it (SnapshotCache of decision/market.py) and the pages made of *)
(* its snapshots (project_market, decision/routes.py).                     *)
(*                                                                         *)
(* A load reads the catalog, probes the endpoints, asks the index, and may *)
(* be cut off by the cache at any await; a page is projected from what the *)
(* cache holds.  What the index says, names, counts and the order of a     *)
(* page are left out: nothing is decided by them.                          *)
(***************************************************************************)
EXTENDS Integers, FiniteSets

CONSTANTS
  Listings,     \* rows of the catalog, of one token each
  SignedOnly,   \* those whose provider is probed with a request for a signed quote
  Known,        \* reviewed ones with a registration transaction
  EndpointOf,   \* the endpoint of a listing
  Readers,      \* requests for a page
  Ttl, LoadTimeout, FreshFor  \* 20, 25 and 60 seconds

ASSUME MarketConstantsOK ==
  /\ SignedOnly \subseteq Listings /\ Known \subseteq Listings
  /\ {Ttl, LoadTimeout, FreshFor} \subseteq Nat /\ LoadTimeout <= FreshFor

VARIABLES
  serves,   \* listings whose provider answers at the time
  onHold,   \* listings whose new hires are paused
  load,     \* the load in flight
  snapshot, \* what the cache holds
  valid,    \* how much longer it is served
  reader,   \* what each request waits for, or its page
  heard     \* time since the provider of a listing answered (for properties only)

marketVars == <<serves, onHold, load, snapshot, valid, reader, heard>>

-----------------------------------------------------------------------------

Longest == FreshFor + 1 \* ages are not told apart beyond it
Endpoints == {EndpointOf[l] : l \in Listings}
ListedAt(e) == {l \in Listings : EndpointOf[l] = e}

NoLoad == [stage |-> "none", age |-> 0, open |-> {}, callable |-> {}]
EmptySnapshot == [age |-> Longest, callable |-> {}, reachable |-> FALSE, error |-> TRUE]
NoPage == [stage |-> "idle", offers |-> {}]

MarketInit ==
  /\ serves = Listings /\ onHold = {}
  /\ load = NoLoad /\ valid = 0
  /\ snapshot = EmptySnapshot
  /\ reader = [r \in Readers |-> NoPage]
  /\ heard = [l \in Listings |-> Longest]

-----------------------------------------------------------------------------
(* live_agent_market *)

\* The catalog is read, and the time of observation taken, before anything is asked.
StartedLoad == [stage |-> "probing", age |-> 0, open |-> Endpoints, callable |-> {}]

\* probe_route: an endpoint of a provider of signed quotes is asked for the quote of
\* one of its listings, any other for its list of services.
Answering(e) ==
  IF ListedAt(e) \intersect SignedOnly # {}
  THEN LET l == CHOOSE l \in ListedAt(e) \intersect SignedOnly : TRUE
       IN ({l} \intersect serves) \ onHold
  ELSE ListedAt(e) \intersect serves
Probe(e) ==
  /\ load.stage = "probing" /\ e \in load.open
  /\ \E lost \in BOOLEAN :
       LET found == IF lost THEN {} ELSE Answering(e) IN
       /\ load' = [load EXCEPT !.open = @ \ {e}, !.callable = @ \union found,
                               !.stage = IF load.open = {e} THEN "indexing" ELSE "probing"]
       /\ heard' = [l \in Listings |-> IF l \in found THEN 0 ELSE heard[l]]
  /\ UNCHANGED <<serves, onHold, snapshot, valid, reader>>

-----------------------------------------------------------------------------
(* project_market *)

IsFresh(s) == s.age <= FreshFor
CallableNow(s) == IF s.reachable /\ ~s.error /\ IsFresh(s) THEN s.callable ELSE {}
PageOf(s) == [stage |-> "page", offers |-> CallableNow(s) \intersect Known]

-----------------------------------------------------------------------------
(* SnapshotCache.get *)

Lookup(r) ==
  /\ reader[r].stage # "waits"
  /\ IF valid > 0
     THEN reader' = [reader EXCEPT ![r] = PageOf(snapshot)] /\ UNCHANGED load
     ELSE /\ reader' = [reader EXCEPT ![r] = [NoPage EXCEPT !.stage = "waits"]]
          /\ load' = IF load = NoLoad THEN StartedLoad ELSE load
  /\ UNCHANGED <<serves, onHold, snapshot, valid, heard>>

\* Everyone who waits gets what the load left: the lock is handed on, and the cache
\* looked at once more.
Handed(s) == [r \in Readers |-> IF reader[r].stage = "waits" THEN PageOf(s) ELSE reader[r]]

\* _index_signals: no answer of the index ends a load.
AskIndex ==
  /\ load.stage = "indexing"
  /\ load' = [load EXCEPT !.stage = "indexed"]
  /\ UNCHANGED <<serves, onHold, snapshot, valid, reader, heard>>
EndLoad ==
  LET s == [age |-> load.age, callable |-> load.callable, reachable |-> load.callable # {}, error |-> FALSE] IN
  /\ load.stage = "indexed"
  /\ snapshot' = s /\ valid' = Ttl /\ load' = NoLoad /\ reader' = Handed(s)
  /\ UNCHANGED <<serves, onHold, heard>>
\* A timeout, a catalog or a file of pauses that cannot be read: the old snapshot, marked.
\* Mutant: the old snapshot is served on as it is.
KeptAsIs == snapshot
Kept == [snapshot EXCEPT !.reachable = FALSE, !.error = TRUE]
FailLoad ==
  /\ load # NoLoad
  /\ snapshot' = Kept /\ valid' = Ttl /\ load' = NoLoad /\ reader' = Handed(Kept)
  /\ UNCHANGED <<serves, onHold, heard>>

-----------------------------------------------------------------------------

MarketTick ==
  /\ load.stage # "none" => load.age < LoadTimeout  \* wait_for
  /\ load' = IF load = NoLoad THEN load ELSE [load EXCEPT !.age = @ + 1]
  /\ valid' = IF valid = 0 THEN 0 ELSE valid - 1
  /\ snapshot' = [snapshot EXCEPT !.age = IF @ = Longest THEN @ ELSE @ + 1]
  /\ heard' = [l \in Listings |-> IF heard[l] = Longest THEN Longest ELSE heard[l] + 1]
  /\ UNCHANGED <<serves, onHold, reader>>
Turn(l) ==
  /\ serves' = IF l \in serves THEN serves \ {l} ELSE serves \union {l}
  /\ UNCHANGED <<onHold, load, snapshot, valid, reader, heard>>
Hold(l) ==
  /\ onHold' = IF l \in onHold THEN onHold \ {l} ELSE onHold \union {l}
  /\ UNCHANGED <<serves, load, snapshot, valid, reader, heard>>

MarketNext ==
  \/ AskIndex \/ EndLoad \/ FailLoad \/ MarketTick
  \/ \E e \in Endpoints : Probe(e)
  \/ \E r \in Readers : Lookup(r)
  \/ \E l \in Listings : Turn(l) \/ Hold(l)

MarketSpec == MarketInit /\ [][MarketNext]_marketVars

-----------------------------------------------------------------------------
(* Properties *)

MarketTypeOK ==
  /\ snapshot.age \in 0 .. Longest /\ snapshot.callable \subseteq Listings
  /\ valid \in 0 .. Ttl /\ load.age \in 0 .. LoadTimeout

\* A page offers a hire only of a provider that answered while the last load ran or its
\* snapshot was served: no failed, slow or repeated load, and no wait for the load of
\* another request, makes an old answer a new one.
OffersWereHeard ==
  [][\A r \in Readers : reader'[r] # reader[r] =>
       \A l \in reader'[r].offers : heard[l] <= LoadTimeout + Ttl]_marketVars

===============================================================================
