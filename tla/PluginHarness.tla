----------------------------- MODULE PluginHarness -----------------------------
(***************************************************************************)
(* The plugin registry (harness/registry.py): plugins are ordered by the   *)
(* capabilities they provide and require, started one after the other, and *)
(* stopped in the reverse order, at shutdown or when a start fails.        *)
(*                                                                         *)
(* The application runs one operation at a time and calls start_all once;  *)
(* each step is one plugin's part of it, with the ways it may fail.  A     *)
(* plugin provides its capabilities while it loads, as those of            *)
(* config/plugins.json do.  stop_plugin, which looks at no dependants, is  *)
(* called by the operations below only.  Plugins and capabilities are      *)
(* numbers; ids are compared by their order.                               *)
(***************************************************************************)
EXTENDS Integers, Sequences, FiniteSets

CONSTANTS
  Plugins,  \* plugin ids
  Caps,     \* capabilities
  MaxPluginRestarts \* bound: calls of restart_plugin

ASSUME HarnessConstantsOK == Plugins \subseteq Nat /\ IsFiniteSet(Plugins) /\ MaxPluginRestarts \in Nat

VARIABLES
  provides,  \* manifests: the capabilities of each plugin
  requires,
  handle,    \* state of each plugin
  services,  \* capabilities that can be resolved
  started,   \* _started_order
  harnessPhase,     \* what the application does with the registry
  todo,      \* plugins the operation under way has still to treat
  pluginRestarts

harnessVars == <<provides, requires, handle, services, started, harnessPhase, todo, pluginRestarts>>

-----------------------------------------------------------------------------
(* _ordered_ids *)

Owners(c) == {p \in Plugins : c \in provides[p]}
Duplicate == \E c \in Caps : \E p, q \in Owners(c) : p # q
Missing == \E p \in Plugins : \E c \in requires[p] : Owners(c) = {}
Deps(p) == UNION {Owners(c) : c \in requires[p]}

ListedIn(s) == {s[i] : i \in DOMAIN s}
\* Mutant: plugins whose dependencies are not all placed count as ready.
ReadyEarly(s) == {p \in Plugins \ ListedIn(s) : Deps(p) = {} \/ Deps(p) \cap ListedIn(s) # {}}
Ready(s) == {p \in Plugins \ ListedIn(s) : Deps(p) \subseteq ListedIn(s)}

\* The least plugin all of whose dependencies are placed comes next.
PlaceOne(s) ==
  IF Ready(s) = {} THEN s ELSE Append(s, CHOOSE p \in Ready(s) : \A q \in Ready(s) : p <= q)
Placed[n \in 0 .. Cardinality(Plugins)] == IF n = 0 THEN <<>> ELSE PlaceOne(Placed[n - 1])
OrderedIds == Placed[Cardinality(Plugins)]

\* Refused: a capability with two providers, one without any, a cycle.
Startable == ~Duplicate /\ ~Missing /\ ListedIn(OrderedIds) = Plugins

-----------------------------------------------------------------------------
(* Operations *)

Backwards(s) == [i \in DOMAIN s |-> s[Len(s) + 1 - i]]
\* list.remove: the first of them.
Without(s, p) ==
  LET i == CHOOSE i \in DOMAIN s : s[i] = p /\ \A k \in 1 .. i - 1 : s[k] # p
  IN SubSeq(s, 1, i - 1) \o SubSeq(s, i + 1, Len(s))

HarnessInit ==
  /\ provides = [p \in Plugins |-> {}] /\ requires = [p \in Plugins |-> {}]
  /\ handle = [p \in Plugins |-> "discovered"]
  /\ services = {} /\ started = <<>> /\ todo = <<>> /\ pluginRestarts = 0
  /\ harnessPhase = "configured"

Configure ==
  /\ harnessPhase = "configured"
  /\ provides' \in [Plugins -> {{}} \union {{c} : c \in Caps}]
  /\ requires' \in [Plugins -> SUBSET Caps]
  /\ harnessPhase' = "ordering"
  /\ UNCHANGED <<handle, services, started, todo, pluginRestarts>>

StartAll ==
  /\ harnessPhase = "ordering"
  /\ IF Startable
     THEN harnessPhase' = "starting" /\ todo' = OrderedIds
     ELSE harnessPhase' = "stopping" /\ todo' = Backwards(started)
  /\ UNCHANGED <<provides, requires, handle, services, started, pluginRestarts>>

\* load and start of one plugin.  What fails after load keeps its capabilities.
Provided(p) == provides[p] \intersect services = {} /\ services' = services \union provides[p]
StartOne(p) ==
  /\ requires[p] \subseteq services /\ Provided(p)
  /\ handle' = [handle EXCEPT ![p] = "started"]
  /\ started' = Append(started, p)
FailOne(p, state) ==
  /\ handle' = [handle EXCEPT ![p] = state]
  /\ UNCHANGED services \/ Provided(p)
  /\ UNCHANGED started

StartNext ==
  /\ harnessPhase = "starting" /\ todo # <<>>
  /\ \/ StartOne(Head(todo)) /\ todo' = Tail(todo) /\ UNCHANGED harnessPhase
     \/ FailOne(Head(todo), "failed") /\ harnessPhase' = "stopping" /\ todo' = Backwards(started)
  /\ UNCHANGED <<provides, requires, pluginRestarts>>
StartDone ==
  /\ harnessPhase = "starting" /\ todo = <<>>
  /\ harnessPhase' = "running"
  /\ UNCHANGED <<provides, requires, handle, services, started, todo, pluginRestarts>>

\* stop_plugin: nothing for a plugin that is not started.
StopOne(p) ==
  IF handle[p] = "started"
  THEN /\ handle' = [handle EXCEPT ![p] = "unloaded"]
       /\ started' = Without(started, p)
       /\ services' = services \ provides[p]
  ELSE UNCHANGED <<handle, started, services>>

\* Mutant: plugins are stopped in the order they were started.
StopOrderStarted == started
StopOrder == Backwards(started)

StopAll ==
  /\ harnessPhase = "running"
  /\ harnessPhase' = "stopping" /\ todo' = StopOrder
  /\ UNCHANGED <<provides, requires, handle, services, started, pluginRestarts>>
\* One that raises is passed over: failed, its capabilities where they were.
StopNext ==
  /\ harnessPhase = "stopping" /\ todo # <<>>
  /\ \/ StopOne(Head(todo))
     \/ /\ handle[Head(todo)] = "started"
        /\ handle' = [handle EXCEPT ![Head(todo)] = "failed"]
        /\ UNCHANGED <<started, services>>
  /\ todo' = Tail(todo)
  /\ UNCHANGED <<provides, requires, harnessPhase, pluginRestarts>>
StopDone ==
  /\ harnessPhase = "stopping" /\ todo = <<>>
  /\ harnessPhase' = "stopped"
  /\ UNCHANGED <<provides, requires, handle, services, started, todo, pluginRestarts>>

FreeToRestart(p) == ~\E q \in Plugins : handle[q] = "started" /\ provides[p] \intersect requires[q] # {}

\* restart_plugin, its stop first; both steps may raise.
RestartPlugin(p) ==
  /\ harnessPhase = "running" /\ pluginRestarts < MaxPluginRestarts /\ FreeToRestart(p)
  /\ pluginRestarts' = pluginRestarts + 1
  /\ \/ StopOne(p) /\ harnessPhase' = "restarting" /\ todo' = <<p>>
     \/ /\ handle[p] = "started"
        /\ handle' \in {handle, [handle EXCEPT ![p] = "stopped"]}
        /\ UNCHANGED <<started, services, harnessPhase, todo>>
  /\ UNCHANGED <<provides, requires>>
RestartDone ==
  /\ harnessPhase = "restarting"
  /\ harnessPhase' = "running" /\ todo' = <<>>
  /\ LET p == Head(todo) IN
     \/ StartOne(p)
     \/ FailOne(p, handle[p])
     \/ Provided(p) /\ handle' = [handle EXCEPT ![p] = "loaded"] /\ UNCHANGED started
  /\ UNCHANGED <<provides, requires, pluginRestarts>>

HarnessNext ==
  \/ Configure \/ StartAll \/ StartNext \/ StartDone \/ StopAll \/ StopNext \/ StopDone \/ RestartDone
  \/ \E p \in Plugins : RestartPlugin(p)

HarnessSpec == HarnessInit /\ [][HarnessNext]_harnessVars

-----------------------------------------------------------------------------
(* Properties *)

\* Types; and every started plugin is listed to be stopped.
HarnessTypeOK ==
  /\ \A p \in Plugins : handle[p] = "started" => p \in ListedIn(started)
  /\ provides \in [Plugins -> SUBSET Caps] /\ requires \in [Plugins -> SUBSET Caps]
  /\ handle \in [Plugins -> {"discovered", "loaded", "started", "failed", "stopped", "unloaded"}]
  /\ services \subseteq Caps /\ pluginRestarts \in 0 .. MaxPluginRestarts
  /\ ListedIn(started) \union ListedIn(todo) \subseteq Plugins
  /\ harnessPhase \in {"configured", "ordering", "starting", "running", "restarting", "stopping", "stopped"}

\* A started plugin can resolve all it requires: while others start, are restarted or
\* stopped, and when any of those steps fails.
DependenciesHeld == \A p \in Plugins : handle[p] = "started" => requires[p] \subseteq services

\* When everything was stopped, also after a start that failed, nothing is started,
\* and without restarts no capability is left but those of plugins that failed half way.
StopLeavesNothing ==
  harnessPhase = "stopped" =>
    /\ \A p \in Plugins : handle[p] # "started"
    /\ pluginRestarts = 0 => services \subseteq UNION {provides[p] : p \in {q \in Plugins : handle[q] = "failed"}}

\* What is refused cannot be started in any order, and nothing else is refused.
RefusedOnlyIfImpossible ==
  harnessPhase = "ordering" =>
    (Startable <=> /\ ~Duplicate /\ ~Missing
                   /\ \E rank \in [Plugins -> 1 .. Cardinality(Plugins)] :
                        \A p \in Plugins : \A q \in Deps(p) : rank[q] < rank[p])

\* From the first start to the last stop, capabilities are there for those who use
\* them and for nobody else, and only what could not work is refused.
CapabilitiesHeld == DependenciesHeld /\ StopLeavesNothing /\ RefusedOnlyIfImpossible

=============================================================================
