------------------------- MODULE ClickHouseCluster -------------------------
(***************************************************************************)
(* The life cycle of a two-node ClickHouse cluster                         *)
(* (infrastructure/providers/clickhouse_cluster.py): a network, a Keeper   *)
(* and two servers are brought up one after the other, and a failure on    *)
(* the way has to undo what is there.  One client uses the provider and    *)
(* may start it again after a failure or after stop().                     *)
(*                                                                         *)
(* A thing is a name and the number of the start() that made it.  The      *)
(* directory of the configuration files is left out: its finaliser removes *)
(* it with the object that refers to it.                                   *)
(***************************************************************************)
EXTENDS Naturals

CONSTANTS
  Faults,    \* which library calls may fail: a subset of FaultKinds
  MaxStarts  \* bound on calls of start()

FaultKinds == {"create", "launch", "connect", "port", "ready", "stop", "remove"}

ASSUME ClusterAssumption == Faults \subseteq FaultKinds /\ MaxStarts \in Nat

Nodes == {"ch-node1", "ch-node2"}
Containers == {"ch-keeper"} \cup Nodes
Names == {"network"} \cup Containers
Things == Names \X (1..MaxStarts)

VARIABLES
  exists,    \* the things Docker has
  attached,  \* the containers that are on the network of their start()
  held,      \* what _network, _keeper and _nodes refer to
  pc,        \* the step of start() or stop(), "idle" between calls
  at,        \* the container a step of start() is about
  attempt    \* calls of start() so far

vars == <<exists, attached, held, pc, at, attempt>>

May(fault) == fault \in Faults

Now(name) == <<name, attempt>>

-----------------------------------------------------------------------------
Init ==
  /\ exists = {} /\ attached = {} /\ held = {}
  /\ pc = "idle" /\ at = "ch-keeper"
  /\ attempt = 0

-----------------------------------------------------------------------------
(* start()                                                                 *)

\* A provider that has nodes returns its URL and does nothing.  The network
\* is created before the try: without it there is nothing to undo.
Start ==
  /\ pc = "idle"
  /\ \A thing \in held : thing[1] \notin Nodes
  /\ attempt < MaxStarts
  /\ attempt' = attempt + 1
  /\ \/ /\ exists' = exists \cup {<<"network", attempt'>>}
        /\ held' = held \cup {<<"network", attempt'>>}
        /\ pc' = "launch"
        /\ at' = "ch-keeper"
     \/ May("create") /\ UNCHANGED <<exists, held, pc, at>>
  /\ UNCHANGED attached

\* A container runs.  The Keeper is put into its field at once, a node is
\* known to the local variable only.
Launch ==
  /\ pc = "launch"
  /\ exists' = exists \cup {Now(at)}
  /\ held' = (IF at = "ch-keeper" THEN held \cup {Now(at)} ELSE held)
  /\ pc' = "connect"
  /\ UNCHANGED <<attached, at, attempt>>

\* The container joins the network; a node is appended to _nodes.
Joined ==
  /\ attached' = attached \cup {Now(at)}
  /\ held' = held \cup {Now(at)}

Connect ==
  /\ pc = "connect"
  /\ Joined
  /\ \/ at = "ch-keeper" /\ pc' = "wait" /\ UNCHANGED at
     \/ at = "ch-node1" /\ pc' = "launch" /\ at' = "ch-node2"
     \/ at = "ch-node2" /\ pc' = "wait" /\ at' = "ch-node1"
  /\ UNCHANGED <<exists, attempt>>

\* A container answers: the Keeper before the nodes are launched, the nodes
\* when both run.
Ready ==
  /\ pc = "wait"
  /\ \/ at = "ch-keeper" /\ pc' = "launch" /\ at' = "ch-node1"
     \/ at = "ch-node1" /\ at' = "ch-node2" /\ UNCHANGED pc
     \/ at = "ch-node2" /\ pc' = "idle" /\ UNCHANGED at
  /\ UNCHANGED <<exists, attached, held, attempt>>

\* What the step that raises leaves: nothing; or a container that is attached
\* or not; or a node whose port cannot be read after it was appended.
Broken ==
  \/ /\ \/ pc = "launch" /\ May("launch")
        \/ pc = "wait" /\ May("ready")
     /\ UNCHANGED <<attached, held>>
  \/ /\ pc = "connect" /\ May("connect")
     /\ attached' \in {attached, attached \cup {Now(at)}}
     /\ UNCHANGED held
  \/ pc = "connect" /\ at \in Nodes /\ May("port") /\ Joined

\* Mutant of StartFails: the exception of start() leaves without stop().
StartFailsOnly ==
  /\ Broken
  /\ pc' = "idle"
  /\ UNCHANGED <<exists, at, attempt>>

\* An exception in the try: stop(), and it is raised again.
StartFails ==
  /\ Broken
  /\ pc' = "stop"
  /\ UNCHANGED <<exists, at, attempt>>

-----------------------------------------------------------------------------
(* stop()                                                                  *)

Stop ==
  /\ pc = "idle"
  /\ pc' = "stop"
  /\ UNCHANGED <<exists, attached, held, at, attempt>>

Holds(names) == \E thing \in held : thing[1] \in names

\* Mutant of StopContainer: the fields keep what is stopped.
StopContainerKept(thing) ==
  /\ pc = "stop"
  /\ thing \in held
  /\ thing[1] \in (IF Holds(Nodes) THEN Nodes ELSE {"ch-keeper"})
  /\ exists' = exists \ {thing} /\ attached' = attached \ {thing}
  /\ UNCHANGED <<held, pc, at, attempt>>

\* A node or, when no node is left, the Keeper; an exception is suppressed.
StopContainer(thing) ==
  /\ pc = "stop"
  /\ thing \in held
  /\ thing[1] \in (IF Holds(Nodes) THEN Nodes ELSE {"ch-keeper"})
  /\ held' = held \ {thing}
  /\ \/ exists' = exists \ {thing} /\ attached' = attached \ {thing}
     \/ May("stop") /\ UNCHANGED <<exists, attached>>
  /\ UNCHANGED <<pc, at, attempt>>

\* Docker refuses to remove a network with a container on it.
Removable(network) == \A c \in attached : c[2] # network[2]

\* Mutant of RemoveNetwork: the network goes before the containers.
RemoveNetworkFirst(thing) ==
  /\ pc = "stop"
  /\ thing \in held /\ thing[1] = "network"
  /\ held' = held \ {thing}
  /\ exists' = (IF Removable(thing) THEN exists \ {thing} ELSE exists)
  /\ UNCHANGED <<attached, pc, at, attempt>>

\* The network, after the containers; an exception is suppressed.
RemoveNetwork(thing) ==
  /\ pc = "stop"
  /\ thing \in held /\ thing[1] = "network"
  /\ ~Holds(Containers)
  /\ held' = held \ {thing}
  /\ \/ Removable(thing) /\ exists' = exists \ {thing}
     \/ (~Removable(thing) \/ May("remove")) /\ UNCHANGED exists
  /\ UNCHANGED <<attached, pc, at, attempt>>

StopDone ==
  /\ pc = "stop"
  /\ held = {}
  /\ pc' = "idle"
  /\ UNCHANGED <<exists, attached, held, at, attempt>>

-----------------------------------------------------------------------------
Next ==
  \/ Start \/ Launch \/ Connect \/ Ready \/ StartFails
  \/ Stop \/ StopDone
  \/ \E thing \in Things : StopContainer(thing) \/ RemoveNetwork(thing)

Spec == Init /\ [][Next]_vars

-----------------------------------------------------------------------------
(* Properties                                                              *)

\* Type correctness; what is held and on a network is what Docker has.
TypeOK ==
  /\ exists \subseteq Things /\ held \subseteq exists /\ attached \subseteq exists
  /\ pc \in {"idle", "launch", "connect", "wait", "stop"}
  /\ at \in Containers
  /\ attempt \in 0..MaxStarts

Whole == {Now(name) : name \in Names}

\* Between two calls the provider holds nothing, or the whole cluster of its
\* last start() with every container on the network: start() returns early
\* when there are nodes, so one that failed half-way must leave none.
StartedIsWhole ==
  pc = "idle" /\ held # {} =>
    held = Whole /\ {Now(c) : c \in Containers} \subseteq attached

\* A thing no field and no step of start() refers to.
Lost(thing) ==
  /\ thing \in exists \ held
  /\ ~(pc = "connect" /\ thing = Now(at))

\* The complete list of the ways to lose a thing: connecting a node raises
\* before it is in _nodes; stop() of a container raises; the network cannot be
\* removed, or a container is still on it, and such a container was lost before.
LossesAreFailedCalls ==
  [][\A thing \in Things : Lost(thing)' /\ ~Lost(thing) =>
       \/ May("connect") /\ pc = "connect" /\ at \in Nodes /\ thing = Now(at)
       \/ May("stop") /\ pc = "stop" /\ thing[1] \in Containers
       \/ /\ pc = "stop" /\ thing[1] = "network"
          /\ May("remove") \/ ~Removable(thing)
          /\ \A c \in attached : c[2] = thing[2] => Lost(c)]_vars

\* Violated.  base.py says that stop() is to "Stop and dispose of the
\* provider", and start() calls it when it fails; a node whose connection to
\* the network fails is not in _nodes yet and stays, though every stop() and
\* remove() succeeds.
FailureIsDisposed == pc = "idle" /\ held = {} => exists = {}
=============================================================================
