---------------------- MODULE ClickHouseClusterProofs ----------------------
(* The cluster's life cycle for any number of calls of start() and any set *)
(* of failing library calls.                                               *)
EXTENDS ClickHouseCluster, TLAPS

\* The names a step of start() about container `at` finds brought up.
Up == IF at = "ch-keeper" THEN {"network"}
      ELSE IF at = "ch-node1" THEN {"network", "ch-keeper"}
      ELSE {"network", "ch-keeper", "ch-node1"}

\* What the fields refer to at each step of start() and stop().
HeldAt ==
  /\ pc # "idle" => held \subseteq Whole
  /\ pc \in {"launch", "connect", "wait"} => attempt # 0
  /\ pc \in {"launch", "connect"} => {Now(name) : name \in Up} \subseteq held
  /\ pc = "connect" => Now(at) \in exists /\ (at = "ch-keeper" => Now(at) \in held)
  /\ pc = "wait" /\ at = "ch-keeper" => {Now("network"), Now(at)} \subseteq held
  /\ pc = "wait" /\ at # "ch-keeper" => held = Whole

\* Which containers are on a network.
AttachedAt ==
  /\ \A c \in attached : c[1] \in Containers
  /\ pc \in {"launch", "connect"} =>
       {Now(name) : name \in Up \ {"network"}} \subseteq attached
  /\ pc = "wait" /\ at = "ch-keeper" => Now(at) \in attached
  /\ pc = "wait" /\ at # "ch-keeper" => {Now(c) : c \in Containers} \subseteq attached

IInv == TypeOK /\ HeldAt /\ AttachedAt /\ StartedIsWhole

USE ClusterAssumption DEF Names, Containers, Nodes, Now

\* A new provider satisfies the invariant.
LEMMA InitIInv == Init => IInv
BY DEF Init, IInv, TypeOK, HeldAt, AttachedAt, StartedIsWhole, Things

\* A cluster with no nodes between two calls is no cluster at all.
LEMMA NothingHeld ==
  ASSUME IInv, Start
  PROVE  held = {}
<1>1. Now("ch-node1") \in Whole
  BY DEF Whole
<1> QED BY <1>1 DEF Start, IInv, StartedIsWhole

\* In a step of start() the container it is about is one of its own things.
LEMMA NowIsThing ==
  ASSUME IInv, pc \in {"launch", "connect", "wait"}
  PROVE  /\ attempt \in 1..MaxStarts
         /\ \A name \in Names : Now(name) \in Things
         /\ Now(at) \in Whole
BY DEF IInv, TypeOK, HeldAt, Things, Whole

-----------------------------------------------------------------------------
\* A step keeps every variable in its type.
LEMMA TypeStep == ASSUME IInv, [Next]_vars PROVE TypeOK'
<1>1. CASE Start
  <2>1. attempt' \in 1..MaxStarts
    BY <1>1 DEF Start, IInv, TypeOK
  <2>2. <<"network", attempt'>> \in Things
    BY <2>1 DEF Things
  <2> QED BY <1>1, <2>1, <2>2 DEF Start, IInv, TypeOK
<1>2. CASE Launch
  BY <1>2, NowIsThing DEF Launch, IInv, TypeOK
<1>3. CASE Connect
  BY <1>3, NowIsThing DEF Connect, Joined, IInv, TypeOK, HeldAt
<1>4. CASE Ready
  BY <1>4 DEF Ready, IInv, TypeOK
<1>5. CASE StartFails
  BY <1>5 DEF StartFails, Broken, Joined, IInv, TypeOK, HeldAt
<1>6. CASE Stop
  BY <1>6 DEF Stop, IInv, TypeOK
<1>7. CASE StopDone
  BY <1>7 DEF StopDone, IInv, TypeOK
<1>8. ASSUME NEW thing \in Things, StopContainer(thing)
      PROVE  TypeOK'
  BY <1>8 DEF StopContainer, IInv, TypeOK
<1>9. ASSUME NEW thing \in Things, RemoveNetwork(thing)
      PROVE  TypeOK'
  <2>1. thing \notin attached
    BY <1>9 DEF RemoveNetwork, IInv, AttachedAt
  <2> QED BY <1>9, <2>1 DEF RemoveNetwork, IInv, TypeOK
<1>10. CASE UNCHANGED vars
  BY <1>10 DEF vars, IInv, TypeOK
<1> QED
  BY <1>1, <1>2, <1>3, <1>4, <1>5, <1>6, <1>7, <1>8, <1>9, <1>10 DEF Next

\* A step of start() adds its container to the fields, one of stop() takes a
\* thing out of them.
LEMMA HeldStep == ASSUME IInv, [Next]_vars PROVE HeldAt'
<1>1. CASE Start
  <2>1. held = {} /\ attempt' # 0
    BY <1>1, NothingHeld DEF Start, IInv, TypeOK
  <2>2. CASE pc' = "idle"
    BY <2>2 DEF HeldAt
  <2>3. CASE pc' # "idle"
    <3>1. held' = {<<"network", attempt'>>} /\ pc' = "launch" /\ at' = "ch-keeper"
      BY <1>1, <2>1, <2>3 DEF Start
    <3> QED BY <2>1, <3>1 DEF HeldAt, Up, Whole
  <2> QED BY <2>2, <2>3
<1>2. CASE Launch
  BY <1>2, NowIsThing DEF Launch, IInv, HeldAt, Up, Whole
<1>3. CASE Connect
  <2>1. /\ held' = held \cup {Now(at)} /\ UNCHANGED <<attempt, exists>>
        /\ Now(at) \in Whole /\ attempt # 0
    BY <1>3, NowIsThing DEF Connect, Joined, IInv, HeldAt
  <2>2. CASE at = "ch-keeper"
    BY <1>3, <2>1, <2>2 DEF Connect, IInv, HeldAt, Up, Whole
  <2>3. CASE at = "ch-node1"
    BY <1>3, <2>1, <2>3 DEF Connect, IInv, HeldAt, Up, Whole
  <2>4. CASE at = "ch-node2"
    BY <1>3, <2>1, <2>4 DEF Connect, IInv, HeldAt, Up, Whole
  <2> QED BY <2>2, <2>3, <2>4 DEF IInv, TypeOK
<1>4. CASE Ready
  BY <1>4 DEF Ready, IInv, HeldAt, Up, Whole
<1>5. CASE StartFails
  <2>1. held' \in {held, held \cup {Now(at)}} /\ pc' = "stop" /\ UNCHANGED attempt
    BY <1>5 DEF StartFails, Broken, Joined
  <2>2. Now(at) \in Whole /\ held \subseteq Whole
    BY <1>5, NowIsThing DEF StartFails, Broken, IInv, HeldAt
  <2> QED BY <2>1, <2>2 DEF HeldAt, Whole
<1>6. CASE Stop
  BY <1>6 DEF Stop, IInv, HeldAt, StartedIsWhole, Whole
<1>7. CASE StopDone
  BY <1>7 DEF StopDone, HeldAt
<1>8. ASSUME NEW thing \in Things, StopContainer(thing) \/ RemoveNetwork(thing)
      PROVE  HeldAt'
  BY <1>8 DEF StopContainer, RemoveNetwork, IInv, HeldAt, Whole
<1>9. CASE UNCHANGED vars
  BY <1>9 DEF vars, IInv, HeldAt, Up, Whole
<1> QED
  BY <1>1, <1>2, <1>3, <1>4, <1>5, <1>6, <1>7, <1>8, <1>9 DEF Next

\* Until stop(), a container that joined the network stays on it.
LEMMA AttachedStep == ASSUME IInv, [Next]_vars PROVE AttachedAt'
<1>1. CASE Start
  BY <1>1 DEF Start, IInv, AttachedAt, Up
<1>2. CASE Launch
  BY <1>2 DEF Launch, IInv, AttachedAt, Up
<1>3. CASE Connect
  <2>1. /\ attached' = attached \cup {Now(at)} /\ UNCHANGED attempt
        /\ \A c \in attached' : c[1] \in Containers
    BY <1>3 DEF Connect, Joined, IInv, TypeOK, AttachedAt
  <2>2. CASE at = "ch-keeper"
    BY <1>3, <2>1, <2>2 DEF Connect, IInv, AttachedAt, Up
  <2>3. CASE at = "ch-node1"
    BY <1>3, <2>1, <2>3 DEF Connect, IInv, AttachedAt, Up
  <2>4. CASE at = "ch-node2"
    BY <1>3, <2>1, <2>4 DEF Connect, IInv, AttachedAt, Up
  <2> QED BY <2>2, <2>3, <2>4 DEF IInv, TypeOK
<1>4. CASE Ready
  BY <1>4 DEF Ready, IInv, AttachedAt, Up
<1>5. CASE StartFails
  BY <1>5 DEF StartFails, Broken, Joined, IInv, TypeOK, AttachedAt
<1>6. CASE Stop \/ StopDone
  BY <1>6 DEF Stop, StopDone, IInv, AttachedAt
<1>7. ASSUME NEW thing \in Things, StopContainer(thing) \/ RemoveNetwork(thing)
      PROVE  AttachedAt'
  BY <1>7 DEF StopContainer, RemoveNetwork, IInv, AttachedAt
<1>8. CASE UNCHANGED vars
  BY <1>8 DEF vars, IInv, AttachedAt, Up
<1> QED
  BY <1>1, <1>2, <1>3, <1>4, <1>5, <1>6, <1>7, <1>8 DEF Next

\* start() returns with the whole cluster, or stop() with nothing.
LEMMA WholeStep == ASSUME IInv, [Next]_vars PROVE StartedIsWhole'
<1>1. CASE Start
  BY <1>1, NothingHeld DEF Start, StartedIsWhole
<1>2. CASE Launch \/ Connect \/ StartFails
  BY <1>2 DEF Launch, Connect, StartFails, StartedIsWhole
<1>3. CASE Ready
  BY <1>3 DEF Ready, IInv, HeldAt, AttachedAt, StartedIsWhole, Whole
<1>4. CASE Stop \/ StopDone
  BY <1>4 DEF Stop, StopDone, StartedIsWhole
<1>5. ASSUME NEW thing \in Things, StopContainer(thing) \/ RemoveNetwork(thing)
      PROVE  StartedIsWhole'
  BY <1>5 DEF StopContainer, RemoveNetwork, StartedIsWhole
<1>6. CASE UNCHANGED vars
  BY <1>6 DEF vars, IInv, StartedIsWhole, Whole
<1> QED
  BY <1>1, <1>2, <1>3, <1>4, <1>5, <1>6 DEF Next

\* The inductive invariant holds in every state of the specification.
LEMMA Invariance == Spec => []IInv
<1>1. IInv /\ [Next]_vars => IInv'
  BY TypeStep, HeldStep, AttachedStep, WholeStep DEF IInv
<1> QED BY InitIInv, <1>1, PTL DEF Spec

-----------------------------------------------------------------------------
\* Type correctness of the provider and of what Docker has.
THEOREM TypeCorrect == Spec => []TypeOK
BY Invariance, PTL DEF IInv

\* However often start() fails and is called again, a provider that has nodes
\* between two calls has the whole cluster.
THEOREM StartIsAllOrNothing == Spec => []StartedIsWhole
BY Invariance, PTL DEF IInv

\* A step of the provider loses a thing only in the ways the property lists.
LEMMA LossStep ==
  ASSUME IInv, [Next]_vars, NEW thing \in Things, Lost(thing)', ~Lost(thing)
  PROVE  \/ May("connect") /\ pc = "connect" /\ at \in Nodes /\ thing = Now(at)
         \/ May("stop") /\ pc = "stop" /\ thing[1] \in Containers
         \/ /\ pc = "stop" /\ thing[1] = "network"
            /\ May("remove") \/ ~Removable(thing)
            /\ \A c \in attached : c[2] = thing[2] => Lost(c)
<1> USE DEF Lost
<1>1. CASE Start
  BY <1>1 DEF Start
<1>2. CASE Launch
  BY <1>2 DEF Launch
<1>3. CASE Connect
  BY <1>3 DEF Connect, Joined
<1>4. CASE Ready
  BY <1>4 DEF Ready
<1>5. CASE StartFails
  <2>1. pc = "connect" /\ thing = Now(at) /\ thing \notin held'
    BY <1>5 DEF StartFails, Broken, Joined
  <2>2. May("connect") /\ at # "ch-keeper"
    BY <1>5, <2>1 DEF StartFails, Broken, Joined, IInv, HeldAt
  <2> QED BY <2>1, <2>2 DEF IInv, TypeOK
<1>6. CASE Stop \/ StopDone
  BY <1>6 DEF Stop, StopDone
<1>7. ASSUME NEW x \in Things, StopContainer(x)
      PROVE  May("stop") /\ pc = "stop" /\ thing[1] \in Containers
  BY <1>7 DEF StopContainer
<1>8. ASSUME NEW x \in Things, RemoveNetwork(x)
      PROVE  /\ pc = "stop" /\ thing[1] = "network"
             /\ May("remove") \/ ~Removable(thing)
             /\ \A c \in attached : c[2] = thing[2] => Lost(c)
  <2>1. thing = x /\ thing[1] = "network" /\ pc = "stop"
    BY <1>8 DEF RemoveNetwork
  <2>2. May("remove") \/ ~Removable(thing)
    BY <1>8, <2>1 DEF RemoveNetwork
  <2>3. \A c \in attached : c \in exists \ held
    BY <1>8 DEF RemoveNetwork, Holds, IInv, TypeOK, AttachedAt
  <2> QED BY <2>1, <2>2, <2>3
<1>9. CASE UNCHANGED vars
  BY <1>9 DEF vars
<1> QED
  BY <1>1, <1>2, <1>3, <1>4, <1>5, <1>6, <1>7, <1>8, <1>9 DEF Next

\* The list of the ways a container or a network is lost is complete.
THEOREM LossesAreListed == Spec => LossesAreFailedCalls
<1>1. IInv /\ [Next]_vars =>
        [\A thing \in Things : Lost(thing)' /\ ~Lost(thing) =>
           \/ May("connect") /\ pc = "connect" /\ at \in Nodes /\ thing = Now(at)
           \/ May("stop") /\ pc = "stop" /\ thing[1] \in Containers
           \/ /\ pc = "stop" /\ thing[1] = "network"
              /\ May("remove") \/ ~Removable(thing)
              /\ \A c \in attached : c[2] = thing[2] => Lost(c)]_vars
  BY LossStep
<1> QED BY Invariance, <1>1, PTL DEF Spec, LossesAreFailedCalls
=============================================================================
