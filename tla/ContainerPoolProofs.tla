------------------------- MODULE ContainerPoolProofs -------------------------
(* The pool's invariants for every number of providers, workspaces,        *)
(* backends and versions, every warm target and every set of faults.       *)
EXTENDS ContainerPool, FiniteSetTheorems, TLAPS

\* The workspaces the main thread is in the middle of building or tearing
\* down, and the refill thread's loop: what the program counters imply of the
\* local variables.
Control ==
  /\ pc \notin {"idle", "drain"} =>
       /\ current \in WorkspaceIds
       /\ current \notin registered
       /\ request[current] \in Request
       /\ request[current].backend \in Backends
  /\ pc \in {"prepare", "disconnect", "reset", "append"} =>
       lease[current][track] \in Providers
  /\ pc \in {"claim", "prepare"} /\ track = "b" => lease[current]["a"] \in Providers
  /\ pc \in {"disconnect", "reset", "append"} /\ track = "a" =>
       lease[current]["b"] \in Providers
  /\ pc = "register" => \A t \in Tracks : lease[current][t] \in Providers
  /\ pc \in {"idle", "register", "unlink", "drain"} => track = "a"
  /\ \A w \in registered :
       /\ request[w] \in Request
       /\ request[w].backend # SQLite => \A t \in Tracks : lease[w][t] \in Providers
  /\ rpc \in {"start", "append"} => rbackend \in Backends /\ left > 0
  /\ rpc = "append" <=> warming # NoProvider

IInv == TypeOK /\ Control /\ OwnedAreRunning /\ SingleOwner

\* The groups of variables the actions leave alone are expanded everywhere.
USE ConstantsAssumption DEF Tracks, dockerVars, poolVars, spaceVars, mainVars, refillVars

\* A server that has just started satisfies the invariant.
LEMMA InitIInv == Init => IInv
<1> SUFFICES ASSUME Init PROVE IInv
  OBVIOUS
<1>1. TypeOK
  BY ConstantsAssumption DEF Init, TypeOK, NoLeases
<1>2. Control
  BY ConstantsAssumption DEF Init, Control
<1>3. OwnedAreRunning
  BY ConstantsAssumption DEF Init, OwnedAreRunning, Owned, Leased, Pooled, NoLeases
<1>4. SingleOwner
  BY ConstantsAssumption DEF Init, SingleOwner, Leased, Pooled, NoLeases
<1> QED
  BY <1>1, <1>2, <1>3, <1>4 DEF IInv

\* The provider behind a track has a container.
LEMMA TrackContainer ==
  ASSUME IInv, NEW w \in WorkspaceIds, NEW t \in Tracks, lease[w][t] \in Providers
  PROVE  container[lease[w][t]] \in Container
BY DEF IInv, TypeOK, OwnedAreRunning, Owned, Leased

\* Starting a container for a provider that has none stops no other.
LEMMA LaunchedContainer ==
  ASSUME IInv, NEW p \in Unused, NEW b \in Backends, NEW v \in Versions, Launch(p, b, v)
  PROVE  /\ container' \in [Providers -> Container \cup {NoContainer}]
         /\ container'[p] # NoContainer
         /\ \A q \in Providers : container[q] # NoContainer => container'[q] # NoContainer
<1>1. Fresh(b, v) \in Container
  BY DEF Fresh, Container
<1> QED
  BY <1>1, NullsAssumption DEF IInv, TypeOK, Unused, Launch

\* A container stays one when its objects or its networks change.
LEMMA ChangedContainer ==
  ASSUME NEW c \in Container, NEW w \in WorkspaceIds
  PROVE  /\ [c EXCEPT !.clean = TRUE] \in Container
         /\ [c EXCEPT !.clean = FALSE] \in Container
         /\ [c EXCEPT !.nets = @ \ {w}] \in Container
         /\ Prepared(c, w) \in Container
<1>1. c.nets \ {w} \subseteq WorkspaceIds /\ c.nets \cup {w} \subseteq WorkspaceIds
  BY DEF Container
<1> QED
  BY <1>1 DEF Container, Prepared

\* _safe_stop touches the one provider it is given.
LEMMA StoppedContainer ==
  ASSUME IInv, NEW p, SafeStop(p)
  PROVE  /\ container' \in [Providers -> Container \cup {NoContainer}]
         /\ \A q \in Providers \ {p} : container'[q] = container[q]
BY DEF SafeStop, IInv, TypeOK

\* The length of a queue is a number.
LEMMA QueueLength ==
  ASSUME IInv, NEW b \in Backends
  PROVE  Cardinality(queue[b]) \in Nat
<1>1. queue[b] \in SUBSET Providers
  BY DEF IInv, TypeOK
<1> QED
  BY <1>1, ConstantsAssumption, FS_Subset, FS_CardinalityType

-----------------------------------------------------------------------------
(* Types and program counters                                              *)

\* A step keeps every variable in its type.
LEMMA TypeStep == ASSUME IInv, [Next]_vars PROVE TypeOK'
<1>1. ASSUME NEW w \in WorkspaceIds, NEW v \in Versions, InitializeSQLite(w, v)
      PROVE  TypeOK'
  BY <1>1 DEF InitializeSQLite, CanInitialize, Serving, IInv, TypeOK, Request
<1>2. ASSUME NEW w \in WorkspaceIds, NEW b \in Backends, NEW v \in Versions, InitializeContainers(w, b, v)
      PROVE  TypeOK'
  BY <1>2 DEF InitializeContainers, CanInitialize, Serving, IInv, TypeOK, Request
<1>3. ASSUME NEW w \in WorkspaceIds, NEW t \in Tracks, Use(w, t)
      PROVE  TypeOK'
  <2>1. lease[w][t] \in Providers
    BY <1>3 DEF Use, Serving, IInv, Control
  <2>2. [container[lease[w][t]] EXCEPT !.clean = FALSE] \in Container
    BY <2>1, TrackContainer, ChangedContainer
  <2>3. container' \in [Providers -> Container \cup {NoContainer}]
    BY <1>3, <2>2 DEF Use, IInv, TypeOK
  <2> QED
    BY <1>3, <2>3 DEF Use, IInv, TypeOK
<1>4. ASSUME NEW w \in WorkspaceIds, Destroy(w)
      PROVE  TypeOK'
  BY <1>4 DEF Destroy, IInv, TypeOK
<1>5. CASE Shutdown
  BY <1>5 DEF Shutdown, Serving, IInv, TypeOK
<1>6. CASE ClaimPooled
  BY <1>6 DEF ClaimPooled, Matching, IInv, TypeOK, Control
<1>7. CASE ClaimColdStart
  <2>1. /\ request[current].backend \in Backends
        /\ request[current].version \in Versions
    BY <1>7 DEF ClaimColdStart, IInv, Control, Request
  <2>2. PICK p \in Unused :
          /\ Launch(p, request[current].backend, request[current].version)
          /\ lease' = [lease EXCEPT ![current][track] = p]
    BY <1>7 DEF ClaimColdStart
  <2>3. container' \in [Providers -> Container \cup {NoContainer}]
    BY <2>1, <2>2, LaunchedContainer
  <2>4. lease' \in [WorkspaceIds -> [Tracks -> Providers \cup {NoProvider}]]
    BY <2>2 DEF Unused, IInv, TypeOK
  <2> QED
    BY <1>7, <2>3, <2>4 DEF ClaimColdStart, IInv, TypeOK
<1>8. CASE ClaimColdStartFails
  <2>1. /\ request[current].backend \in Backends
        /\ request[current].version \in Versions
    BY <1>8 DEF ClaimColdStartFails, IInv, Control, Request
  <2>2. container' \in [Providers -> Container \cup {NoContainer}]
    BY <1>8, <2>1, LaunchedContainer DEF ClaimColdStartFails, IInv, TypeOK
  <2> QED
    BY <1>8, <2>2 DEF ClaimColdStartFails, IInv, TypeOK
<1>9. CASE ClaimPrepare
  <2>1. /\ current \in WorkspaceIds
        /\ lease[current][track] \in Providers
    BY <1>9 DEF ClaimPrepare, IInv, Control
  <2>2. container[lease[current][track]] \in Container
    BY <2>1, TrackContainer DEF IInv, TypeOK
  <2>3. Prepared(container[lease[current][track]], current) \in Container
    BY <2>1, <2>2, ChangedContainer
  <2>4. container' \in [Providers -> Container \cup {NoContainer}]
    BY <1>9, <2>3 DEF ClaimPrepare, IInv, TypeOK
  <2> QED
    BY <1>9, <2>4 DEF ClaimPrepare, IInv, TypeOK
<1>10. CASE ClaimPrepareFails
  <2>1. container' \in [Providers -> Container \cup {NoContainer}]
    BY <1>10, StoppedContainer DEF ClaimPrepareFails
  <2>2. lease' \in [WorkspaceIds -> [Tracks -> Providers \cup {NoProvider}]]
    BY <1>10 DEF ClaimPrepareFails, IInv, TypeOK
  <2> QED
    BY <1>10, <2>1, <2>2 DEF ClaimPrepareFails, IInv, TypeOK
<1>11. CASE Register
  BY <1>11 DEF Register, IInv, TypeOK, Control
<1>12. CASE RegisterFails
  BY <1>12 DEF RegisterFails, IInv, TypeOK
<1>13. CASE Raise
  BY <1>13 DEF Raise, NoLeases, IInv, TypeOK
<1>14. CASE Disconnect
  <2>1. /\ current \in WorkspaceIds
        /\ lease[current][track] \in Providers
    BY <1>14 DEF Disconnect, IInv, Control
  <2>2. container[lease[current][track]] \in Container
    BY <2>1, TrackContainer DEF IInv, TypeOK
  <2>3. [container[lease[current][track]] EXCEPT !.nets = @ \ {current}] \in Container
    BY <2>1, <2>2, ChangedContainer
  <2>4. container' \in [Providers -> Container \cup {NoContainer}]
    BY <1>14, <2>3 DEF Disconnect, IInv, TypeOK
  <2> QED
    BY <1>14, <2>4 DEF Disconnect, IInv, TypeOK
<1>15. CASE ReleaseReset
  <2>1. /\ current \in WorkspaceIds
        /\ lease[current][track] \in Providers
    BY <1>15 DEF ReleaseReset, IInv, Control
  <2>2. container[lease[current][track]] \in Container
    BY <2>1, TrackContainer DEF IInv, TypeOK
  <2>3. [container[lease[current][track]] EXCEPT !.clean = TRUE] \in Container
    BY <2>1, <2>2, ChangedContainer
  <2>4. container' \in [Providers -> Container \cup {NoContainer}]
    BY <1>15, <2>3 DEF ReleaseReset, IInv, TypeOK
  <2> QED
    BY <1>15, <2>4 DEF ReleaseReset, IInv, TypeOK
<1>16. CASE ReleaseDiscard
  <2>1. container' \in [Providers -> Container \cup {NoContainer}]
    BY <1>16, StoppedContainer DEF ReleaseDiscard
  <2>2. lease' \in [WorkspaceIds -> [Tracks -> Providers \cup {NoProvider}]]
    BY <1>16 DEF ReleaseDiscard, Released, IInv, TypeOK
  <2> QED
    BY <1>16, <2>1, <2>2 DEF ReleaseDiscard, Released, IInv, TypeOK
<1>17. CASE ReleaseAppend
  BY <1>17 DEF ReleaseAppend, Released, IInv, TypeOK, Control
<1>18. CASE RemoveNetwork
  BY <1>18 DEF RemoveNetwork, IInv, TypeOK
<1>19. CASE StopPool
  BY <1>19 DEF StopPool, IInv, TypeOK
<1>20. CASE DrainOne
  <2>1. container' \in [Providers -> Container \cup {NoContainer}]
    BY <1>20, StoppedContainer DEF DrainOne
  <2>2. queue' \in [Backends -> SUBSET Providers]
    BY <1>20 DEF DrainOne, IInv, TypeOK
  <2> QED
    BY <1>20, <2>1, <2>2 DEF DrainOne, IInv, TypeOK
<1>21. CASE DrainDone
  BY <1>21 DEF DrainDone, IInv, TypeOK
<1>22. CASE Exit
  BY <1>22 DEF Exit, IInv, TypeOK
<1>23. CASE RefillWake
  BY <1>23 DEF RefillWake, NextBackend, IInv, TypeOK
<1>24. ASSUME NEW b \in Backends, RefillScan(b)
       PROVE  TypeOK'
  <2>1. Cardinality(queue[b]) \in Nat /\ WarmTarget[b] \in Nat
    BY QueueLength
  <2> QED
    BY <1>24, <2>1 DEF RefillScan, NextBackend, IInv, TypeOK
<1>25. CASE RefillStart
  <2>1. container' \in [Providers -> Container \cup {NoContainer}]
    BY <1>25, LaunchedContainer DEF RefillStart, IInv, Control
  <2> QED
    BY <1>25, <2>1 DEF RefillStart, Unused, IInv, TypeOK
<1>26. CASE RefillStartFails
  <2>1. container' \in [Providers -> Container \cup {NoContainer}]
    BY <1>26, LaunchedContainer DEF RefillStartFails, IInv, Control, TypeOK
  <2> QED
    BY <1>26, <2>1 DEF RefillStartFails, NextBackend, IInv, TypeOK
<1>27. CASE RefillAppend
  BY <1>27 DEF RefillAppend, NextBackend, IInv, TypeOK, Control
<1>28. CASE UNCHANGED vars
  BY <1>28 DEF vars, IInv, TypeOK
<1> QED
  BY <1>1, <1>2, <1>3, <1>4, <1>5, <1>6, <1>7, <1>8, <1>9, <1>10, <1>11,
     <1>12, <1>13, <1>14, <1>15, <1>16, <1>17, <1>18, <1>19, <1>20,
     <1>21, <1>22, <1>23, <1>24, <1>25, <1>26, <1>27, <1>28 DEF Next,
     Call, Proceed, Claim, Release, Drain, Refill, Exited

\* A step keeps the locals as the program counters say.
LEMMA ControlStep == ASSUME IInv, [Next]_vars PROVE Control'
<1>1. ASSUME NEW w \in WorkspaceIds, NEW v \in Versions, InitializeSQLite(w, v)
      PROVE  Control'
  BY <1>1 DEF InitializeSQLite, CanInitialize, Serving, IInv, TypeOK, Control, Request
<1>2. ASSUME NEW w \in WorkspaceIds, NEW b \in Backends, NEW v \in Versions, InitializeContainers(w, b, v)
      PROVE  Control'
  <2>1. /\ request'[w] \in Request /\ request'[w].backend \in Backends
        /\ w \notin registered
    BY <1>2, NullsAssumption
       DEF InitializeContainers, CanInitialize, IInv, TypeOK, Control, Request
  <2>2. \A x \in registered : request'[x] = request[x]
    BY <1>2, <2>1 DEF InitializeContainers, IInv, TypeOK
  <2> QED
    BY <1>2, <2>1, <2>2 DEF InitializeContainers, Serving, IInv, TypeOK, Control
<1>3. ASSUME NEW w \in WorkspaceIds, NEW t \in Tracks, Use(w, t)
      PROVE  Control'
  BY <1>3 DEF Use, Serving, IInv, TypeOK, Control
<1>4. ASSUME NEW w \in WorkspaceIds, Destroy(w)
      PROVE  Control'
  <2>1. registered' = registered \ {w} /\ UNCHANGED lease
    BY <1>4 DEF Destroy
  <2>2. CASE request[w].backend = SQLite
    <3>1. pc' = "idle" /\ track' = "a" /\ UNCHANGED <<rpc, rbackend, left, warming>>
      BY <1>4, <2>2 DEF Destroy, IInv, Control
    <3>2. \A x \in registered' : request'[x] = request[x]
      BY <1>4, <2>1, <2>2 DEF Destroy, IInv, TypeOK
    <3> QED
      BY <2>1, <3>1, <3>2 DEF IInv, Control
  <2>3. CASE request[w].backend # SQLite
    <3>1. /\ pc' = "disconnect" /\ current' = w /\ track' = "a"
          /\ UNCHANGED <<request, rpc, rbackend, left, warming>>
      BY <1>4, <2>3 DEF Destroy, IInv, Control
    <3>2. /\ request[w] \in Request /\ request[w].backend \in Backends
          /\ \A t \in Tracks : lease[w][t] \in Providers
      BY <1>4, <2>3 DEF Destroy, IInv, Control, Request
    <3> QED
      BY <2>1, <3>1, <3>2 DEF IInv, Control
  <2> QED
    BY <2>2, <2>3
<1>5. CASE Shutdown
  BY <1>5 DEF Shutdown, Serving, IInv, TypeOK, Control
<1>6. CASE ClaimPooled
  BY <1>6 DEF ClaimPooled, Matching, IInv, TypeOK, Control
<1>7. CASE ClaimColdStart
  BY <1>7 DEF ClaimColdStart, Unused, IInv, TypeOK, Control
<1>8. CASE ClaimColdStartFails
  BY <1>8 DEF ClaimColdStartFails, IInv, TypeOK, Control
<1>9. CASE ClaimPrepare
  BY <1>9 DEF ClaimPrepare, IInv, TypeOK, Control
<1>10. CASE ClaimPrepareFails
  BY <1>10 DEF ClaimPrepareFails, SafeStop, IInv, TypeOK, Control
<1>11. CASE Register
  BY <1>11 DEF Register, IInv, TypeOK, Control
<1>12. CASE RegisterFails
  BY <1>12 DEF RegisterFails, IInv, TypeOK, Control
<1>13. CASE Raise
  BY <1>13 DEF Raise, NoLeases, IInv, TypeOK, Control
<1>14. CASE Disconnect
  BY <1>14 DEF Disconnect, IInv, TypeOK, Control
<1>15. CASE ReleaseReset
  BY <1>15 DEF ReleaseReset, IInv, TypeOK, Control
<1>16. CASE ReleaseDiscard
  BY <1>16 DEF ReleaseDiscard, Released, SafeStop, IInv, TypeOK, Control
<1>17. CASE ReleaseAppend
  BY <1>17 DEF ReleaseAppend, Released, IInv, TypeOK, Control
<1>18. CASE RemoveNetwork
  BY <1>18 DEF RemoveNetwork, IInv, TypeOK, Control
<1>19. CASE StopPool
  BY <1>19 DEF StopPool, IInv, TypeOK, Control
<1>20. CASE DrainOne
  BY <1>20 DEF DrainOne, SafeStop, IInv, TypeOK, Control
<1>21. CASE DrainDone
  BY <1>21 DEF DrainDone, IInv, TypeOK, Control
<1>22. CASE Exit
  BY <1>22 DEF Exit, IInv, TypeOK, Control
<1>23. CASE RefillWake
  BY <1>23 DEF RefillWake, NextBackend, IInv, TypeOK, Control
<1>24. ASSUME NEW b \in Backends, RefillScan(b)
       PROVE  Control'
  <2>1. Cardinality(queue[b]) \in Nat /\ WarmTarget[b] \in Nat
    BY QueueLength
  <2> QED
    BY <1>24, <2>1 DEF RefillScan, NextBackend, IInv, TypeOK, Control
<1>25. CASE RefillStart
  BY <1>25 DEF RefillStart, Unused, IInv, TypeOK, Control
<1>26. CASE RefillStartFails
  BY <1>26 DEF RefillStartFails, NextBackend, IInv, TypeOK, Control
<1>27. CASE RefillAppend
  BY <1>27 DEF RefillAppend, NextBackend, IInv, TypeOK, Control
<1>28. CASE UNCHANGED vars
  BY <1>28 DEF vars, IInv, TypeOK, Control
<1> QED
  BY <1>1, <1>2, <1>3, <1>4, <1>5, <1>6, <1>7, <1>8, <1>9, <1>10, <1>11,
     <1>12, <1>13, <1>14, <1>15, <1>16, <1>17, <1>18, <1>19, <1>20,
     <1>21, <1>22, <1>23, <1>24, <1>25, <1>26, <1>27, <1>28 DEF Next,
     Call, Proceed, Claim, Release, Drain, Refill, Exited

-----------------------------------------------------------------------------
(* Owners                                                                  *)

\* The owners stay as they are, and what runs goes on running.
OwnersStay ==
  /\ UNCHANGED <<lease, queue, warming>>
  /\ \A p \in Providers : container[p] # NoContainer => container'[p] # NoContainer

\* The steps in which a container changes hands.
HandsOver ==
  \/ ClaimPooled \/ ClaimColdStart \/ ClaimPrepareFails \/ Raise
  \/ ReleaseDiscard \/ ReleaseAppend \/ DrainOne \/ RefillStart \/ RefillAppend

\* Every other step leaves the owners alone.
LEMMA OtherSteps == ASSUME IInv, [Next]_vars PROVE OwnersStay \/ HandsOver
<1> USE DEF OwnersStay
<1>1. ASSUME NEW w \in WorkspaceIds, NEW v \in Versions, InitializeSQLite(w, v)
      PROVE  OwnersStay \/ HandsOver
  BY <1>1 DEF InitializeSQLite
<1>2. ASSUME NEW w \in WorkspaceIds, NEW b \in Backends, NEW v \in Versions, InitializeContainers(w, b, v)
      PROVE  OwnersStay \/ HandsOver
  BY <1>2 DEF InitializeContainers
<1>3. ASSUME NEW w \in WorkspaceIds, NEW t \in Tracks, Use(w, t)
      PROVE  OwnersStay \/ HandsOver
  <2>1. lease[w][t] \in Providers
    BY <1>3 DEF Use, Serving, IInv, Control
  <2>2. [container[lease[w][t]] EXCEPT !.clean = FALSE] # NoContainer
    BY <2>1, TrackContainer, ChangedContainer, NullsAssumption
  <2>3. UNCHANGED <<lease, queue, warming>>
    BY <1>3 DEF Use
  <2>4. \A p \in Providers : container[p] # NoContainer => container'[p] # NoContainer
    BY <1>3, <2>2 DEF Use, IInv, TypeOK
  <2> QED
    BY <2>3, <2>4
<1>4. ASSUME NEW w \in WorkspaceIds, Destroy(w)
      PROVE  OwnersStay \/ HandsOver
  BY <1>4 DEF Destroy
<1>5. CASE Shutdown
  BY <1>5 DEF Shutdown
<1>6. CASE ClaimPooled
  BY <1>6 DEF HandsOver
<1>7. CASE ClaimColdStart
  BY <1>7 DEF HandsOver
<1>8. CASE ClaimColdStartFails
  <2>1. /\ request[current].backend \in Backends
        /\ request[current].version \in Versions
    BY <1>8 DEF ClaimColdStartFails, IInv, Control, Request
  <2> QED
    BY <1>8, <2>1, LaunchedContainer DEF ClaimColdStartFails
<1>9. CASE ClaimPrepare
  <2>1. /\ current \in WorkspaceIds
        /\ lease[current][track] \in Providers
    BY <1>9 DEF ClaimPrepare, IInv, Control
  <2>2. container[lease[current][track]] \in Container
    BY <2>1, TrackContainer DEF IInv, TypeOK
  <2>3. Prepared(container[lease[current][track]], current) # NoContainer
    BY <2>1, <2>2, ChangedContainer, NullsAssumption
  <2>4. UNCHANGED <<lease, queue, warming>>
    BY <1>9 DEF ClaimPrepare
  <2>5. \A p \in Providers : container[p] # NoContainer => container'[p] # NoContainer
    BY <1>9, <2>3 DEF ClaimPrepare, IInv, TypeOK
  <2> QED
    BY <2>4, <2>5
<1>10. CASE ClaimPrepareFails
  BY <1>10 DEF HandsOver
<1>11. CASE Register
  BY <1>11 DEF Register
<1>12. CASE RegisterFails
  BY <1>12 DEF RegisterFails
<1>13. CASE Raise
  BY <1>13 DEF HandsOver
<1>14. CASE Disconnect
  <2>1. /\ current \in WorkspaceIds
        /\ lease[current][track] \in Providers
    BY <1>14 DEF Disconnect, IInv, Control
  <2>2. container[lease[current][track]] \in Container
    BY <2>1, TrackContainer DEF IInv, TypeOK
  <2>3. [container[lease[current][track]] EXCEPT !.nets = @ \ {current}] # NoContainer
    BY <2>1, <2>2, ChangedContainer, NullsAssumption
  <2>4. UNCHANGED <<lease, queue, warming>>
    BY <1>14 DEF Disconnect
  <2>5. \A p \in Providers : container[p] # NoContainer => container'[p] # NoContainer
    BY <1>14, <2>3 DEF Disconnect, IInv, TypeOK
  <2> QED
    BY <2>4, <2>5
<1>15. CASE ReleaseReset
  <2>1. /\ current \in WorkspaceIds
        /\ lease[current][track] \in Providers
    BY <1>15 DEF ReleaseReset, IInv, Control
  <2>2. container[lease[current][track]] \in Container
    BY <2>1, TrackContainer DEF IInv, TypeOK
  <2>3. [container[lease[current][track]] EXCEPT !.clean = TRUE] # NoContainer
    BY <2>1, <2>2, ChangedContainer, NullsAssumption
  <2>4. UNCHANGED <<lease, queue, warming>>
    BY <1>15 DEF ReleaseReset
  <2>5. \A p \in Providers : container[p] # NoContainer => container'[p] # NoContainer
    BY <1>15, <2>3 DEF ReleaseReset, IInv, TypeOK
  <2> QED
    BY <2>4, <2>5
<1>16. CASE ReleaseDiscard
  BY <1>16 DEF HandsOver
<1>17. CASE ReleaseAppend
  BY <1>17 DEF HandsOver
<1>18. CASE RemoveNetwork
  BY <1>18 DEF RemoveNetwork
<1>19. CASE StopPool
  BY <1>19 DEF StopPool
<1>20. CASE DrainOne
  BY <1>20 DEF HandsOver
<1>21. CASE DrainDone
  BY <1>21 DEF DrainDone
<1>22. CASE Exit
  BY <1>22 DEF Exit
<1>23. CASE RefillWake
  BY <1>23 DEF RefillWake
<1>24. ASSUME NEW b \in Backends, RefillScan(b)
       PROVE  OwnersStay \/ HandsOver
  BY <1>24 DEF RefillScan
<1>25. CASE RefillStart
  BY <1>25 DEF HandsOver
<1>26. CASE RefillStartFails
  BY <1>26, LaunchedContainer DEF RefillStartFails, IInv, Control
<1>27. CASE RefillAppend
  BY <1>27 DEF HandsOver
<1>28. CASE UNCHANGED vars
  BY <1>28 DEF vars
<1> QED
  BY <1>1, <1>2, <1>3, <1>4, <1>5, <1>6, <1>7, <1>8, <1>9, <1>10, <1>11,
     <1>12, <1>13, <1>14, <1>15, <1>16, <1>17, <1>18, <1>19, <1>20,
     <1>21, <1>22, <1>23, <1>24, <1>25, <1>26, <1>27, <1>28 DEF Next,
     Call, Proceed, Claim, Release, Drain, Refill, Exited

\* A step leaves no owner with a stopped container.
LEMMA RunningStep == ASSUME IInv, [Next]_vars PROVE OwnedAreRunning'
<1>1. CASE OwnersStay
  BY <1>1 DEF OwnersStay, IInv, OwnedAreRunning, Owned, Leased, Pooled
<1>2. CASE ClaimPooled
  <2>1. PICK p \in Matching : lease' = [lease EXCEPT ![current][track] = p]
    BY <1>2 DEF ClaimPooled
  <2>2. container[p] # NoContainer
    BY <1>2, <2>1 DEF ClaimPooled, Matching, IInv, TypeOK, Control, OwnedAreRunning, Owned, Pooled
  <2>3. \A q \in Providers : Leased(q)' => Leased(q) \/ q = p
    BY <2>1 DEF Leased, IInv, TypeOK
  <2>4. \A q \in Providers : Pooled(q)' => Pooled(q)
    BY <1>2 DEF ClaimPooled, Pooled, IInv, TypeOK
  <2> QED
    BY <1>2, <2>2, <2>3, <2>4 DEF ClaimPooled, IInv, OwnedAreRunning, Owned
<1>3. CASE ClaimColdStart
  <2>1. /\ request[current].backend \in Backends
        /\ request[current].version \in Versions
    BY <1>3 DEF ClaimColdStart, IInv, Control, Request
  <2>2. PICK p \in Unused :
          /\ Launch(p, request[current].backend, request[current].version)
          /\ lease' = [lease EXCEPT ![current][track] = p]
    BY <1>3 DEF ClaimColdStart
  <2>3. /\ container'[p] # NoContainer
        /\ \A q \in Providers : container[q] # NoContainer => container'[q] # NoContainer
    BY <2>1, <2>2, LaunchedContainer
  <2>4. \A q \in Providers : Leased(q)' => Leased(q) \/ q = p
    BY <2>2 DEF Leased, IInv, TypeOK
  <2> QED
    BY <1>3, <2>3, <2>4 DEF ClaimColdStart, IInv, OwnedAreRunning, Owned, Pooled
<1>4. CASE ClaimPrepareFails \/ ReleaseDiscard
  <2>0. PICK p : p = lease[current][track]
    OBVIOUS
  <2>1. p \in Providers /\ current \in WorkspaceIds /\ track \in Tracks
    BY <1>4, <2>0 DEF ClaimPrepareFails, ReleaseDiscard, IInv, Control, TypeOK
  <2>2. /\ lease' = [lease EXCEPT ![current][track] = NoProvider]
        /\ UNCHANGED <<queue, warming>>
    BY <1>4 DEF ClaimPrepareFails, ReleaseDiscard, Released
  <2>3. \A q \in Providers \ {p} : container'[q] = container[q]
    BY <1>4, <2>0, StoppedContainer DEF ClaimPrepareFails, ReleaseDiscard
  <2>4. \A q \in Providers : Owned(q)' => Owned(q) /\ q # p
    BY <2>0, <2>1, <2>2 DEF Owned, Leased, Pooled, IInv, TypeOK, SingleOwner
  <2> QED
    BY <2>3, <2>4 DEF IInv, OwnedAreRunning
<1>5. CASE Raise
  <2>1. \A q \in Providers : Leased(q)' => Leased(q)
    BY <1>5 DEF Raise, NoLeases, Leased, IInv, TypeOK
  <2> QED
    BY <1>5, <2>1 DEF Raise, IInv, OwnedAreRunning, Owned, Pooled
<1>6. CASE ReleaseAppend
  <2>1. \A q \in Providers : Leased(q)' => Leased(q)
    BY <1>6 DEF ReleaseAppend, Released, Leased, IInv, TypeOK
  <2>2. \A q \in Providers : Pooled(q)' => Pooled(q) \/ Leased(q)
    BY <1>6 DEF ReleaseAppend, Pooled, Leased, IInv, TypeOK, Control
  <2> QED
    BY <1>6, <2>1, <2>2 DEF ReleaseAppend, Released, IInv, OwnedAreRunning, Owned
<1>7. CASE DrainOne
  <2>1. PICK b \in Backends : \E p \in queue[b] :
          queue' = [queue EXCEPT ![b] = @ \ {p}] /\ SafeStop(p)
    BY <1>7 DEF DrainOne
  <2>2. PICK p \in queue[b] :
          queue' = [queue EXCEPT ![b] = @ \ {p}] /\ SafeStop(p)
    BY <2>1
  <2>3. UNCHANGED <<lease, warming>>
    BY <1>7 DEF DrainOne
  <2>4. p \in Providers /\ Pooled(p) /\ ~Leased(p) /\ p # warming
    BY <2>2 DEF IInv, TypeOK, SingleOwner, Pooled
  <2>5. \A q \in Providers \ {p} : container'[q] = container[q]
    BY <2>2, StoppedContainer
  <2>6. \A q \in Providers : Pooled(q)' => Pooled(q) /\ q # p
    BY <2>2 DEF Pooled, IInv, TypeOK, SingleOwner
  <2>7. \A q \in Providers : Owned(q)' => Owned(q) /\ q # p
    BY <2>3, <2>4, <2>6 DEF Owned, Leased
  <2> QED
    BY <2>5, <2>7 DEF IInv, OwnedAreRunning
<1>8. CASE RefillStart
  <2>1. PICK p \in Unused : Launch(p, rbackend, DefaultVersion) /\ warming' = p
    BY <1>8 DEF RefillStart
  <2>2. /\ container'[p] # NoContainer
        /\ \A q \in Providers : container[q] # NoContainer => container'[q] # NoContainer
    BY <1>8, <2>1, LaunchedContainer DEF RefillStart, IInv, Control
  <2> QED
    BY <1>8, <2>1, <2>2 DEF RefillStart, IInv, OwnedAreRunning, Owned, Leased, Pooled
<1>9. CASE RefillAppend
  <2>1. \A q \in Providers : Pooled(q)' => Pooled(q) \/ q = warming
    BY <1>9 DEF RefillAppend, Pooled, IInv, TypeOK
  <2> QED
    BY <1>9, <2>1 DEF RefillAppend, IInv, TypeOK, OwnedAreRunning, Owned, Leased
<1> QED
  BY <1>1, <1>2, <1>3, <1>4, <1>5, <1>6, <1>7, <1>8, <1>9, OtherSteps DEF HandsOver

\* A step gives no container a second owner.
LEMMA OwnerStep == ASSUME IInv, [Next]_vars PROVE SingleOwner'
<1>1. CASE OwnersStay
  BY <1>1 DEF OwnersStay, IInv, SingleOwner, Leased, Pooled
<1>2. CASE ClaimPooled
  <2>0. PICK k : k = request[current].backend
    OBVIOUS
  <2>1. current \in WorkspaceIds /\ track \in Tracks /\ k \in Backends
    BY <1>2, <2>0 DEF ClaimPooled, IInv, TypeOK, Control
  <2>2. PICK p \in queue[k] :
          /\ queue' = [queue EXCEPT ![k] = @ \ {p}]
          /\ lease' = [lease EXCEPT ![current][track] = p]
    BY <1>2, <2>0 DEF ClaimPooled, Matching
  <2>3. warming' = warming
    BY <1>2 DEF ClaimPooled
  <2>4. p \in Providers /\ Pooled(p) /\ ~Leased(p) /\ p # warming
    BY <2>1, <2>2 DEF IInv, TypeOK, SingleOwner, Pooled
  <2>5. \A q \in Providers : Leased(q)' => Leased(q) \/ q = p
    BY <2>1, <2>2 DEF IInv, TypeOK, Leased
  <2>6. \A q : Pooled(q)' => Pooled(q) /\ q # p
    BY <2>1, <2>2 DEF IInv, TypeOK, SingleOwner, Pooled
  <2>7. \A b1, b2 \in Backends : \A q \in queue'[b1] \cap queue'[b2] : b1 = b2
    BY <2>1, <2>2 DEF IInv, TypeOK, SingleOwner
  <2>8. \A w1, w2 \in WorkspaceIds, t1, t2 \in Tracks :
          lease'[w1][t1] = lease'[w2][t2] /\ lease'[w1][t1] # NoProvider
            => w1 = w2 /\ t1 = t2
    BY <2>1, <2>2, <2>4 DEF IInv, TypeOK, SingleOwner, Leased
  <2>9. \A q \in Providers : Pooled(q)' => ~Leased(q)'
    BY <2>5, <2>6 DEF IInv, SingleOwner
  <2>10. warming' # NoProvider => ~Pooled(warming)' /\ ~Leased(warming)'
    BY <2>3, <2>4, <2>5, <2>6 DEF IInv, TypeOK, SingleOwner
  <2> QED
    BY <2>7, <2>8, <2>9, <2>10 DEF SingleOwner
<1>3. CASE ClaimColdStart
  <2>1. current \in WorkspaceIds /\ track \in Tracks
    BY <1>3 DEF ClaimColdStart, IInv, TypeOK, Control
  <2>2. PICK p \in Unused : lease' = [lease EXCEPT ![current][track] = p]
    BY <1>3 DEF ClaimColdStart
  <2>3. p \in Providers /\ ~Owned(p)
    BY <2>2 DEF Unused, IInv, OwnedAreRunning
  <2>4. \A q \in Providers : Leased(q)' => Leased(q) \/ q = p
    BY <2>2 DEF Leased, IInv, TypeOK
  <2>5. \A w1, w2 \in WorkspaceIds, t1, t2 \in Tracks :
          lease'[w1][t1] = lease'[w2][t2] /\ lease'[w1][t1] # NoProvider
            => w1 = w2 /\ t1 = t2
    BY <2>1, <2>2, <2>3 DEF IInv, TypeOK, SingleOwner, Owned, Leased
  <2>6. UNCHANGED <<queue, warming>>
    BY <1>3 DEF ClaimColdStart
  <2> QED
    BY <2>3, <2>4, <2>5, <2>6 DEF IInv, TypeOK, SingleOwner, Owned, Pooled
<1>4. CASE ClaimPrepareFails \/ ReleaseDiscard
  <2>1. /\ lease' = [lease EXCEPT ![current][track] = NoProvider]
        /\ UNCHANGED <<queue, warming>>
    BY <1>4 DEF ClaimPrepareFails, ReleaseDiscard, Released
  <2>2. \A w \in WorkspaceIds, t \in Tracks : lease'[w][t] \in {lease[w][t], NoProvider}
    BY <2>1 DEF IInv, TypeOK
  <2> QED
    BY <2>1, <2>2 DEF IInv, TypeOK, SingleOwner, Leased, Pooled
<1>5. CASE Raise
  <2>1. \A w \in WorkspaceIds, t \in Tracks : lease'[w][t] \in {lease[w][t], NoProvider}
    BY <1>5 DEF Raise, NoLeases, IInv, TypeOK
  <2> QED
    BY <1>5, <2>1 DEF Raise, IInv, TypeOK, SingleOwner, Leased, Pooled
<1>6. CASE ReleaseAppend
  <2>0. PICK p, k : p = lease[current][track] /\ k = request[current].backend
    OBVIOUS
  <2>1. /\ current \in WorkspaceIds /\ track \in Tracks /\ k \in Backends
        /\ p \in Providers /\ Leased(p)
    BY <1>6, <2>0 DEF ReleaseAppend, IInv, TypeOK, Control, Leased
  <2>2. /\ queue' = [queue EXCEPT ![k] = @ \cup {p}]
        /\ lease' = [lease EXCEPT ![current][track] = NoProvider]
        /\ warming' = warming
    BY <1>6, <2>0 DEF ReleaseAppend, Released
  <2>3. \A w \in WorkspaceIds, t \in Tracks : lease'[w][t] \in {lease[w][t], NoProvider}
    BY <2>2 DEF IInv, TypeOK
  <2>4. ~Leased(p)'
    BY <2>0, <2>1, <2>2 DEF Leased, IInv, TypeOK, SingleOwner
  <2>5. ~Pooled(p) /\ p # warming
    BY <2>1 DEF IInv, SingleOwner
  <2>6. \A q \in Providers : Pooled(q)' => Pooled(q) \/ q = p
    BY <2>1, <2>2 DEF Pooled, IInv, TypeOK
  <2>7. \A b1, b2 \in Backends : \A q \in queue'[b1] \cap queue'[b2] : b1 = b2
    BY <2>1, <2>2, <2>5 DEF IInv, TypeOK, SingleOwner, Pooled
  <2>8. \A q \in Providers : Leased(q)' => Leased(q)
    BY <2>3 DEF Leased, IInv, TypeOK
  <2>9. \A w1, w2 \in WorkspaceIds, t1, t2 \in Tracks :
          lease'[w1][t1] = lease'[w2][t2] /\ lease'[w1][t1] # NoProvider
            => w1 = w2 /\ t1 = t2
    BY <2>3 DEF IInv, SingleOwner
  <2>10. \A q \in Providers : Pooled(q)' => ~Leased(q)'
    BY <2>4, <2>6, <2>8 DEF IInv, SingleOwner
  <2>11. warming' # NoProvider => ~Pooled(warming)' /\ ~Leased(warming)'
    BY <2>2, <2>5, <2>6, <2>8 DEF IInv, TypeOK, SingleOwner
  <2> QED
    BY <2>7, <2>9, <2>10, <2>11 DEF SingleOwner
<1>7. CASE DrainOne
  <2>1. PICK b \in Backends : \E p \in queue[b] : queue' = [queue EXCEPT ![b] = @ \ {p}]
    BY <1>7 DEF DrainOne
  <2>2. \A b2 \in Backends : queue'[b2] \subseteq queue[b2]
    BY <2>1 DEF IInv, TypeOK
  <2> QED
    BY <1>7, <2>2 DEF DrainOne, IInv, SingleOwner, Leased, Pooled
<1>8. CASE RefillStart
  <2>1. PICK p \in Unused : warming' = p
    BY <1>8 DEF RefillStart
  <2>2. p \in Providers /\ ~Owned(p)
    BY <2>1 DEF Unused, IInv, OwnedAreRunning
  <2> QED
    BY <1>8, <2>1, <2>2 DEF RefillStart, IInv, SingleOwner, Owned, Leased, Pooled
<1>9. CASE RefillAppend
  <2>1. warming \in Providers /\ rbackend \in Backends /\ ~Pooled(warming) /\ ~Leased(warming)
    BY <1>9 DEF RefillAppend, IInv, TypeOK, Control, SingleOwner
  <2>2. /\ queue' = [queue EXCEPT ![rbackend] = @ \cup {warming}]
        /\ warming' = NoProvider /\ lease' = lease
    BY <1>9 DEF RefillAppend
  <2>3. \A b1, b2 \in Backends : \A q \in queue'[b1] \cap queue'[b2] : b1 = b2
    BY <2>1, <2>2 DEF IInv, TypeOK, SingleOwner, Pooled
  <2>4. \A q \in Providers : Pooled(q)' => Pooled(q) \/ q = warming
    BY <2>1, <2>2 DEF Pooled, IInv, TypeOK
  <2> QED
    BY <2>1, <2>2, <2>3, <2>4 DEF IInv, SingleOwner, Leased
<1> QED
  BY <1>1, <1>2, <1>3, <1>4, <1>5, <1>6, <1>7, <1>8, <1>9, OtherSteps DEF HandsOver

-----------------------------------------------------------------------------
(* The theorems                                                            *)

\* The inductive invariant holds in every state of the specification.
LEMMA Invariance == Spec => []IInv
<1>1. IInv /\ [Next]_vars => IInv'
  <2> SUFFICES ASSUME IInv, [Next]_vars PROVE IInv'
    OBVIOUS
  <2>1. TypeOK'
    BY TypeStep
  <2>2. Control'
    BY ControlStep
  <2>3. OwnedAreRunning'
    BY RunningStep
  <2>4. SingleOwner'
    BY OwnerStep
  <2> QED
    BY <2>1, <2>2, <2>3, <2>4 DEF IInv
<1> QED
  BY InitIInv, <1>1, PTL DEF Spec

\* Type correctness of the pool, the workspaces and both threads.
THEOREM TypeCorrect == Spec => []TypeOK
BY Invariance, PTL DEF IInv

\* Whatever the two threads do and whichever library calls fail, a container
\* is never in two queues, tracks or hands.
THEOREM ExclusiveOwnership == Spec => []SingleOwner
BY Invariance, PTL DEF IInv

\* No queue, workspace or thread ever keeps a provider whose container was
\* stopped.
THEOREM OwnersHoldRunningContainers == Spec => []OwnedAreRunning
BY Invariance, PTL DEF IInv
=============================================================================
