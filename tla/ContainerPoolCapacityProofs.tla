---------------------- MODULE ContainerPoolCapacityProofs ----------------------
(***************************************************************************)
(* How many containers the pool and its workspaces hold, whatever fails;   *)
(* and, when no library call fails, that none is lost and what is left     *)
(* running at exit.                                                        *)
(***************************************************************************)
EXTENDS ContainerPoolTenancyProofs

USE ConstantsAssumption DEF Tracks, dockerVars, poolVars, spaceVars, mainVars, refillVars

\* The workspaces that may hold containers.
Occupied == registered \cup (IF pc \in {"idle", "drain"} THEN {} ELSE {current})

\* The containers of a backend and version that idle or serve a track.
Held(p) == Leased(p) \/ Pooled(p)
InUse(b, v) ==
  {p \in Providers : /\ Held(p)
                     /\ container[p].backend = b
                     /\ container[p].version = v}

\* What the refill thread may still append to the queue of a backend.
Pledged(b) == IF rpc \in {"start", "append"} /\ rbackend = b THEN left ELSE 0

\* The bound of PopulationBound.
Most(b, v) == 2 * MaxWorkspaces + (IF v = DefaultVersion THEN WarmTarget[b] ELSE 0)

\* The workspaces are limited, the refill thread's loop too, and so is the
\* sum of what is in use and what the loop will add.
Seats    == Cardinality(Occupied) <= MaxWorkspaces
Pledge   == rpc \in {"start", "append"} => left <= WarmTarget[rbackend]
Limits   ==
  \A b \in Backends, v \in Versions :
    Cardinality(InUse(b, v)) + (IF v = DefaultVersion THEN Pledged(b) ELSE 0) <= Most(b, v)
Capacity == Seats /\ Pledge /\ Limits


-----------------------------------------------------------------------------
(* A server whose library calls all succeed                                *)

\* Each network belongs to a workspace that is served, built or torn down.
Networked == \A w \in networks : request[w] # NoRequest /\ request[w].backend # SQLite

\* No call of initialize fails, and no container is nobody's.
NoLoss == pc # "raise" /\ (\A p \in Providers : ~Orphan(p)) /\ Networked

\* _cleanup has run once.
Late == phase \in {"atexit", "ending", "exited"}

\* The order of the phases, and what _cleanup has done in each.
Closing ==
  /\ phase # "serving" => pc \notin {"claim", "prepare", "register", "raise"}
  /\ pc = "drain" => registered = {} /\ phase \in {"finally", "atexit"}
  /\ Late => registered = {} /\ pc \in {"idle", "drain"}

\* After the first drain only the refill thread fills the queues.
OnlyWarm ==
  Late => \A b \in Backends :
    /\ \A p \in queue[b] : container[p] = Fresh(b, DefaultVersion)
    /\ Cardinality(queue[b]) + Pledged(b) <= WarmTarget[b]


-----------------------------------------------------------------------------
(* What a step does to who holds what                                      *)

\* A container keeps its backend and its version as long as it runs.
LEMMA KindStays ==
  ASSUME Tenancy, [Next]_vars, NEW p \in Providers,
         container[p] # NoContainer, container'[p] # NoContainer
  PROVE  /\ container'[p].backend = container[p].backend
         /\ container'[p].version = container[p].version
<1> DEFINE Same == /\ container'[p].backend = container[p].backend
                   /\ container'[p].version = container[p].version
<1>0. container[p] \in Container
  BY DEF Tenancy, IInv, TypeOK
<1>1. CASE UNCHANGED container
  BY <1>1
<1>2. ASSUME NEW w \in WorkspaceIds, NEW t \in Tracks, lease[w][t] \in Providers,
             \/ container' = [container EXCEPT ![lease[w][t]].clean = FALSE]
             \/ container' = [container EXCEPT ![lease[w][t]].clean = TRUE]
             \/ container' = [container EXCEPT ![lease[w][t]].nets = @ \ {current}]
             \/ container' = [container EXCEPT ![lease[w][t]] = Prepared(@, current)]
      PROVE  Same
  <2>1. CASE p = lease[w][t]
    <3>1. \/ container'[p] = [container[p] EXCEPT !.clean = FALSE]
          \/ container'[p] = [container[p] EXCEPT !.clean = TRUE]
          \/ container'[p] = [container[p] EXCEPT !.nets = @ \ {current}]
          \/ container'[p] = Prepared(container[p], current)
      BY <1>2, <2>1 DEF Tenancy, IInv, TypeOK
    <3> QED
      BY <1>0, <3>1 DEF Prepared, Container
  <2>2. CASE p # lease[w][t]
    <3>1. container'[p] = container[p]
      BY <1>2, <2>2 DEF Tenancy, IInv, TypeOK
    <3> QED
      BY <3>1
  <2> QED
    BY <2>1, <2>2
<1>3. ASSUME NEW q \in Unused, NEW b, NEW v, Launch(q, b, v)
      PROVE  Same
  BY <1>3 DEF Launch, Unused, Tenancy, IInv, TypeOK
<1>4. ASSUME NEW q, SafeStop(q)
      PROVE  Same
  BY <1>4 DEF SafeStop, Tenancy, IInv, TypeOK
<1>5. CASE Call \/ \E w \in WorkspaceIds : Destroy(w)
  <2>1. ASSUME NEW w \in WorkspaceIds, NEW t \in Tracks, Use(w, t) PROVE Same
    BY <1>2, <2>1 DEF Use, Serving, Tenancy, IInv, Control
  <2> QED
    BY <1>1, <1>5, <2>1 DEF Call, InitializeSQLite, InitializeContainers, Destroy, Shutdown
<1>6. CASE Claim \/ Register \/ RegisterFails \/ Raise
  <2>1. CASE ClaimPrepare
    BY <1>2, <2>1 DEF ClaimPrepare, Tenancy, IInv, TypeOK, Control
  <2> QED
    BY <1>1, <1>3, <1>4, <1>6, <2>1 DEF Claim, ClaimPooled, ClaimColdStart, ClaimColdStartFails,
       ClaimPrepareFails, Register, RegisterFails, Raise
<1>7. CASE Release
  <2>1. CASE Disconnect \/ ReleaseReset
    BY <1>1, <1>2, <2>1 DEF Disconnect, ReleaseReset, Tenancy, IInv, TypeOK, Control
  <2> QED
    BY <1>1, <1>4, <1>7, <2>1 DEF Release, ReleaseDiscard, ReleaseAppend, RemoveNetwork
<1>8. CASE Drain \/ Exit \/ Exited \/ UNCHANGED vars
  BY <1>1, <1>4, <1>8 DEF Drain, StopPool, DrainOne, DrainDone, Exit, Exited, vars
<1>9. CASE Refill
  BY <1>1, <1>3, <1>9 DEF Refill, RefillWake, RefillScan, RefillStart, RefillStartFails, RefillAppend
<1> QED
  BY <1>5, <1>6, <1>7, <1>8, <1>9 DEF Next, Proceed

\* Only a cold start and the refill thread add to the containers in use.
LEMMA HeldBefore ==
  ASSUME Tenancy, [Next]_vars, ~ClaimColdStart, ~RefillAppend, NEW p \in Providers, Held(p)'
  PROVE  Held(p)
<1>0. p # NoProvider
  BY ConstantsAssumption
<1>1. CASE OwnersStay
  BY <1>1 DEF OwnersStay, Held, Leased, Pooled
<1>2. CASE ClaimPooled
  <2>1. PICK k : k = request[current].backend
    OBVIOUS
  <2>2. current \in WorkspaceIds /\ track \in Tracks /\ k \in Backends
    BY <1>2, <2>1 DEF ClaimPooled, Tenancy, IInv, TypeOK, Control
  <2>3. PICK q \in queue[k] : /\ queue' = [queue EXCEPT ![k] = @ \ {q}]
                              /\ lease' = [lease EXCEPT ![current][track] = q]
    BY <1>2, <2>1 DEF ClaimPooled, Matching
  <2>4. Pooled(p)' => Pooled(p)
    BY <2>3 DEF Pooled, Tenancy, IInv, TypeOK
  <2>5. Leased(p)' => Leased(p) \/ p = q
    BY <2>2, <2>3 DEF Leased, Tenancy, IInv, TypeOK
  <2>6. Pooled(q)
    BY <2>2, <2>3 DEF Pooled
  <2> QED
    BY <2>4, <2>5, <2>6 DEF Held
<1>3. CASE ClaimPrepareFails \/ ReleaseDiscard
  <2>1. /\ queue' = queue
        /\ lease' = [lease EXCEPT ![current][track] = NoProvider]
    BY <1>3 DEF ClaimPrepareFails, ReleaseDiscard, Released
  <2> QED
    BY <1>0, <2>1 DEF Held, Leased, Pooled, Tenancy, IInv, TypeOK
<1>4. CASE Raise
  <2>1. queue' = queue /\ lease' = [lease EXCEPT ![current] = NoLeases]
    BY <1>4 DEF Raise
  <2> QED
    BY <1>0, <2>1 DEF Held, Leased, Pooled, NoLeases, Tenancy, IInv, TypeOK
<1>5. CASE ReleaseAppend
  <2>1. PICK q, k : q = lease[current][track] /\ k = request[current].backend
    OBVIOUS
  <2>2. /\ queue' = [queue EXCEPT ![k] = @ \cup {q}]
        /\ lease' = [lease EXCEPT ![current][track] = NoProvider]
        /\ current \in WorkspaceIds /\ track \in Tracks
    BY <1>5, <2>1 DEF ReleaseAppend, Released, Tenancy, IInv, TypeOK, Control
  <2>3. Pooled(p)' => Pooled(p) \/ p = q
    BY <2>2 DEF Pooled, Tenancy, IInv, TypeOK
  <2>4. p = q => Leased(p)
    BY <2>1, <2>2 DEF Leased
  <2>5. Leased(p)' => Leased(p)
    BY <1>0, <2>2 DEF Leased, Tenancy, IInv, TypeOK
  <2> QED
    BY <2>3, <2>4, <2>5 DEF Held
<1>6. CASE DrainOne
  <2>1. \A b \in Backends : queue'[b] \subseteq queue[b]
    BY <1>6 DEF DrainOne, Tenancy, IInv, TypeOK
  <2> QED
    BY <1>6, <2>1 DEF DrainOne, Held, Leased, Pooled
<1>7. CASE RefillStart
  BY <1>7 DEF RefillStart, Held, Leased, Pooled
<1> QED
  BY <1>1, <1>2, <1>3, <1>4, <1>5, <1>6, <1>7, OtherSteps DEF HandsOver, Tenancy


-----------------------------------------------------------------------------
(* Counting                                                                *)

\* The sets that are counted are finite.
LEMMA Counted ==
  ASSUME NEW S \in SUBSET Providers
  PROVE  IsFiniteSet(S) /\ Cardinality(S) \in Nat
BY ConstantsAssumption, FS_Subset, FS_CardinalityType

LEMMA CountedBelow ==
  ASSUME NEW S \in SUBSET Providers, NEW T \in SUBSET S
  PROVE  /\ Cardinality(S) \in Nat /\ Cardinality(T) \in Nat
         /\ Cardinality(T) <= Cardinality(S)
<1>1. IsFiniteSet(S) /\ Cardinality(S) \in Nat
  BY Counted
<1> QED
  BY <1>1, Counted, FS_Subset

LEMMA OneMore ==
  ASSUME NEW S \in SUBSET Providers, NEW x
  PROVE  /\ Cardinality(S \cup {x}) \in Nat /\ Cardinality(S) \in Nat
         /\ Cardinality(S \cup {x}) <= Cardinality(S) + 1
<1>1. IsFiniteSet(S) /\ Cardinality(S) \in Nat
  BY Counted
<1>2. /\ IsFiniteSet(S \cup {x})
      /\ Cardinality(S \cup {x}) = IF x \in S THEN Cardinality(S) ELSE Cardinality(S) + 1
  BY <1>1, FS_AddElement
<1> QED
  BY <1>1, <1>2

LEMMA OccupiedIsFinite ==
  ASSUME Tenancy
  PROVE  /\ Occupied \subseteq WorkspaceIds
         /\ IsFiniteSet(Occupied) /\ Cardinality(Occupied) \in Nat
<1>1. Occupied \in SUBSET WorkspaceIds
  BY DEF Occupied, Tenancy, IInv, TypeOK, Control
<1> QED
  BY <1>1, ConstantsAssumption, FS_Subset, FS_CardinalityType

\* Only an occupied workspace holds containers.
LEMMA TenantsAreOccupied ==
  ASSUME Tenancy, NEW w \in WorkspaceIds, NEW t \in Tracks, lease[w][t] # NoProvider
  PROVE  w \in Occupied
BY DEF Tenancy, Slots, Busy, Occupied

\* The providers behind one track of the workspaces.
Behind(t) == {p \in Providers : \E w \in WorkspaceIds : lease[w][t] = p}

LEMMA BehindTrack ==
  ASSUME Tenancy, NEW t \in Tracks
  PROVE  IsFiniteSet(Behind(t)) /\ Cardinality(Behind(t)) \in Nat
         /\ Cardinality(Behind(t)) <= Cardinality(Occupied)
<1> DEFINE S == {w \in Occupied : lease[w][t] \in Providers}
           f == [w \in S |-> lease[w][t]]
<1>1. S \in SUBSET Occupied
  OBVIOUS
<1>2. IsFiniteSet(S) /\ Cardinality(S) <= Cardinality(Occupied) /\ Cardinality(S) \in Nat
  BY <1>1, OccupiedIsFinite, FS_Subset, FS_CardinalityType
<1>3. f \in Surjection(S, Behind(t))
  <2>1. f \in [S -> Behind(t)]
    BY OccupiedIsFinite DEF Behind
  <2>2. ASSUME NEW p \in Behind(t) PROVE \E w \in S : f[w] = p
    <3>1. PICK w \in WorkspaceIds : lease[w][t] = p
      BY DEF Behind
    <3>2. p \in Providers /\ p # NoProvider
      BY ConstantsAssumption DEF Behind
    <3>3. w \in S
      BY <3>1, <3>2, TenantsAreOccupied
    <3> QED
      BY <3>1, <3>3
  <2> QED
    BY <2>1, <2>2 DEF Surjection
<1>4. IsFiniteSet(Behind(t)) /\ Cardinality(Behind(t)) <= Cardinality(S)
  BY <1>2, <1>3, FS_Surjection
<1>5. Cardinality(Behind(t)) \in Nat
  BY <1>4, FS_CardinalityType
<1> QED
  BY <1>2, <1>4, <1>5, OccupiedIsFinite

\* The workspaces hold two containers each.
Tenanted == {p \in Providers : Leased(p)}
TwoEachFit == Cardinality(Tenanted) \in Nat /\ Cardinality(Tenanted) <= 2 * MaxWorkspaces

LEMMA TwoEach == ASSUME Tenancy, Seats PROVE TwoEachFit
<1>1. Tenanted = Behind("a") \cup Behind("b")
  BY DEF Tenanted, Leased, Behind
<1>2. /\ IsFiniteSet(Behind("a")) /\ Cardinality(Behind("a")) \in Nat
      /\ Cardinality(Behind("a")) <= Cardinality(Occupied)
  BY BehindTrack
<1>3. /\ IsFiniteSet(Behind("b")) /\ Cardinality(Behind("b")) \in Nat
      /\ Cardinality(Behind("b")) <= Cardinality(Occupied)
  BY BehindTrack
<1>4. Cardinality(Behind("a") \cap Behind("b")) \in Nat
  <2>1. Behind("a") \cap Behind("b") \in SUBSET Providers
    BY DEF Behind
  <2> QED
    BY <2>1, Counted
<1>5. Cardinality(Behind("a") \cup Behind("b"))
        = Cardinality(Behind("a")) + Cardinality(Behind("b"))
          - Cardinality(Behind("a") \cap Behind("b"))
  BY <1>2, <1>3, FS_Union
<1>6. Cardinality(Behind("a") \cup Behind("b")) \in Nat
  <2>1. Behind("a") \cup Behind("b") \in SUBSET Providers
    BY DEF Behind
  <2> QED
    BY <2>1, Counted
<1>7. Cardinality(Occupied) \in Nat /\ Cardinality(Occupied) <= MaxWorkspaces /\ MaxWorkspaces \in Nat
  BY OccupiedIsFinite, ConstantsAssumption DEF Seats
<1>8. Cardinality(Behind("a") \cup Behind("b")) <= 2 * MaxWorkspaces
  BY <1>2, <1>3, <1>4, <1>5, <1>7
<1> QED
  BY <1>1, <1>6, <1>8 DEF TwoEachFit

LEMMA TwoEachNext == Tenancy' /\ Seats' => TwoEachFit'
<1>1. Tenancy /\ Seats => TwoEachFit
  BY TwoEach
<1> QED
  BY <1>1, PTL

-----------------------------------------------------------------------------
(* The limits                                                              *)

\* A workspace is begun only when there is a seat, and keeps it until it is
\* destroyed or given up.
LEMMA SeatsStep == ASSUME Tenancy, Seats, [Next]_vars PROVE Seats'
<1>0. /\ IsFiniteSet(Occupied) /\ Cardinality(Occupied) \in Nat /\ Cardinality(Occupied) <= MaxWorkspaces
      /\ MaxWorkspaces \in Nat
  BY OccupiedIsFinite, ConstantsAssumption DEF Seats
<1>1. ASSUME Occupied' \subseteq Occupied PROVE Seats'
  <2>1. Cardinality(Occupied') \in Nat /\ Cardinality(Occupied') <= Cardinality(Occupied)
    BY <1>0, <1>1, FS_Subset, FS_CardinalityType
  <2> QED
    BY <1>0, <2>1 DEF Seats
<1>2. ASSUME NEW w \in WorkspaceIds, CanInitialize(w), Occupied' = registered \cup {w} PROVE Seats'
  <2>1. Occupied = registered /\ Cardinality(registered) < MaxWorkspaces
    BY <1>2 DEF CanInitialize, Serving, Occupied
  <2>2. /\ IsFiniteSet(registered \cup {w})
        /\ Cardinality(registered \cup {w})
             = IF w \in registered THEN Cardinality(registered) ELSE Cardinality(registered) + 1
    BY <1>0, <2>1, FS_AddElement
  <2>3. Cardinality(registered \cup {w}) <= MaxWorkspaces
    BY <1>0, <2>1, <2>2
  <2> QED
    BY <1>2, <2>3 DEF Seats
<1>3. CASE Call \/ \E w \in WorkspaceIds : Destroy(w)
  <2>1. ASSUME NEW w \in WorkspaceIds, NEW v \in Versions, InitializeSQLite(w, v) PROVE Seats'
    <3>1. Occupied' = registered \cup {w}
      BY <2>1 DEF InitializeSQLite, CanInitialize, Serving, Occupied
    <3> QED
      BY <1>2, <2>1, <3>1 DEF InitializeSQLite
  <2>2. ASSUME NEW w \in WorkspaceIds, NEW b \in Backends, NEW v \in Versions,
               InitializeContainers(w, b, v) PROVE Seats'
    <3>1. Occupied' = registered \cup {w}
      BY <2>2 DEF InitializeContainers, CanInitialize, Serving, Occupied
    <3> QED
      BY <1>2, <2>2, <3>1 DEF InitializeContainers
  <2>3. ASSUME NEW w \in WorkspaceIds, Destroy(w) PROVE Occupied' \subseteq Occupied
    BY <2>3 DEF Destroy, Occupied
  <2>4. CASE Shutdown \/ \E w \in WorkspaceIds, t \in Tracks : Use(w, t)
    BY <1>1, <2>4 DEF Shutdown, Use, Occupied
  <2> QED
    BY <1>1, <1>3, <2>1, <2>2, <2>3, <2>4 DEF Call
<1>4. CASE Claim \/ Register \/ RegisterFails \/ Raise
  <2>1. Occupied' \subseteq Occupied
    BY <1>4 DEF Claim, ClaimPooled, ClaimColdStart, ClaimColdStartFails, ClaimPrepare,
       ClaimPrepareFails, Register, RegisterFails, Raise, Occupied
  <2> QED
    BY <1>1, <2>1
<1>5. CASE Release
  <2>1. Occupied' \subseteq Occupied
    BY <1>5 DEF Release, Disconnect, ReleaseReset, ReleaseDiscard, ReleaseAppend, Released,
       RemoveNetwork, Occupied
  <2> QED
    BY <1>1, <2>1
<1>6. CASE Drain \/ Exit \/ Exited \/ UNCHANGED vars
  <2>1. Occupied' \subseteq Occupied
    BY <1>6 DEF Drain, StopPool, DrainOne, DrainDone, Exit, Exited, vars, Occupied
  <2> QED
    BY <1>1, <2>1
<1>7. CASE Refill
  <2>1. Occupied' \subseteq Occupied
    BY <1>7 DEF Refill, RefillWake, RefillScan, RefillStart, RefillStartFails, RefillAppend, Occupied
  <2> QED
    BY <1>1, <2>1
<1> QED
  BY <1>3, <1>4, <1>5, <1>6, <1>7 DEF Next, Proceed


\* The main thread does not touch the refill thread's variables.
LEMMA MainLeavesRefill ==
  ASSUME [Next]_vars, ~Refill
  PROVE  UNCHANGED <<rpc, rbackend, left>>
<1>1. CASE Call \/ \E w \in WorkspaceIds : Destroy(w)
  BY <1>1 DEF Call, InitializeSQLite, InitializeContainers, Use, Destroy, Shutdown
<1>2. CASE Claim \/ Register \/ RegisterFails \/ Raise
  BY <1>2 DEF Claim, ClaimPooled, ClaimColdStart, ClaimColdStartFails, ClaimPrepare,
     ClaimPrepareFails, Register, RegisterFails, Raise
<1>3. CASE Release
  BY <1>3 DEF Release, Disconnect, ReleaseReset, ReleaseDiscard, ReleaseAppend, Released, RemoveNetwork
<1>4. CASE Drain \/ Exit \/ Exited \/ UNCHANGED vars
  BY <1>4 DEF Drain, StopPool, DrainOne, DrainDone, Exit, Exited, vars
<1> QED
  BY <1>1, <1>2, <1>3, <1>4 DEF Next, Proceed

\* The refill thread's loop makes no more containers than the target.
LEMMA PledgeStep == ASSUME Tenancy, Pledge, [Next]_vars PROVE Pledge'
<1>1. ASSUME NEW b \in Backends, RefillScan(b) PROVE Pledge'
  <2>1. Cardinality(queue[b]) \in Nat /\ WarmTarget[b] \in Nat
    BY QueueLength, ConstantsAssumption DEF Tenancy
  <2> QED
    BY <1>1, <2>1 DEF RefillScan, NextBackend, Pledge
<1>2. CASE RefillAppend
  <2>1. left \in Nat /\ WarmTarget[rbackend] \in Nat
    BY <1>2, ConstantsAssumption DEF RefillAppend, Tenancy, IInv, TypeOK, Control
  <2> QED
    BY <1>2, <2>1 DEF RefillAppend, NextBackend, Pledge
<1>3. CASE RefillWake \/ RefillStart \/ RefillStartFails
  BY <1>3 DEF RefillWake, RefillStart, RefillStartFails, NextBackend, Pledge
<1>4. CASE ~Refill
  <2>1. UNCHANGED <<rpc, rbackend, left>>
    BY <1>4, MainLeavesRefill
  <2> QED
    BY <2>1 DEF Pledge
<1> QED
  BY <1>1, <1>2, <1>3, <1>4 DEF Refill

\* What the thread may still append is a number, within the target.
LEMMA PledgedWithin ==
  ASSUME Tenancy, Pledge, NEW b \in Backends
  PROVE  Pledged(b) \in Nat /\ Pledged(b) <= WarmTarget[b] /\ WarmTarget[b] \in Nat
BY ConstantsAssumption DEF Pledged, Pledge, Tenancy, IInv, TypeOK

\* What the thread may still append only grows when it looks at the queue.
LEMMA PledgedStep ==
  ASSUME Tenancy, [Next]_vars, \A c \in Backends : ~RefillScan(c), NEW b \in Backends
  PROVE  Pledged(b)' \in Nat /\ Pledged(b)' <= Pledged(b)
<1>0. left \in Nat
  BY DEF Tenancy, IInv, TypeOK
<1>1. CASE RefillWake \/ RefillStart \/ RefillStartFails
  BY <1>0, <1>1 DEF RefillWake, RefillStart, RefillStartFails, NextBackend, Pledged
<1>2. CASE RefillAppend
  <2>1. left > 0
    BY <1>2 DEF RefillAppend, Tenancy, IInv, Control
  <2> QED
    BY <1>0, <1>2, <2>1 DEF RefillAppend, NextBackend, Pledged
<1>3. CASE ~Refill
  <2>1. UNCHANGED <<rpc, rbackend, left>>
    BY <1>3, MainLeavesRefill
  <2> QED
    BY <1>0, <2>1 DEF Pledged
<1> QED
  BY <1>1, <1>2, <1>3 DEF Refill


\* A container in use was in use before, as one of the same kind.
LEMMA InUseBefore ==
  ASSUME Tenancy, Tenancy', [Next]_vars, ~ClaimColdStart, ~RefillAppend,
         NEW b \in Backends, NEW v \in Versions
  PROVE  InUse(b, v)' \subseteq InUse(b, v)
<1> SUFFICES ASSUME NEW p \in Providers, Held(p)', container'[p].backend = b, container'[p].version = v
             PROVE  p \in InUse(b, v)
  BY DEF InUse
<1>1. Held(p)
  BY HeldBefore
<1>2. container[p] # NoContainer
  BY <1>1 DEF Held, Owned, Tenancy, IInv, OwnedAreRunning
<1>3. container'[p] # NoContainer
  <2>1. OwnedAreRunning'
    BY DEF Tenancy, IInv
  <2>2. Owned(p)'
    BY DEF Held, Owned
  <2> QED
    BY <2>1, <2>2 DEF OwnedAreRunning
<1>4. container[p].backend = b /\ container[p].version = v
  BY <1>2, <1>3, KindStays
<1> QED
  BY <1>1, <1>4 DEF InUse

\* A backend's containers of the default version serve a track or idle in its queue.
LEMMA InUseSplit ==
  ASSUME Tenancy, Seats, NEW b \in Backends, NEW v \in Versions
  PROVE  /\ Cardinality(InUse(b, v)) \in Nat
         /\ Cardinality(InUse(b, v)) <= 2 * MaxWorkspaces + Cardinality(queue[b])
         /\ (\A p \in queue[b] : container[p].version # v) =>
              Cardinality(InUse(b, v)) <= 2 * MaxWorkspaces
<1>0. TwoEachFit /\ MaxWorkspaces \in Nat /\ Cardinality(queue[b]) \in Nat
  BY TwoEach, QueueLength, ConstantsAssumption DEF Tenancy
<1>1. queue[b] \in SUBSET Providers /\ Tenanted \in SUBSET Providers
  BY DEF Tenanted, Tenancy, IInv, TypeOK
<1>2. IsFiniteSet(queue[b]) /\ IsFiniteSet(Tenanted)
  BY <1>1, Counted
<1>3. \A p \in InUse(b, v) : p \in Tenanted \/ p \in queue[b]
  BY DEF InUse, Held, Pooled, Tenanted, Tenancy, Ready, IdleAreReady
<1>4. Cardinality(InUse(b, v)) \in Nat
  <2>1. InUse(b, v) \in SUBSET Providers
    BY DEF InUse
  <2> QED
    BY <2>1, Counted
<1>5. Cardinality(InUse(b, v)) <= 2 * MaxWorkspaces + Cardinality(queue[b])
  <2>1. Cardinality(Tenanted \cup queue[b])
          = Cardinality(Tenanted) + Cardinality(queue[b]) - Cardinality(Tenanted \cap queue[b])
    BY <1>2, FS_Union
  <2>2. Cardinality(Tenanted \cap queue[b]) \in Nat
    <3>1. Tenanted \cap queue[b] \in SUBSET Providers
      BY <1>1
    <3> QED
      BY <3>1, Counted
  <2>3. /\ Cardinality(InUse(b, v)) <= Cardinality(Tenanted \cup queue[b])
        /\ Cardinality(Tenanted \cup queue[b]) \in Nat
    <3>1. InUse(b, v) \in SUBSET (Tenanted \cup queue[b])
      BY <1>3
    <3>2. Tenanted \cup queue[b] \in SUBSET Providers
      BY <1>1
    <3> QED
      BY <3>1, <3>2, CountedBelow
  <2> QED
    BY <1>0, <1>4, <2>1, <2>2, <2>3 DEF TwoEachFit
<1>6. ASSUME \A p \in queue[b] : container[p].version # v
      PROVE  Cardinality(InUse(b, v)) <= 2 * MaxWorkspaces
  <2>1. InUse(b, v) \in SUBSET Tenanted
    BY <1>3, <1>6 DEF InUse
  <2>2. Cardinality(InUse(b, v)) <= Cardinality(Tenanted)
    BY <1>1, <2>1, CountedBelow
  <2> QED
    BY <1>0, <1>4, <2>2 DEF TwoEachFit
<1> QED
  BY <1>4, <1>5, <1>6

\* What is in use stays in use at most, and the loop promises no more.
LEMMA LimitsShrink ==
  ASSUME Tenancy, Tenancy', Seats, Pledge, Limits, [Next]_vars, ~ClaimColdStart, ~RefillAppend,
         \A c \in Backends : ~RefillScan(c)
  PROVE  Limits'
<1> SUFFICES ASSUME NEW b \in Backends, NEW v \in Versions
             PROVE  Cardinality(InUse(b, v))' + (IF v = DefaultVersion THEN Pledged(b)' ELSE 0)
                      <= Most(b, v)
  BY DEF Limits, Most
<1>1. InUse(b, v)' \subseteq InUse(b, v) /\ InUse(b, v) \in SUBSET Providers
  BY InUseBefore DEF InUse
<1>2. /\ Cardinality(InUse(b, v)) \in Nat /\ Cardinality(InUse(b, v))' \in Nat
      /\ Cardinality(InUse(b, v))' <= Cardinality(InUse(b, v))
  BY <1>1, CountedBelow
<1>3. Pledged(b)' \in Nat /\ Pledged(b)' <= Pledged(b) /\ Pledged(b) \in Nat
  BY PledgedStep, PledgedWithin
<1>4. /\ Cardinality(InUse(b, v)) + (IF v = DefaultVersion THEN Pledged(b) ELSE 0) <= Most(b, v)
      /\ Most(b, v) \in Nat
  BY ConstantsAssumption DEF Limits, Most
<1> QED
  BY <1>2, <1>3, <1>4

\* The refill thread pledges what the queue lacks.
LEMMA LimitsScan ==
  ASSUME Tenancy, Tenancy', Seats, Limits, NEW c \in Backends, RefillScan(c)
  PROVE  Limits'
<1> SUFFICES ASSUME NEW b \in Backends, NEW v \in Versions
             PROVE  Cardinality(InUse(b, v))' + (IF v = DefaultVersion THEN Pledged(b)' ELSE 0)
                      <= Most(b, v)
  BY DEF Limits, Most
<1>1. InUse(b, v)' = InUse(b, v)
  BY DEF RefillScan, InUse, Held, Leased, Pooled
<1>2. /\ Cardinality(InUse(b, v)) \in Nat
      /\ Cardinality(InUse(b, v)) <= 2 * MaxWorkspaces + Cardinality(queue[b])
  BY InUseSplit
<1>3. /\ WarmTarget[b] \in Nat /\ MaxWorkspaces \in Nat /\ Cardinality(queue[b]) \in Nat
      /\ left \in Nat
  BY QueueLength, ConstantsAssumption DEF Tenancy, IInv, TypeOK
<1>4. Cardinality(InUse(b, v)) <= Most(b, v)
  <2>1. /\ Cardinality(InUse(b, v)) + (IF v = DefaultVersion THEN Pledged(b) ELSE 0) <= Most(b, v)
        /\ Pledged(b) \in Nat /\ Most(b, v) \in Nat
    BY <1>3 DEF Limits, Pledged, Most
  <2> QED
    BY <1>2, <2>1
<1>5. CASE Pledged(b)' = 0
  BY <1>1, <1>2, <1>4, <1>5 DEF Most
<1>6. CASE Pledged(b)' # 0
  <2>1. Pledged(b)' = WarmTarget[b] - Cardinality(queue[b])
    BY <1>6 DEF RefillScan, NextBackend, Pledged
  <2>2. CASE v = DefaultVersion
    BY <1>1, <1>2, <1>3, <2>1, <2>2 DEF Most
  <2>3. CASE v # DefaultVersion
    BY <1>1, <1>2, <1>4, <2>3
  <2> QED
    BY <2>2, <2>3
<1> QED
  BY <1>5, <1>6


\* The refill thread appends what it pledged.
LEMMA LimitsAppend ==
  ASSUME Tenancy, Tenancy', Seats, Limits, RefillAppend
  PROVE  Limits'
<1> SUFFICES ASSUME NEW b \in Backends, NEW v \in Versions
             PROVE  Cardinality(InUse(b, v))' + (IF v = DefaultVersion THEN Pledged(b)' ELSE 0)
                      <= Most(b, v)
  BY DEF Limits, Most
<1>0. PICK q, k : q = warming /\ k = rbackend
  OBVIOUS
<1>1. /\ q \in Providers /\ k \in Backends /\ left \in Nat /\ left > 0
      /\ queue' = [queue EXCEPT ![k] = @ \cup {q}]
      /\ UNCHANGED <<container, lease>>
  BY <1>0 DEF RefillAppend, Tenancy, IInv, TypeOK, Control
<1>2. container[q] = Fresh(k, DefaultVersion)
  BY <1>0, <1>1, ConstantsAssumption DEF Tenancy, Ready, WarmingIsFresh
<1>3. \A p \in Providers : Held(p)' => Held(p) \/ p = q
  BY <1>1 DEF Held, Leased, Pooled, Tenancy, IInv, TypeOK
<1>4. /\ InUse(b, v) \in SUBSET Providers /\ IsFiniteSet(InUse(b, v))
      /\ Cardinality(InUse(b, v)) \in Nat
  <2>1. InUse(b, v) \in SUBSET Providers
    BY DEF InUse
  <2> QED
    BY <2>1, Counted
<1>5. /\ Cardinality(InUse(b, v)) + (IF v = DefaultVersion THEN Pledged(b) ELSE 0) <= Most(b, v)
      /\ Most(b, v) \in Nat
  BY ConstantsAssumption DEF Limits, Most
<1>6. Pledged(b) = (IF b = k THEN left ELSE 0) /\ Pledged(b)' = (IF b = k THEN left - 1 ELSE 0)
  BY <1>0, <1>1, ConstantsAssumption DEF RefillAppend, NextBackend, Pledged
<1>7. CASE b = k /\ v = DefaultVersion
  <2>1. InUse(b, v)' \in SUBSET (InUse(b, v) \cup {q})
    BY <1>1, <1>3 DEF InUse
  <2>2. /\ Cardinality(InUse(b, v) \cup {q}) <= Cardinality(InUse(b, v)) + 1
        /\ Cardinality(InUse(b, v) \cup {q}) \in Nat
    BY <1>4, OneMore
  <2>3. /\ Cardinality(InUse(b, v))' \in Nat
        /\ Cardinality(InUse(b, v))' <= Cardinality(InUse(b, v) \cup {q})
    <3>1. InUse(b, v) \cup {q} \in SUBSET Providers
      BY <1>1, <1>4
    <3> QED
      BY <2>1, <3>1, CountedBelow
  <2> QED
    BY <1>1, <1>4, <1>5, <1>6, <1>7, <2>2, <2>3
<1>8. CASE ~(b = k /\ v = DefaultVersion)
  <2>1. container[q].backend = k /\ container[q].version = DefaultVersion
    BY <1>2 DEF Fresh
  <2>2. InUse(b, v)' \in SUBSET InUse(b, v)
    BY <1>1, <1>3, <1>8, <2>1 DEF InUse
  <2>3. /\ Cardinality(InUse(b, v))' \in Nat
        /\ Cardinality(InUse(b, v))' <= Cardinality(InUse(b, v))
    BY <1>4, <2>2, CountedBelow
  <2> QED
    BY <1>1, <1>4, <1>5, <1>6, <1>8, <2>3
<1> QED
  BY <1>7, <1>8

\* A version that is not in the pool is in use at most twice a workspace.
NotPooled(b, v) == \A p \in queue[b] : container[p].version # v

LEMMA OnlyTenants ==
  Tenancy /\ Seats =>
    \A b \in Backends, v \in Versions :
      NotPooled(b, v) => /\ Cardinality(InUse(b, v)) \in Nat
                         /\ Cardinality(InUse(b, v)) <= 2 * MaxWorkspaces
BY InUseSplit DEF NotPooled

LEMMA OnlyTenantsNext ==
  Tenancy' /\ Seats' =>
    (\A b \in Backends, v \in Versions :
       NotPooled(b, v) => /\ Cardinality(InUse(b, v)) \in Nat
                          /\ Cardinality(InUse(b, v)) <= 2 * MaxWorkspaces)'
BY OnlyTenants, PTL

\* A container is started cold only when the pool has none of its kind.
LEMMA LimitsColdStart ==
  ASSUME Tenancy, Tenancy', Seats', Pledge, Limits, ClaimColdStart
  PROVE  Limits'
<1> SUFFICES ASSUME NEW b \in Backends, NEW v \in Versions
             PROVE  Cardinality(InUse(b, v))' + (IF v = DefaultVersion THEN Pledged(b)' ELSE 0)
                      <= Most(b, v)
  BY DEF Limits, Most
<1>0. PICK k, u : k = request[current].backend /\ u = request[current].version
  OBVIOUS
<1>1. /\ \A p \in queue[k] : container[p].version # u
      /\ current \in WorkspaceIds /\ track \in Tracks
      /\ UNCHANGED <<queue, rpc, rbackend, left>>
  BY <1>0 DEF ClaimColdStart, Matching, Tenancy, IInv, TypeOK, Control
<1>2. PICK q \in Unused : Launch(q, k, u) /\ lease' = [lease EXCEPT ![current][track] = q]
  BY <1>0 DEF ClaimColdStart
<1>3. q \in Providers /\ container'[q] = Fresh(k, u) /\ OnlyChanges(q) /\ OwnedStay
  BY <1>2, LaunchIsApart DEF Tenancy
<1>4. /\ Pledged(b)' = Pledged(b) /\ Pledged(b) \in Nat /\ Pledged(b) <= WarmTarget[b]
      /\ WarmTarget[b] \in Nat /\ MaxWorkspaces \in Nat
  BY <1>1, PledgedWithin, ConstantsAssumption DEF Pledged
<1>5. CASE b = k /\ v = u
  <2>1. \A p \in queue'[b] : container'[p] = container[p]
    BY <1>1, <1>3 DEF OwnedStay, Owned, Pooled, Tenancy, IInv, TypeOK
  <2>2. NotPooled(b, v)'
    BY <1>1, <1>5, <2>1 DEF NotPooled
  <2>3. Cardinality(InUse(b, v))' \in Nat /\ Cardinality(InUse(b, v))' <= 2 * MaxWorkspaces
    BY <2>2, OnlyTenantsNext
  <2> QED
    BY <1>4, <2>3 DEF Most
<1>6. CASE ~(b = k /\ v = u)
  <2>1. \A p \in Providers \ {q} : Held(p)' => Held(p)
    BY <1>1, <1>2 DEF Held, Leased, Pooled, Tenancy, IInv, TypeOK
  <2>2. InUse(b, v)' \in SUBSET InUse(b, v)
    BY <1>3, <1>6, <2>1 DEF InUse, Fresh, OnlyChanges
  <2>3. InUse(b, v) \in SUBSET Providers
    BY DEF InUse
  <2>4. /\ Cardinality(InUse(b, v)) \in Nat /\ Cardinality(InUse(b, v))' \in Nat
        /\ Cardinality(InUse(b, v))' <= Cardinality(InUse(b, v))
    BY <2>2, <2>3, CountedBelow
  <2>5. /\ Cardinality(InUse(b, v)) + (IF v = DefaultVersion THEN Pledged(b) ELSE 0) <= Most(b, v)
        /\ Most(b, v) \in Nat
    BY <1>4 DEF Limits, Most
  <2> QED
    BY <1>4, <2>4, <2>5
<1> QED
  BY <1>5, <1>6

LEMMA InitCapacity == Init => Capacity
<1> SUFFICES ASSUME Init PROVE Capacity
  OBVIOUS
<1>1. Seats
  BY FS_EmptySet, ConstantsAssumption DEF Init, Seats, Occupied
<1>2. Pledge /\ \A b \in Backends : Pledged(b) = 0
  BY DEF Init, Pledge, Pledged
<1>3. \A b \in Backends, v \in Versions : InUse(b, v) = {}
  BY ConstantsAssumption DEF Init, NoLeases, InUse, Held, Leased, Pooled
<1>4. Limits
  BY <1>2, <1>3, FS_EmptySet, ConstantsAssumption DEF Limits, Most
<1> QED
  BY <1>1, <1>2, <1>4 DEF Capacity

\* The capacity is inductive, given who holds what.
LEMMA CapacityInvariant == Spec => [](Tenancy /\ Capacity)
<1>1. Tenancy /\ Tenancy' /\ Capacity /\ [Next]_vars => Capacity'
  <2> SUFFICES ASSUME Tenancy, Tenancy', Capacity, [Next]_vars PROVE Capacity'
    OBVIOUS
  <2>1. Seats' /\ Pledge'
    BY SeatsStep, PledgeStep DEF Capacity
  <2>2. Limits'
    BY <2>1, LimitsShrink, LimitsScan, LimitsAppend, LimitsColdStart DEF Capacity
  <2> QED
    BY <2>1, <2>2 DEF Capacity
<1> QED
  BY InitCapacity, <1>1, TenancyInvariant, PTL DEF Spec

\* Whatever interleaves and fails, the containers in use and idle are two for
\* each workspace and version, and the warm target (pool.py trims no queue).
THEOREM PopulationIsBounded == Spec => []PopulationBound
<1>1. Tenancy /\ Capacity => PopulationBound
  <2> SUFFICES ASSUME Tenancy, Capacity, NEW b \in Backends, NEW v \in Versions
               PROVE  Cardinality({p \in Providers : /\ Owned(p)
                                                     /\ container[p].backend = b
                                                     /\ container[p].version = v}) <= Most(b, v)
    BY DEF PopulationBound, Most
  <2> DEFINE S == {p \in Providers : /\ Owned(p)
                                     /\ container[p].backend = b
                                     /\ container[p].version = v}
  <2>1. /\ InUse(b, v) \in SUBSET Providers /\ IsFiniteSet(InUse(b, v))
        /\ Cardinality(InUse(b, v)) \in Nat
    <3>1. InUse(b, v) \in SUBSET Providers
      BY DEF InUse
    <3> QED
      BY <3>1, Counted
  <2>2. /\ Cardinality(InUse(b, v)) + (IF v = DefaultVersion THEN Pledged(b) ELSE 0) <= Most(b, v)
        /\ Most(b, v) \in Nat /\ Pledged(b) \in Nat
    BY PledgedWithin, ConstantsAssumption DEF Capacity, Limits, Most
  <2>3. CASE warming \in S /\ warming \in Providers
    <3>1. rpc = "append" /\ left > 0 /\ left \in Nat
      BY <2>3, ConstantsAssumption DEF Tenancy, IInv, TypeOK, Control
    <3>2. b = rbackend /\ v = DefaultVersion
      BY <2>3, ConstantsAssumption DEF Tenancy, Ready, WarmingIsFresh, Fresh
    <3>3. Pledged(b) >= 1
      BY <3>1, <3>2 DEF Pledged
    <3>4. S \in SUBSET (InUse(b, v) \cup {warming}) /\ InUse(b, v) \cup {warming} \in SUBSET Providers
      BY <2>1, <2>3 DEF InUse, Held, Owned
    <3>5. Cardinality(InUse(b, v) \cup {warming}) <= Cardinality(InUse(b, v)) + 1
      BY <2>1, OneMore
    <3>6. /\ Cardinality(S) \in Nat /\ Cardinality(InUse(b, v) \cup {warming}) \in Nat
          /\ Cardinality(S) <= Cardinality(InUse(b, v) \cup {warming})
      BY <3>4, CountedBelow
    <3> QED
      BY <2>1, <2>2, <3>2, <3>3, <3>5, <3>6
  <2>4. CASE ~(warming \in S /\ warming \in Providers)
    <3>1. S \in SUBSET InUse(b, v)
      BY <2>4 DEF InUse, Held, Owned
    <3>2. Cardinality(S) \in Nat /\ Cardinality(S) <= Cardinality(InUse(b, v))
      BY <2>1, <3>1, CountedBelow
    <3> QED
      BY <2>1, <2>2, <3>2
  <2> QED
    BY <2>3, <2>4
<1> QED
  BY <1>1, CapacityInvariant, PTL


\* What Docker still knows at the unlink of a network is on other networks.
LEMMA NetworkIsRemovable ==
  ASSUME Faults = {}, Tenancy, NoLoss, pc = "unlink"
  PROVE  Removable(current)
<1> SUFFICES ASSUME NEW p \in Providers, container[p] # NoContainer
             PROVE  current \notin container[p].nets
  BY DEF Removable, Members
<1>1. Owned(p) /\ ~May("disconnect")
  BY DEF NoLoss, Orphan, May
<1>2. CASE Pooled(p)
  BY <1>1, <1>2 DEF Pooled, Tenancy, Ready, IdleAreReady
<1>3. CASE warming = p
  BY <1>3, ConstantsAssumption DEF Tenancy, Ready, WarmingIsFresh, Fresh
<1>4. CASE Leased(p)
  <2>1. PICK w \in WorkspaceIds, t \in Tracks : lease[w][t] = p
    BY <1>4 DEF Leased
  <2>2. w # current /\ p # NoProvider
    BY <2>1, ConstantsAssumption DEF Tenancy, Slots
  <2>3. w \in registered
    BY <2>1, <2>2, TenantsAreOccupied DEF Occupied
  <2>4. request[w].backend # SQLite
    BY <2>1, <2>2 DEF Tenancy, Slots
  <2>5. container[p].nets = {w}
    BY <1>1, <2>1, <2>3, <2>4 DEF Tenancy, Ready, TenantsServed, Serves
  <2> QED
    BY <2>2, <2>5
<1> QED
  BY <1>1, <1>2, <1>3, <1>4 DEF Owned

\* A network is created with the request it is for, and removed with it.
LEMMA NetworksStep ==
  ASSUME Faults = {}, Tenancy, NoLoss, [Next]_vars
  PROVE  Networked'
<1> USE DEF Networked
<1>0. Networked /\ networks \subseteq WorkspaceIds
  BY DEF NoLoss, Tenancy, IInv, TypeOK
<1>1. CASE UNCHANGED <<networks, request>>
  BY <1>0, <1>1
<1>2. CASE Call \/ \E w \in WorkspaceIds : Destroy(w)
  <2>1. ASSUME NEW w \in WorkspaceIds, NEW v \in Versions, InitializeSQLite(w, v) PROVE Networked'
    BY <1>0, <2>1 DEF InitializeSQLite, CanInitialize, Tenancy, IInv, TypeOK
  <2>2. ASSUME NEW w \in WorkspaceIds, NEW b \in Backends, NEW v \in Versions,
               InitializeContainers(w, b, v)
        PROVE  Networked'
    <3>1. /\ networks' = networks \cup {w}
          /\ request' = [request EXCEPT ![w] = [backend |-> b, version |-> v]]
      BY <2>2 DEF InitializeContainers
    <3>2. [backend |-> b, version |-> v] \in Request
      BY DEF Request
    <3> QED
      BY <1>0, <3>1, <3>2, NullsAssumption, ConstantsAssumption DEF Tenancy, IInv, TypeOK
  <2>3. ASSUME NEW w \in WorkspaceIds, Destroy(w) PROVE Networked'
    BY <1>0, <2>3 DEF Destroy, Tenancy, IInv, TypeOK
  <2>4. CASE Shutdown \/ \E w \in WorkspaceIds, t \in Tracks : Use(w, t)
    BY <1>1, <2>4 DEF Shutdown, Use
  <2> QED
    BY <1>2, <2>1, <2>2, <2>3, <2>4 DEF Call
<1>3. CASE Claim \/ Register \/ RegisterFails \/ Raise
  BY <1>1, <1>3 DEF Claim, ClaimPooled, ClaimColdStart, ClaimColdStartFails, ClaimPrepare,
     ClaimPrepareFails, Register, RegisterFails, Raise, NoLoss
<1>4. CASE Release
  <2>1. CASE RemoveNetwork
    <3>1. networks' = networks \ {current} /\ request' = [request EXCEPT ![current] = NoRequest]
      BY <2>1, NetworkIsRemovable DEF RemoveNetwork, May
    <3> QED
      BY <1>0, <3>1 DEF Tenancy, IInv, TypeOK
  <2> QED
    BY <1>1, <1>4, <2>1 DEF Release, Disconnect, ReleaseReset, ReleaseDiscard, ReleaseAppend, Released
<1>5. CASE Drain \/ Exit \/ Exited \/ UNCHANGED vars
  BY <1>1, <1>5 DEF Drain, StopPool, DrainOne, DrainDone, Exit, Exited, vars
<1>6. CASE Refill
  BY <1>1, <1>6 DEF Refill, RefillWake, RefillScan, RefillStart, RefillStartFails, RefillAppend
<1> QED
  BY <1>2, <1>3, <1>4, <1>5, <1>6 DEF Next, Proceed

\* No call of initialize raises.
LEMMA NoRaiseStep ==
  ASSUME Faults = {}, Tenancy, NoLoss, [Next]_vars
  PROVE  pc' # "raise"
<1>0. pc # "raise"
  BY DEF NoLoss
<1>1. CASE Call \/ \E w \in WorkspaceIds : Destroy(w)
  BY <1>0, <1>1 DEF Call, InitializeSQLite, InitializeContainers, Use, Destroy, Shutdown
<1>2. CASE Claim \/ Register \/ RegisterFails \/ Raise
  BY <1>0, <1>2 DEF Claim, ClaimPooled, ClaimColdStart, ClaimColdStartFails, ClaimPrepare,
     ClaimPrepareFails, Register, RegisterFails, Raise, May
<1>3. CASE Release
  BY <1>0, <1>3 DEF Release, Disconnect, ReleaseReset, ReleaseDiscard, ReleaseAppend, Released,
     RemoveNetwork
<1>4. CASE Drain \/ Exit \/ Exited \/ UNCHANGED vars
  BY <1>0, <1>4 DEF Drain, StopPool, DrainOne, DrainDone, Exit, Exited, vars
<1>5. CASE Refill
  BY <1>0, <1>5 DEF Refill, RefillWake, RefillScan, RefillStart, RefillStartFails, RefillAppend
<1> QED
  BY <1>1, <1>2, <1>3, <1>4, <1>5 DEF Next, Proceed

LEMMA NoLossInvariant == ASSUME Faults = {} PROVE Spec => [](Tenancy /\ NoLoss)
<1>1. Init => NoLoss
  BY ConstantsAssumption DEF Init, NoLoss, Orphan, Networked
<1>2. Tenancy /\ NoLoss /\ [Next]_vars => NoLoss'
  <2> SUFFICES ASSUME Tenancy, NoLoss, [Next]_vars PROVE NoLoss'
    OBVIOUS
  <2>1. ASSUME NEW p \in Providers, Orphan(p)' PROVE FALSE
    <3>1. LossExplained(p)
      BY <2>1, LossStep DEF NoLoss
    <3> QED
      BY <3>1 DEF LossExplained, May, NoLoss
  <2>2. Networked' /\ pc' # "raise"
    BY NetworksStep, NoRaiseStep
  <2> QED
    BY <2>1, <2>2 DEF NoLoss, Networked
<1> QED
  BY <1>1, <1>2, TenancyInvariant, PTL DEF Spec

\* While no library call fails, no interleaving of the two threads loses a
\* container or leaves a network behind, at any moment of the server's life.
THEOREM NothingIsLostWithoutFaults == ASSUME Faults = {} PROVE Spec => []NothingIsLost
<1>1. NoLoss => NothingIsLost
  BY DEF NoLoss, Networked, NothingIsLost
<1> QED
  BY <1>1, NoLossInvariant, PTL


\* The phases follow each other, and no workspace survives the first.
LEMMA ClosingStep == ASSUME Tenancy, Closing, [Next]_vars PROVE Closing'
<1> USE DEF Closing, Late
<1>1. CASE Call \/ \E w \in WorkspaceIds : Destroy(w)
  BY <1>1 DEF Call, InitializeSQLite, InitializeContainers, CanInitialize, Use, Serving, Destroy,
     Shutdown, Tenancy, IInv, TypeOK
<1>2. CASE Claim \/ Register \/ RegisterFails \/ Raise
  BY <1>2 DEF Claim, ClaimPooled, ClaimColdStart, ClaimColdStartFails, ClaimPrepare,
     ClaimPrepareFails, Register, RegisterFails, Raise
<1>3. CASE Release
  BY <1>3 DEF Release, Disconnect, ReleaseReset, ReleaseDiscard, ReleaseAppend, Released,
     RemoveNetwork
<1>4. CASE Drain \/ Exit \/ Exited \/ UNCHANGED vars
  BY <1>4 DEF Drain, StopPool, DrainOne, DrainDone, CleaningUp, Exit, Exited, vars
<1>5. CASE Refill
  BY <1>5 DEF Refill, RefillWake, RefillScan, RefillStart, RefillStartFails, RefillAppend
<1> QED
  BY <1>1, <1>2, <1>3, <1>4, <1>5 DEF Next, Proceed

\* After the first _cleanup only stop(), exit and the refill thread do anything.
LEMMA LateSteps ==
  ASSUME Tenancy, Closing, Late, [Next]_vars
  PROVE  Drain \/ Exit \/ Refill \/ UNCHANGED vars
<1>1. registered = {} /\ pc \in {"idle", "drain"} /\ phase # "serving"
  BY DEF Closing, Late
<1>2. ~Call /\ \A w \in WorkspaceIds : ~Destroy(w)
  BY <1>1 DEF Call, InitializeSQLite, InitializeContainers, CanInitialize, Use, Serving, Destroy, Shutdown
<1>3. ~(Claim \/ Register \/ RegisterFails \/ Raise \/ Release)
  BY <1>1 DEF Claim, ClaimPooled, ClaimColdStart, ClaimColdStartFails, ClaimPrepare,
     ClaimPrepareFails, Register, RegisterFails, Raise, Release, Disconnect, ReleaseReset,
     ReleaseDiscard, ReleaseAppend, RemoveNetwork
<1> QED
  BY <1>2, <1>3 DEF Next, Proceed, Exited

\* A queue that does not grow, whose containers nobody touches.
LEMMA OnlyWarmKept ==
  ASSUME Tenancy, Tenancy', OnlyWarm, Late, Pledge,
         \A b \in Backends :
           /\ \A p \in queue'[b] : p \in queue[b] /\ container'[p] = container[p]
           /\ Pledged(b)' \in Nat /\ Pledged(b)' <= Pledged(b)
  PROVE  OnlyWarm'
<1>1. ASSUME NEW b \in Backends
      PROVE  /\ \A p \in queue'[b] : container'[p] = Fresh(b, DefaultVersion)
             /\ Cardinality(queue'[b]) + Pledged(b)' <= WarmTarget[b]
  <2>1. queue[b] \in SUBSET Providers /\ queue'[b] \in SUBSET queue[b]
    BY DEF Tenancy, IInv, TypeOK
  <2>2. /\ Cardinality(queue[b]) \in Nat /\ Cardinality(queue'[b]) \in Nat
        /\ Cardinality(queue'[b]) <= Cardinality(queue[b])
    BY <2>1, CountedBelow
  <2>3. /\ Pledged(b) \in Nat /\ WarmTarget[b] \in Nat
        /\ Cardinality(queue[b]) + Pledged(b) <= WarmTarget[b]
    BY PledgedWithin DEF OnlyWarm
  <2> QED
    BY <2>2, <2>3 DEF OnlyWarm
<1> QED
  BY <1>1 DEF OnlyWarm

\* The first _cleanup ends with an empty pool.
LEMMA FirstLate == ASSUME [Next]_vars, ~Late, Late' PROVE DrainDone
<1>1. phase' # phase
  BY DEF Late
<1>2. CASE Call \/ \E w \in WorkspaceIds : Destroy(w)
  BY <1>1, <1>2 DEF Call, InitializeSQLite, InitializeContainers, Use, Destroy, Shutdown, Late
<1>3. CASE Claim \/ Register \/ RegisterFails \/ Raise \/ Release \/ Refill
  BY <1>1, <1>3 DEF Claim, ClaimPooled, ClaimColdStart, ClaimColdStartFails, ClaimPrepare,
     ClaimPrepareFails, Register, RegisterFails, Raise, Release, Disconnect, ReleaseReset,
     ReleaseDiscard, ReleaseAppend, Released, RemoveNetwork, Refill, RefillWake, RefillScan,
     RefillStart, RefillStartFails, RefillAppend
<1>4. CASE Drain \/ Exit \/ Exited \/ UNCHANGED vars
  BY <1>1, <1>4 DEF Drain, StopPool, DrainOne, Exit, Exited, vars, Late
<1> QED
  BY <1>2, <1>3, <1>4 DEF Next, Proceed

\* What the refill thread appends after the first drain was pledged.
LEMMA LateAppend ==
  ASSUME Tenancy, OnlyWarm, Late, RefillAppend
  PROVE  OnlyWarm'
<1>0. PICK q, k : q = warming /\ k = rbackend
  OBVIOUS
<1>1. /\ q \in Providers /\ k \in Backends /\ left \in Nat /\ left > 0
      /\ queue' = [queue EXCEPT ![k] = @ \cup {q}]
      /\ UNCHANGED container
  BY <1>0 DEF RefillAppend, Tenancy, IInv, TypeOK, Control
<1>2. container[q] = Fresh(k, DefaultVersion)
  BY <1>0, <1>1, ConstantsAssumption DEF Tenancy, Ready, WarmingIsFresh
<1>3. ASSUME NEW b \in Backends
      PROVE  /\ \A p \in queue'[b] : container'[p] = Fresh(b, DefaultVersion)
             /\ Cardinality(queue'[b]) + Pledged(b)' <= WarmTarget[b]
  <2>1. Cardinality(queue[b]) + Pledged(b) <= WarmTarget[b] /\ WarmTarget[b] \in Nat
    BY ConstantsAssumption DEF OnlyWarm
  <2>2. Pledged(b) = (IF b = k THEN left ELSE 0) /\ Pledged(b)' = (IF b = k THEN left - 1 ELSE 0)
    BY <1>0, <1>1, ConstantsAssumption DEF RefillAppend, NextBackend, Pledged
  <2>3. /\ Cardinality(queue[b] \cup {q}) \in Nat /\ Cardinality(queue[b]) \in Nat
        /\ Cardinality(queue[b] \cup {q}) <= Cardinality(queue[b]) + 1
    <3>1. queue[b] \in SUBSET Providers
      BY DEF Tenancy, IInv, TypeOK
    <3> QED
      BY <3>1, OneMore
  <2>4. \A p \in queue[b] : container[p] = Fresh(b, DefaultVersion)
    BY DEF OnlyWarm
  <2>5. CASE b = k
    <3>1. queue'[b] = queue[b] \cup {q}
      BY <1>1, <2>5 DEF Tenancy, IInv, TypeOK
    <3>2. Cardinality(queue'[b]) + Pledged(b)' <= WarmTarget[b]
      <4>1. Pledged(b) = left /\ Pledged(b)' = left - 1
        BY <2>2, <2>5
      <4>2. Cardinality(queue'[b]) = Cardinality(queue[b] \cup {q})
        BY <3>1
      <4> QED
        BY <1>1, <2>1, <2>3, <4>1, <4>2
    <3> QED
      BY <1>1, <1>2, <2>4, <2>5, <3>1, <3>2
  <2>6. CASE b # k
    <3>1. queue'[b] = queue[b]
      BY <1>1, <2>6 DEF Tenancy, IInv, TypeOK
    <3> QED
      BY <1>1, <2>1, <2>2, <2>4, <2>6, <3>1
  <2> QED
    BY <2>5, <2>6
<1> QED
  BY <1>3 DEF OnlyWarm

LEMMA OnlyWarmStep ==
  ASSUME Tenancy, Tenancy', Pledge, Pledge', Closing, OnlyWarm, [Next]_vars
  PROVE  OnlyWarm'
<1>1. CASE Late' /\ ~Late
  <2>1. DrainDone
    BY <1>1, FirstLate
  <2>2. /\ \A b \in Backends : queue'[b] = {}
        /\ UNCHANGED <<rpc, rbackend, left>>
    BY <2>1 DEF DrainDone
  <2>3. \A b \in Backends : Pledged(b)' \in Nat /\ Pledged(b)' <= WarmTarget[b]
    BY <2>2, PledgedWithin DEF Pledged
  <2>4. Cardinality({}) = 0
    BY FS_EmptySet
  <2>5. \A b \in Backends : /\ Cardinality(queue'[b]) + Pledged(b)' <= WarmTarget[b]
                            /\ \A p \in queue'[b] : container'[p] = Fresh(b, DefaultVersion)
    BY <2>2, <2>3, <2>4
  <2> QED
    BY <2>5 DEF OnlyWarm
<1>2. CASE Late
  <2>1. CASE StopPool \/ DrainDone \/ Exit \/ UNCHANGED vars \/ RefillWake
    <3>1. UNCHANGED <<queue, container>> /\ \A c \in Backends : ~RefillScan(c)
      BY <2>1 DEF StopPool, DrainDone, Exit, vars, RefillWake, RefillScan
    <3> QED
      BY <1>2, <3>1, PledgedStep, OnlyWarmKept
  <2>2. CASE RefillStart \/ RefillStartFails
    <3>1. UNCHANGED queue /\ \A c \in Backends : ~RefillScan(c)
      BY <2>2 DEF RefillStart, RefillStartFails, RefillScan
    <3>2. OwnedStay
      BY <2>2, LaunchIsApart DEF RefillStart, RefillStartFails, OwnedStay, Tenancy
    <3>3. \A b \in Backends : \A p \in queue[b] : container'[p] = container[p]
      BY <3>2 DEF OwnedStay, Owned, Pooled, Tenancy, IInv, TypeOK
    <3> QED
      BY <1>2, <3>1, <3>3, PledgedStep, OnlyWarmKept
  <2>3. CASE DrainOne
    <3>1. PICK b \in Backends : \E q \in queue[b] :
            queue' = [queue EXCEPT ![b] = @ \ {q}] /\ SafeStop(q)
      BY <2>3 DEF DrainOne
    <3>2. PICK q \in queue[b] : queue' = [queue EXCEPT ![b] = @ \ {q}] /\ SafeStop(q)
      BY <3>1
    <3>3. \A c \in Backends : \A p \in queue'[c] : p \in queue[c] /\ p # q /\ p \in Providers
      BY <3>2 DEF Tenancy, IInv, TypeOK, SingleOwner
    <3>4. \A c \in Backends : \A p \in queue'[c] : container'[p] = container[p]
      BY <3>2, <3>3, StoppedContainer DEF Tenancy
    <3>5. \A c \in Backends : ~RefillScan(c)
      BY <2>3 DEF DrainOne, RefillScan, LockFree
    <3> QED
      BY <1>2, <3>3, <3>4, <3>5, PledgedStep, OnlyWarmKept
  <2>4. ASSUME NEW c \in Backends, RefillScan(c) PROVE OnlyWarm'
    <3>1. UNCHANGED <<queue, container>>
      BY <2>4 DEF RefillScan
    <3>2. ASSUME NEW b \in Backends PROVE Cardinality(queue[b]) + Pledged(b)' <= WarmTarget[b]
      <4>1. Cardinality(queue[b]) \in Nat /\ WarmTarget[b] \in Nat /\ Pledged(b) \in Nat
        BY QueueLength, PledgedWithin DEF Tenancy
      <4>2. Cardinality(queue[b]) + Pledged(b) <= WarmTarget[b]
        BY <1>2 DEF OnlyWarm
      <4>3. Pledged(b)' = 0 \/ Pledged(b)' = WarmTarget[b] - Cardinality(queue[b])
        BY <2>4 DEF RefillScan, NextBackend, Pledged
      <4> QED
        BY <4>1, <4>2, <4>3
    <3> QED
      BY <1>2, <3>1, <3>2 DEF OnlyWarm
  <2>5. CASE RefillAppend
    BY <1>2, <2>5, LateAppend
  <2> QED
    BY <1>2, <2>1, <2>2, <2>3, <2>4, <2>5, LateSteps DEF Drain, Refill
<1>3. CASE ~Late'
  BY <1>3 DEF OnlyWarm
<1> QED
  BY <1>1, <1>2, <1>3


\* The end of the server, whatever fails.
LEMMA ClosingInvariant == Spec => [](Tenancy /\ Capacity /\ Closing /\ OnlyWarm)
<1>1. Init => Closing /\ OnlyWarm
  BY DEF Init, Closing, OnlyWarm, Late
<1>2. /\ Tenancy /\ Tenancy' /\ Capacity /\ Capacity' /\ Closing /\ OnlyWarm /\ [Next]_vars
      => Closing' /\ OnlyWarm'
  BY ClosingStep, OnlyWarmStep DEF Capacity
<1> QED
  BY <1>1, <1>2, CapacityInvariant, PTL DEF Spec

\* What runs at exit without an owner's fault: containers that idle, and the
\* one the refill thread is starting.
LEMMA ExitIsWarm ==
  ASSUME Tenancy, Capacity, Closing, OnlyWarm, NoLoss, phase = "exited"
  PROVE  /\ registered = {} /\ networks = {}
         /\ \A p \in Providers : container[p] # NoContainer =>
              /\ ~Leased(p)
              /\ container[p] = Fresh(container[p].backend, DefaultVersion)
         /\ \A b \in Backends :
              Cardinality({p \in Providers : /\ container[p] # NoContainer
                                             /\ container[p].backend = b}) <= WarmTarget[b]
<1>1. Late /\ registered = {} /\ Occupied = {}
  BY DEF Late, Closing, Occupied
<1>2. networks = {}
  BY <1>1 DEF NoLoss, Networked, Tenancy, Slots, Busy, Closing, IInv, TypeOK
<1>3. \A p \in Providers : ~Leased(p)
  BY <1>1, TenantsAreOccupied, ConstantsAssumption DEF Leased
<1>4. ASSUME NEW p \in Providers, container[p] # NoContainer
      PROVE  \E b \in Backends : /\ p \in queue[b] \/ warming = p
                                 /\ container[p] = Fresh(b, DefaultVersion)
                                 /\ container[p].backend = b
  <2>1. Pooled(p) \/ warming = p
    BY <1>3, <1>4 DEF NoLoss, Orphan, Owned
  <2>2. Pooled(p) => \E b \in Backends : p \in queue[b] /\ container[p] = Fresh(b, DefaultVersion)
    BY <1>1 DEF OnlyWarm, Pooled
  <2>3. warming = p => rbackend \in Backends /\ container[p] = Fresh(rbackend, DefaultVersion)
    BY ConstantsAssumption DEF Tenancy, Ready, WarmingIsFresh, IInv, Control
  <2>4. PICK b \in Backends : /\ p \in queue[b] \/ warming = p
                             /\ container[p] = Fresh(b, DefaultVersion)
    BY <2>1, <2>2, <2>3
  <2>5. container[p].backend = b
    BY <2>4 DEF Fresh
  <2> QED
    BY <2>4, <2>5
<1>5. \A p \in Providers : container[p] # NoContainer =>
        container[p] = Fresh(container[p].backend, DefaultVersion)
  BY <1>4
<1>6. ASSUME NEW b \in Backends
      PROVE  Cardinality({p \in Providers : /\ container[p] # NoContainer
                                            /\ container[p].backend = b}) <= WarmTarget[b]
  <2> DEFINE S == {p \in Providers : /\ container[p] # NoContainer
                                     /\ container[p].backend = b}
  <2>1. /\ queue[b] \in SUBSET Providers
        /\ Cardinality(queue[b]) + Pledged(b) <= WarmTarget[b]
    BY <1>1 DEF OnlyWarm, Tenancy, IInv, TypeOK
  <2>2. /\ Pledged(b) \in Nat /\ WarmTarget[b] \in Nat /\ Cardinality(queue[b]) \in Nat
    BY QueueLength, PledgedWithin DEF Capacity, Tenancy
  <2>3. CASE warming \in S
    <3>1. rpc = "append" /\ left > 0 /\ left \in Nat /\ warming \in Providers
      BY <2>3, ConstantsAssumption DEF Tenancy, IInv, TypeOK, Control
    <3>2. rbackend = b
      BY <2>3, <3>1, ConstantsAssumption DEF Tenancy, Ready, WarmingIsFresh, Fresh
    <3>3. Pledged(b) >= 1
      BY <3>1, <3>2 DEF Pledged
    <3>4. S \in SUBSET (queue[b] \cup {warming})
      BY <1>4
    <3>5. queue[b] \cup {warming} \in SUBSET Providers
      BY <2>1, <3>1
    <3>6. /\ Cardinality(S) \in Nat
          /\ Cardinality(S) <= Cardinality(queue[b] \cup {warming})
      BY <3>4, <3>5, CountedBelow
    <3>7. /\ Cardinality(queue[b] \cup {warming}) \in Nat
          /\ Cardinality(queue[b] \cup {warming}) <= Cardinality(queue[b]) + 1
      BY <2>1, OneMore
    <3> QED
      BY <2>1, <2>2, <3>3, <3>6, <3>7
  <2>4. CASE warming \notin S
    <3>1. S \in SUBSET queue[b]
      BY <1>4, <2>4
    <3>2. Cardinality(S) \in Nat /\ Cardinality(S) <= Cardinality(queue[b])
      BY <2>1, <3>1, CountedBelow
    <3> QED
      BY <2>1, <2>2, <3>2
  <2> QED
    BY <2>3, <2>4
<1> QED
  BY <1>1, <1>2, <1>3, <1>5, <1>6

\* While no library call fails, a server that has exited leaves no workspace
\* and no network, and of containers only what the daemon thread warmed in
\* its last round: never used, of the default version, within the target.
THEOREM ExitLeavesOnlyWarmWithoutFaults == ASSUME Faults = {} PROVE Spec => []ExitLeavesOnlyWarm
<1>1. Tenancy /\ Capacity /\ Closing /\ OnlyWarm /\ NoLoss => ExitLeavesOnlyWarm
  BY ExitIsWarm DEF ExitLeavesOnlyWarm
<1> QED
  BY <1>1, ClosingInvariant, NoLossInvariant, PTL

=============================================================================
