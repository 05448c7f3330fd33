---------------------- MODULE ContainerPoolTenancyProofs ----------------------
(***************************************************************************)
(* Tenancy of the pool's containers, for every value of the constants:     *)
(* which tracks of which workspaces hold a provider, and in which state    *)
(* its container is at each point of initialize, release and _top_up.      *)
(***************************************************************************)
EXTENDS ContainerPoolProofs

USE ConstantsAssumption DEF Tracks, dockerVars, poolVars, spaceVars, mainVars, refillVars

\* The main thread is building or tearing down w.
Busy(w) == pc \notin {"idle", "drain"} /\ w = current

\* A track holds a provider only while its workspace is served, built or torn
\* down, and only between the claim and the release of that track.
Slots ==
  /\ \A w \in WorkspaceIds : request[w] # NoRequest => w \in registered \/ Busy(w)
  /\ \A w \in WorkspaceIds :
       request[w] = NoRequest \/ request[w].backend = SQLite =>
         \A t \in Tracks : lease[w][t] = NoProvider
  /\ pc = "claim" => lease[current][track] = NoProvider
  /\ pc \in {"claim", "prepare"} /\ track = "a" => lease[current]["b"] = NoProvider
  /\ pc \in {"disconnect", "reset", "append"} /\ track = "b" =>
       lease[current]["a"] = NoProvider
  /\ pc = "unlink" => \A t \in Tracks : lease[current][t] = NoProvider

\* A container of the backend a workspace asked for that has left its networks.
Idle(c, w) ==
  /\ c.backend = request[w].backend
  /\ May("disconnect") \/ c.nets = {}

\* A container of the backend and version a workspace asked for, on its network.
Serves(c, w) ==
  /\ c.backend = request[w].backend
  /\ c.version = request[w].version
  /\ w \in c.nets
  /\ May("disconnect") \/ c.nets = {w}

\* An idle container is the pool's to lend: under its backend's key, clean,
\* and off all networks unless leaving them may fail.
IdleAreReady ==
  \A b \in Backends : \A p \in queue[b] :
    /\ container[p].backend = b
    /\ container[p].clean
    /\ May("disconnect") \/ container[p].nets = {}

\* What a client's workspace was given serves it.
TenantsServed ==
  \A w \in registered : request[w].backend # SQLite =>
    w \in networks /\ \A t \in Tracks : Serves(container[lease[w][t]], w)

\* What initialize knows of the containers it holds.
Building ==
  /\ pc \in {"claim", "prepare", "register"} => current \in networks
  /\ pc = "prepare" =>
       /\ Idle(container[lease[current][track]], current)
       /\ container[lease[current][track]].version = request[current].version
  /\ pc \in {"claim", "prepare"} /\ track = "b" =>
       Serves(container[lease[current]["a"]], current) /\ container[lease[current]["a"]].clean
  /\ pc = "register" => \A t \in Tracks :
       Serves(container[lease[current][t]], current) /\ container[lease[current][t]].clean

\* What destroy knows of the containers it gives back.
Leaving ==
  /\ pc = "disconnect" => Serves(container[lease[current][track]], current)
  /\ pc \in {"disconnect", "reset", "append"} /\ track = "a" =>
       Serves(container[lease[current]["b"]], current)
  /\ pc \in {"reset", "append"} => Idle(container[lease[current][track]], current)
  /\ pc = "append" => container[lease[current][track]].clean

\* What the refill thread has just started.
WarmingIsFresh ==
  warming # NoProvider => container[warming] = Fresh(rbackend, DefaultVersion)

Ready == IdleAreReady /\ TenantsServed /\ Building /\ Leaving /\ WarmingIsFresh

Tenancy == IInv /\ Slots /\ Ready

-----------------------------------------------------------------------------
(* Which tracks hold a provider                                            *)

LEMMA SlotsStep == ASSUME IInv, Slots, [Next]_vars PROVE Slots'
<1> USE DEF Busy
<1>1. ASSUME NEW w \in WorkspaceIds, NEW v \in Versions, InitializeSQLite(w, v)
      PROVE  Slots'
  BY <1>1 DEF InitializeSQLite, CanInitialize, Serving, IInv, TypeOK, Slots
<1>2. ASSUME NEW w \in WorkspaceIds, NEW b \in Backends, NEW v \in Versions, InitializeContainers(w, b, v)
      PROVE  Slots'
  BY <1>2 DEF InitializeContainers, CanInitialize, Serving, IInv, TypeOK, Slots
<1>3. ASSUME NEW w \in WorkspaceIds, NEW t \in Tracks, Use(w, t)
      PROVE  Slots'
  BY <1>3 DEF Use, Serving, Slots
<1>4. ASSUME NEW w \in WorkspaceIds, Destroy(w)
      PROVE  Slots'
  BY <1>4 DEF Destroy, IInv, TypeOK, Control, Slots
<1>5. CASE Shutdown
  BY <1>5 DEF Shutdown, Serving, Slots
<1>6. CASE ClaimPooled \/ ClaimColdStart
  <2>1. /\ current \in WorkspaceIds /\ request[current] # NoRequest
        /\ request[current].backend # SQLite /\ pc = "claim" /\ pc' = "prepare"
        /\ UNCHANGED <<registered, request, current, track>>
    BY <1>6, NullsAssumption DEF ClaimPooled, ClaimColdStart, IInv, Control
  <2>2. PICK p : lease' = [lease EXCEPT ![current][track] = p]
    BY <1>6 DEF ClaimPooled, ClaimColdStart
  <2>3. \A w \in WorkspaceIds \ {current} : lease'[w] = lease[w]
    BY <2>1, <2>2 DEF IInv, TypeOK
  <2>4. track = "a" => lease'[current]["b"] = lease[current]["b"]
    BY <2>1, <2>2 DEF IInv, TypeOK
  <2> QED
    BY <2>1, <2>3, <2>4 DEF Slots
<1>8. CASE ClaimColdStartFails
  BY <1>8 DEF ClaimColdStartFails, IInv, TypeOK, Control, Slots
<1>9. CASE ClaimPrepare
  BY <1>9 DEF ClaimPrepare, IInv, TypeOK, Control, Slots
<1>10. CASE ClaimPrepareFails
  BY <1>10 DEF ClaimPrepareFails, IInv, TypeOK, Control, Slots
<1>11. CASE Register
  BY <1>11 DEF Register, IInv, TypeOK, Control, Slots
<1>12. CASE RegisterFails
  BY <1>12 DEF RegisterFails, IInv, TypeOK, Control, Slots
<1>13. CASE Raise
  BY <1>13 DEF Raise, NoLeases, IInv, TypeOK, Control, Slots
<1>14. CASE Disconnect
  BY <1>14 DEF Disconnect, IInv, TypeOK, Control, Slots
<1>15. CASE ReleaseReset
  BY <1>15 DEF ReleaseReset, IInv, TypeOK, Control, Slots
<1>16. CASE ReleaseDiscard
  BY <1>16 DEF ReleaseDiscard, Released, IInv, TypeOK, Control, Slots
<1>17. CASE ReleaseAppend
  BY <1>17 DEF ReleaseAppend, Released, IInv, TypeOK, Control, Slots
<1>18. CASE RemoveNetwork
  BY <1>18 DEF RemoveNetwork, IInv, TypeOK, Control, Slots
<1>19. CASE Drain \/ Exit \/ Refill \/ UNCHANGED vars
  BY <1>19 DEF Drain, StopPool, DrainOne, DrainDone, Exit, Refill, RefillWake, RefillScan, RefillStart,
     RefillStartFails, RefillAppend, vars, Slots
<1> QED
  BY <1>1, <1>2, <1>3, <1>4, <1>5, <1>6, <1>8, <1>9, <1>10, <1>11,
     <1>12, <1>13, <1>14, <1>15, <1>16, <1>17, <1>18, <1>19 DEF Next,
     Call, Proceed, Claim, Release, Exited

-----------------------------------------------------------------------------
(* What a step leaves as it is                                             *)

\* A container that is the same but for the objects in it.
SameService(c, d) == d.backend = c.backend /\ d.version = c.version /\ d.nets = c.nets

\* Containers change one at a time.
OnlyChanges(p) == \A q \in Providers \ {p} : container'[q] = container[q]

OwnedStay == \A q \in Providers : Owned(q) => container'[q] = container[q]

\* A container that is started is nobody's.
LEMMA LaunchIsApart ==
  ASSUME IInv, NEW p \in Unused, NEW b, NEW v, Launch(p, b, v)
  PROVE  p \in Providers /\ ~Owned(p) /\ container'[p] = Fresh(b, v) /\ OnlyChanges(p) /\ OwnedStay
<1>1. p \in Providers /\ container[p] = NoContainer
  BY DEF Unused
<1>2. ~Owned(p)
  BY <1>1 DEF IInv, OwnedAreRunning
<1>3. container'[p] = Fresh(b, v) /\ OnlyChanges(p)
  BY <1>1 DEF Launch, OnlyChanges, IInv, TypeOK
<1> QED
  BY <1>1, <1>2, <1>3 DEF OnlyChanges, OwnedStay

\* The container behind one track is not idle, not warming and behind no
\* other track.
LEMMA TrackIsApart ==
  ASSUME IInv, NEW w \in WorkspaceIds, NEW t \in Tracks, lease[w][t] \in Providers,
         OnlyChanges(lease[w][t])
  PROVE  /\ \A q \in Providers : Pooled(q) \/ warming = q => container'[q] = container[q]
         /\ \A x \in WorkspaceIds, u \in Tracks :
              lease[x][u] \in Providers /\ ~(x = w /\ u = t) =>
                container'[lease[x][u]] = container[lease[x][u]]
<1>1. Leased(lease[w][t])
  BY DEF Leased
<1>2. ~Pooled(lease[w][t]) /\ warming # lease[w][t]
  BY <1>1 DEF IInv, SingleOwner
<1>3. \A x \in WorkspaceIds, u \in Tracks : lease[x][u] = lease[w][t] => x = w /\ u = t
  BY ConstantsAssumption DEF IInv, SingleOwner
<1> QED
  BY <1>2, <1>3 DEF OnlyChanges

\* What idles stays ready.
LEMMA PooledKept ==
  ASSUME IdleAreReady,
         \A b \in Backends : \A p \in queue'[b] : p \in queue[b] /\ container'[p] = container[p]
  PROVE  IdleAreReady'
BY DEF IdleAreReady

\* What is warming stays fresh.
LEMMA WarmingKept ==
  ASSUME WarmingIsFresh, UNCHANGED <<warming, rbackend>>,
         warming # NoProvider => container'[warming] = container[warming]
  PROVE  WarmingIsFresh'
BY DEF WarmingIsFresh

\* A workspace in service keeps its containers.
LEMMA TenantsKept ==
  ASSUME IInv, TenantsServed, registered' \subseteq registered,
         \A w \in registered' :
           /\ request'[w] = request[w]
           /\ request[w].backend # SQLite => w \in networks'
           /\ \A t \in Tracks :
                /\ lease'[w][t] = lease[w][t]
                /\ request[w].backend # SQLite =>
                     SameService(container[lease[w][t]], container'[lease[w][t]])
  PROVE  TenantsServed'
BY DEF TenantsServed, Serves, SameService

\* The refill thread and stop() touch no workspace.
LEMMA SpacesKept ==
  ASSUME IInv, TenantsServed, Building, Leaving,
         UNCHANGED <<networks, registered, request, lease, pc, current, track>>,
         \A p \in Providers : Leased(p) => container'[p] = container[p]
  PROVE  TenantsServed' /\ Building' /\ Leaving'
<1>1. \A w \in WorkspaceIds, t \in Tracks : lease[w][t] \in Providers =>
        container'[lease[w][t]] = container[lease[w][t]]
  BY DEF Leased
<1>2. TenantsServed'
  BY <1>1, TenantsKept DEF SameService, TenantsServed, IInv, TypeOK, Control
<1>3. Building'
  BY <1>1 DEF Building, Idle, Serves, IInv, TypeOK, Control
<1>4. Leaving'
  BY <1>1 DEF Leaving, Idle, Serves, IInv, TypeOK, Control
<1> QED
  BY <1>2, <1>3, <1>4

-----------------------------------------------------------------------------
(* The steps of the client's calls                                         *)

LEMMA InitializeSQLiteKeeps ==
  ASSUME Tenancy, NEW w \in WorkspaceIds, NEW v \in Versions, InitializeSQLite(w, v)
  PROVE  Ready'
<1>1. /\ request[w] = NoRequest /\ registered' = registered \cup {w}
      /\ request' = [request EXCEPT ![w] = [backend |-> SQLite, version |-> v]]
      /\ UNCHANGED <<container, networks, queue, lease, pc, current, track, warming, rbackend>>
      /\ pc = "idle"
  BY DEF InitializeSQLite, CanInitialize, Serving
<1>2. /\ w \notin registered /\ request'[w].backend = SQLite
      /\ \A x \in registered : request'[x] = request[x]
  BY <1>1, NullsAssumption DEF Tenancy, IInv, TypeOK, Control
<1>3. IdleAreReady' /\ WarmingIsFresh' /\ Building' /\ Leaving'
  BY <1>1 DEF Tenancy, Ready, IdleAreReady, WarmingIsFresh, Building, Leaving
<1>4. TenantsServed'
  BY <1>1, <1>2 DEF Tenancy, Ready, TenantsServed, Serves
<1> QED
  BY <1>3, <1>4 DEF Ready

LEMMA InitializeContainersKeeps ==
  ASSUME Tenancy, NEW w \in WorkspaceIds, NEW b \in Backends, NEW v \in Versions,
         InitializeContainers(w, b, v)
  PROVE  Ready'
<1>1. /\ request[w] = NoRequest /\ registered' = registered
      /\ request' = [request EXCEPT ![w] = [backend |-> b, version |-> v]]
      /\ networks' = networks \cup {w}
      /\ pc' = "claim" /\ current' = w /\ track' = "a"
      /\ UNCHANGED <<container, queue, lease, warming, rbackend>>
  BY DEF InitializeContainers, CanInitialize, Serving
<1>2. \A x \in registered : request'[x] = request[x]
  BY <1>1, NullsAssumption DEF Tenancy, IInv, TypeOK, Control
<1>3. IdleAreReady' /\ WarmingIsFresh' /\ Building' /\ Leaving'
  BY <1>1 DEF Tenancy, Ready, IdleAreReady, WarmingIsFresh, Building, Leaving
<1>4. TenantsServed'
  BY <1>1, <1>2 DEF Tenancy, Ready, TenantsServed, Serves
<1> QED
  BY <1>3, <1>4 DEF Ready

LEMMA UseKeeps ==
  ASSUME Tenancy, NEW w \in WorkspaceIds, NEW t \in Tracks, Use(w, t)
  PROVE  Ready'
<1>0. PICK p : p = lease[w][t]
  OBVIOUS
<1>1. /\ w \in registered /\ request[w].backend # SQLite /\ pc = "idle"
      /\ container' = [container EXCEPT ![p].clean = FALSE]
      /\ UNCHANGED <<networks, queue, registered, request, lease, pc, current, track, warming, rbackend>>
  BY <1>0 DEF Use, Serving
<1>2. p \in Providers /\ container[p] \in Container
  BY <1>0, <1>1, TrackContainer DEF Tenancy, IInv, Control
<1>3. container'[p] = [container[p] EXCEPT !.clean = FALSE] /\ OnlyChanges(p)
  BY <1>1, <1>2 DEF OnlyChanges, Tenancy, IInv, TypeOK
<1>4. SameService(container[p], container'[p])
  BY <1>2, <1>3 DEF SameService, Container
<1>5. /\ \A q \in Providers : Pooled(q) \/ warming = q => container'[q] = container[q]
      /\ \A x \in WorkspaceIds, u \in Tracks :
              lease[x][u] \in Providers /\ ~(x = w /\ u = t) =>
                container'[lease[x][u]] = container[lease[x][u]]
  BY <1>0, <1>2, <1>3, TrackIsApart DEF Tenancy
<1>6. IdleAreReady'
  BY <1>1, <1>5, PooledKept DEF Tenancy, Ready, Pooled, IInv, TypeOK
<1>7. WarmingIsFresh'
  BY <1>1, <1>5, WarmingKept DEF Tenancy, Ready, IInv, TypeOK
<1>8. ASSUME NEW x \in registered, NEW u \in Tracks, request[x].backend # SQLite
      PROVE  SameService(container[lease[x][u]], container'[lease[x][u]])
  <2>1. x \in WorkspaceIds /\ lease[x][u] \in Providers
    BY <1>8 DEF Tenancy, IInv, TypeOK, Control
  <2>2. CASE x = w /\ u = t
    BY <2>2, <1>0, <1>4
  <2>3. CASE ~(x = w /\ u = t)
    BY <1>5, <2>1, <2>3 DEF SameService
  <2> QED
    BY <2>2, <2>3
<1>9. TenantsServed'
  BY <1>1, <1>8, TenantsKept DEF Tenancy, Ready, TenantsServed
<1>10. Building' /\ Leaving'
  BY <1>1 DEF Building, Leaving
<1> QED
  BY <1>6, <1>7, <1>9, <1>10 DEF Ready

LEMMA DestroyKeeps ==
  ASSUME Tenancy, NEW w \in WorkspaceIds, Destroy(w)
  PROVE  Ready'
<1>1. /\ w \in registered /\ registered' = registered \ {w} /\ pc = "idle" /\ track' = "a"
      /\ UNCHANGED <<container, networks, queue, lease, warming, rbackend>>
  BY DEF Destroy, Tenancy, IInv, Control
<1>2. IdleAreReady' /\ WarmingIsFresh'
  BY <1>1 DEF Tenancy, Ready, IdleAreReady, WarmingIsFresh
<1>3. \A x \in registered' : request'[x] = request[x]
  BY <1>1 DEF Destroy, Tenancy, IInv, TypeOK
<1>4. TenantsServed'
  BY <1>1, <1>3 DEF Tenancy, Ready, TenantsServed, Serves
<1>5. CASE request[w].backend = SQLite
  BY <1>1, <1>2, <1>4, <1>5 DEF Destroy, Ready, Building, Leaving
<1>6. CASE request[w].backend # SQLite
  <2>1. pc' = "disconnect" /\ current' = w /\ UNCHANGED request
    BY <1>6 DEF Destroy
  <2>2. \A t \in Tracks : Serves(container[lease[w][t]], w)
    BY <1>1, <1>6 DEF Tenancy, Ready, TenantsServed, Serves
  <2>3. Building' /\ Leaving'
    BY <1>1, <2>1, <2>2 DEF Building, Leaving, Serves
  <2> QED
    BY <1>2, <1>4, <2>3 DEF Ready
<1> QED
  BY <1>5, <1>6

-----------------------------------------------------------------------------
(* The steps of initialize                                                 *)

\* The workspace under construction or being torn down is nobody's yet, or
\* no more: what is done to its tracks does not disturb the others.
LEMMA OthersKept ==
  ASSUME Tenancy, current \in WorkspaceIds, current \notin registered,
         UNCHANGED <<registered, networks>>,
         \A w \in WorkspaceIds \ {current} : request'[w] = request[w] /\ lease'[w] = lease[w],
         \A w \in WorkspaceIds \ {current}, t \in Tracks :
           lease[w][t] \in Providers => container'[lease[w][t]] = container[lease[w][t]]
  PROVE  TenantsServed'
<1>1. ASSUME NEW w \in registered, NEW t \in Tracks, request[w].backend # SQLite
      PROVE  SameService(container[lease[w][t]], container'[lease[w][t]])
  <2>1. w \in WorkspaceIds \ {current} /\ lease[w][t] \in Providers
    BY <1>1 DEF Tenancy, IInv, TypeOK, Control
  <2> QED
    BY <2>1 DEF SameService
<1>2. \A w \in registered : w \in WorkspaceIds \ {current}
  BY DEF Tenancy, IInv, TypeOK
<1> QED
  BY <1>1, <1>2, TenantsKept DEF Tenancy, Ready, TenantsServed

LEMMA ClaimPooledKeeps == ASSUME Tenancy, ClaimPooled PROVE Ready'
<1>0. PICK k : k = request[current].backend
  OBVIOUS
<1>1. /\ pc = "claim" /\ pc' = "prepare" /\ current \in WorkspaceIds /\ current \notin registered
      /\ track \in Tracks /\ k \in Backends
      /\ UNCHANGED <<container, networks, registered, request, current, track, warming, rbackend>>
  BY <1>0 DEF ClaimPooled, Tenancy, IInv, TypeOK, Control
<1>2. PICK p \in queue[k] :
        /\ container[p].version = request[current].version
        /\ queue' = [queue EXCEPT ![k] = @ \ {p}]
        /\ lease' = [lease EXCEPT ![current][track] = p]
  BY <1>0 DEF ClaimPooled, Matching
<1>3. IdleAreReady'
  BY <1>1, <1>2, PooledKept DEF Tenancy, Ready, IInv, TypeOK
<1>4. WarmingIsFresh'
  BY <1>1 DEF Tenancy, Ready, WarmingIsFresh
<1>5. \A w \in WorkspaceIds \ {current} : lease'[w] = lease[w]
  BY <1>1, <1>2 DEF Tenancy, IInv, TypeOK
<1>6. TenantsServed'
  BY <1>1, <1>5, OthersKept
<1>7. /\ lease'[current'][track'] = p
      /\ track = "b" => lease'[current]["a"] = lease[current]["a"]
  BY <1>1, <1>2 DEF Tenancy, IInv, TypeOK
<1>8. Idle(container[p], current)
  BY <1>0, <1>1, <1>2 DEF Tenancy, Ready, IdleAreReady, Idle
<1>9. Building'
  BY <1>1, <1>2, <1>7, <1>8 DEF Tenancy, Ready, Building, Idle, Serves
<1> QED
  BY <1>1, <1>3, <1>4, <1>6, <1>9 DEF Ready, Leaving

LEMMA ClaimColdStartKeeps == ASSUME Tenancy, ClaimColdStart PROVE Ready'
<1>0. PICK k, v : k = request[current].backend /\ v = request[current].version
  OBVIOUS
<1>1. /\ pc = "claim" /\ pc' = "prepare" /\ current \in WorkspaceIds /\ current \notin registered
      /\ track \in Tracks
      /\ UNCHANGED <<networks, registered, request, queue, current, track, warming, rbackend>>
  BY DEF ClaimColdStart, Tenancy, IInv, TypeOK, Control
<1>2. PICK p \in Unused : Launch(p, k, v) /\ lease' = [lease EXCEPT ![current][track] = p]
  BY <1>0 DEF ClaimColdStart
<1>3. p \in Providers /\ container'[p] = Fresh(k, v) /\ OwnedStay
  BY <1>2, LaunchIsApart DEF Tenancy
<1>4. IdleAreReady'
  BY <1>1, <1>3, PooledKept DEF OwnedStay, Owned, Pooled, Tenancy, Ready, IInv, TypeOK
<1>5. WarmingIsFresh'
  BY <1>1, <1>3, WarmingKept DEF OwnedStay, Owned, Tenancy, Ready, IInv, TypeOK
<1>6. \A w \in WorkspaceIds \ {current} : lease'[w] = lease[w]
  BY <1>1, <1>2 DEF Tenancy, IInv, TypeOK
<1>7. \A w \in WorkspaceIds, t \in Tracks :
        lease[w][t] \in Providers => container'[lease[w][t]] = container[lease[w][t]]
  BY <1>3 DEF OwnedStay, Owned, Leased
<1>8. TenantsServed'
  BY <1>1, <1>6, <1>7, OthersKept
<1>9. /\ lease'[current'][track'] = p
      /\ track = "b" => lease'[current]["a"] = lease[current]["a"] /\ lease[current]["a"] \in Providers
  BY <1>1, <1>2 DEF Tenancy, IInv, TypeOK, Control
<1>10. Idle(container[p], current)' /\ container'[p].version = request[current].version
  BY <1>0, <1>1, <1>3 DEF Idle, Fresh
<1>11. track = "b" => container'[lease'[current]["a"]] = container[lease[current]["a"]]
  BY <1>1, <1>7, <1>9
<1>12. Building'
  BY <1>1, <1>9, <1>10, <1>11 DEF Tenancy, Ready, Building, Idle, Serves
<1> QED
  BY <1>1, <1>4, <1>5, <1>8, <1>12 DEF Ready, Leaving

LEMMA ClaimColdStartFailsKeeps == ASSUME Tenancy, ClaimColdStartFails PROVE Ready'
<1>1. /\ pc = "claim" /\ pc' = "raise" /\ current \in WorkspaceIds /\ current \notin registered
      /\ UNCHANGED <<networks, registered, request, lease, queue, current, track, warming, rbackend>>
  BY DEF ClaimColdStartFails, Tenancy, IInv, TypeOK, Control
<1>2. OwnedStay
  BY LaunchIsApart DEF ClaimColdStartFails, OwnedStay, Tenancy
<1>3. IdleAreReady'
  BY <1>1, <1>2, PooledKept DEF OwnedStay, Owned, Pooled, Tenancy, Ready, IInv, TypeOK
<1>4. WarmingIsFresh'
  BY <1>1, <1>2, WarmingKept DEF OwnedStay, Owned, Tenancy, Ready, IInv, TypeOK
<1>5. \A w \in WorkspaceIds, t \in Tracks :
        lease[w][t] \in Providers => container'[lease[w][t]] = container[lease[w][t]]
  BY <1>2 DEF OwnedStay, Owned, Leased
<1>6. TenantsServed'
  BY <1>1, <1>5, OthersKept
<1> QED
  BY <1>1, <1>3, <1>4, <1>6 DEF Ready, Building, Leaving

LEMMA ClaimPrepareKeeps == ASSUME Tenancy, ClaimPrepare PROVE Ready'
<1>0. PICK p : p = lease[current][track]
  OBVIOUS
<1>1. /\ pc = "prepare" /\ current \in WorkspaceIds /\ current \notin registered
      /\ p \in Providers /\ track \in Tracks
      /\ track = "a" => pc' = "claim" /\ track' = "b"
      /\ track = "b" => pc' = "register" /\ track' = "a"
      /\ UNCHANGED <<networks, registered, request, lease, queue, current, warming, rbackend>>
  BY <1>0 DEF ClaimPrepare, Tenancy, IInv, TypeOK, Control
<1>2. container[p] \in Container
  BY <1>0, <1>1, TrackContainer DEF Tenancy
<1>3. container'[p] = Prepared(container[p], current) /\ OnlyChanges(p)
  BY <1>0, <1>1 DEF ClaimPrepare, OnlyChanges, Tenancy, IInv, TypeOK
<1>4. /\ \A q \in Providers : Pooled(q) \/ warming = q => container'[q] = container[q]
      /\ \A x \in WorkspaceIds, u \in Tracks :
              lease[x][u] \in Providers /\ ~(x = current /\ u = track) =>
                container'[lease[x][u]] = container[lease[x][u]]
  BY <1>0, <1>1, <1>3, TrackIsApart DEF Tenancy
<1>5. IdleAreReady'
  BY <1>1, <1>4, PooledKept DEF Tenancy, Ready, Pooled, IInv, TypeOK
<1>6. WarmingIsFresh'
  BY <1>1, <1>4, WarmingKept DEF Tenancy, Ready, IInv, TypeOK
<1>7. TenantsServed'
  BY <1>1, <1>4, OthersKept
<1>8. Serves(container'[p], current) /\ container'[p].clean
  <2>1. Idle(container[p], current) /\ container[p].version = request[current].version
    BY <1>0, <1>1 DEF Tenancy, Ready, Building
  <2> QED
    BY <1>2, <1>3, <2>1 DEF Prepared, Serves, Idle, Container
<1>9. track = "b" => /\ container'[lease[current]["a"]] = container[lease[current]["a"]]
                     /\ Serves(container[lease[current]["a"]], current)
                     /\ container[lease[current]["a"]].clean
  BY <1>1, <1>4 DEF Tenancy, Ready, Building, IInv, Control
<1>10. current' \in networks'
  BY <1>1 DEF Tenancy, Ready, Building
<1>11. Building'
  BY <1>0, <1>1, <1>8, <1>9, <1>10 DEF Building, Serves
<1> QED
  BY <1>1, <1>5, <1>6, <1>7, <1>11 DEF Ready, Leaving


LEMMA ClaimPrepareFailsKeeps == ASSUME Tenancy, ClaimPrepareFails PROVE Ready'
<1>0. PICK p : p = lease[current][track]
  OBVIOUS
<1>1. /\ pc' = "raise" /\ current \in WorkspaceIds /\ current \notin registered
      /\ p \in Providers /\ track \in Tracks
      /\ lease' = [lease EXCEPT ![current][track] = NoProvider]
      /\ UNCHANGED <<networks, registered, request, queue, warming, rbackend>>
  BY <1>0 DEF ClaimPrepareFails, Tenancy, IInv, TypeOK, Control
<1>2. OnlyChanges(p)
  BY <1>0, StoppedContainer DEF ClaimPrepareFails, OnlyChanges, Tenancy
<1>3. /\ \A q \in Providers : Pooled(q) \/ warming = q => container'[q] = container[q]
      /\ \A x \in WorkspaceIds, u \in Tracks :
              lease[x][u] \in Providers /\ ~(x = current /\ u = track) =>
                container'[lease[x][u]] = container[lease[x][u]]
  BY <1>0, <1>1, <1>2, TrackIsApart DEF Tenancy
<1>4. IdleAreReady'
  BY <1>1, <1>3, PooledKept DEF Tenancy, Ready, Pooled, IInv, TypeOK
<1>5. WarmingIsFresh'
  BY <1>1, <1>3, WarmingKept DEF Tenancy, Ready, IInv, TypeOK
<1>6. \A w \in WorkspaceIds \ {current} : lease'[w] = lease[w]
  BY <1>1 DEF Tenancy, IInv, TypeOK
<1>7. TenantsServed'
  BY <1>1, <1>3, <1>6, OthersKept
<1> QED
  BY <1>1, <1>4, <1>5, <1>7 DEF Ready, Building, Leaving

LEMMA RegisterKeeps == ASSUME Tenancy, Register PROVE Ready'
<1>1. /\ pc = "register" /\ pc' = "idle" /\ registered' = registered \cup {current}
      /\ UNCHANGED <<container, networks, queue, request, lease, warming, rbackend>>
  BY DEF Register
<1>2. /\ current \in networks
      /\ \A t \in Tracks : Serves(container[lease[current][t]], current)
  BY <1>1 DEF Tenancy, Ready, Building
<1>3. TenantsServed'
  BY <1>1, <1>2 DEF Tenancy, Ready, TenantsServed, Serves
<1> QED
  BY <1>1, <1>3 DEF Tenancy, Ready, IdleAreReady, WarmingIsFresh, Building, Leaving

LEMMA RaiseKeeps == ASSUME Tenancy, Raise PROVE Ready'
<1>1. /\ current \in WorkspaceIds /\ current \notin registered /\ pc' = "idle"
      /\ UNCHANGED <<container, networks, queue, registered, warming, rbackend>>
      /\ request' = [request EXCEPT ![current] = NoRequest]
      /\ lease' = [lease EXCEPT ![current] = NoLeases]
  BY DEF Raise, Tenancy, IInv, Control
<1>2. \A w \in WorkspaceIds \ {current} : request'[w] = request[w] /\ lease'[w] = lease[w]
  BY <1>1 DEF Tenancy, IInv, TypeOK
<1>3. TenantsServed'
  BY <1>1, <1>2, OthersKept
<1> QED
  BY <1>1, <1>3 DEF Tenancy, Ready, IdleAreReady, WarmingIsFresh, Building, Leaving

-----------------------------------------------------------------------------
(* The steps of destroy                                                    *)

\* The track destroy is not working on.
LEMMA OtherTrackKept ==
  ASSUME Tenancy, pc \in {"disconnect", "reset", "append"}, track = "a",
         \A x \in WorkspaceIds, u \in Tracks :
              lease[x][u] \in Providers /\ ~(x = current /\ u = track) =>
                container'[lease[x][u]] = container[lease[x][u]]
  PROVE  /\ Serves(container[lease[current]["b"]], current)
         /\ container'[lease[current]["b"]] = container[lease[current]["b"]]
BY DEF Tenancy, Ready, Leaving, IInv, Control

LEMMA DisconnectKeeps == ASSUME Tenancy, Disconnect PROVE Ready'
<1>0. PICK p : p = lease[current][track]
  OBVIOUS
<1>1. /\ pc = "disconnect" /\ pc' = "reset" /\ current \in WorkspaceIds /\ current \notin registered
      /\ p \in Providers /\ track \in Tracks
      /\ UNCHANGED <<networks, registered, request, lease, queue, current, track, warming, rbackend>>
  BY <1>0 DEF Disconnect, Tenancy, IInv, TypeOK, Control
<1>2. container[p] \in Container
  BY <1>0, <1>1, TrackContainer DEF Tenancy
<1>3. /\ \/ container'[p] = [container[p] EXCEPT !.nets = @ \ {current}]
         \/ May("disconnect") /\ container'[p] = container[p]
      /\ OnlyChanges(p)
  BY <1>0, <1>1 DEF Disconnect, OnlyChanges, Tenancy, IInv, TypeOK
<1>4. /\ \A q \in Providers : Pooled(q) \/ warming = q => container'[q] = container[q]
      /\ \A x \in WorkspaceIds, u \in Tracks :
              lease[x][u] \in Providers /\ ~(x = current /\ u = track) =>
                container'[lease[x][u]] = container[lease[x][u]]
  BY <1>0, <1>1, <1>3, TrackIsApart DEF Tenancy
<1>5. IdleAreReady'
  BY <1>1, <1>4, PooledKept DEF Tenancy, Ready, Pooled, IInv, TypeOK
<1>6. WarmingIsFresh'
  BY <1>1, <1>4, WarmingKept DEF Tenancy, Ready, IInv, TypeOK
<1>7. TenantsServed'
  BY <1>1, <1>4, OthersKept
<1>8. Idle(container[p], current)'
  <2>1. Serves(container[p], current)
    BY <1>0, <1>1 DEF Tenancy, Ready, Leaving
  <2> QED
    BY <1>1, <1>2, <1>3, <2>1 DEF Serves, Idle, Container
<1>9. track = "a" => Serves(container[lease[current]["b"]], current)'
  BY <1>1, <1>4, OtherTrackKept DEF Serves
<1> QED
  BY <1>0, <1>1, <1>5, <1>6, <1>7, <1>8, <1>9 DEF Ready, Building, Leaving

LEMMA ReleaseResetKeeps == ASSUME Tenancy, ReleaseReset PROVE Ready'
<1>0. PICK p : p = lease[current][track]
  OBVIOUS
<1>1. /\ pc = "reset" /\ pc' = "append" /\ current \in WorkspaceIds /\ current \notin registered
      /\ p \in Providers /\ track \in Tracks
      /\ UNCHANGED <<networks, registered, request, lease, queue, current, track, warming, rbackend>>
  BY <1>0 DEF ReleaseReset, Tenancy, IInv, TypeOK, Control
<1>2. container[p] \in Container
  BY <1>0, <1>1, TrackContainer DEF Tenancy
<1>3. container'[p] = [container[p] EXCEPT !.clean = TRUE] /\ OnlyChanges(p)
  BY <1>0, <1>1 DEF ReleaseReset, OnlyChanges, Tenancy, IInv, TypeOK
<1>4. /\ \A q \in Providers : Pooled(q) \/ warming = q => container'[q] = container[q]
      /\ \A x \in WorkspaceIds, u \in Tracks :
              lease[x][u] \in Providers /\ ~(x = current /\ u = track) =>
                container'[lease[x][u]] = container[lease[x][u]]
  BY <1>0, <1>1, <1>3, TrackIsApart DEF Tenancy
<1>5. IdleAreReady'
  BY <1>1, <1>4, PooledKept DEF Tenancy, Ready, Pooled, IInv, TypeOK
<1>6. WarmingIsFresh'
  BY <1>1, <1>4, WarmingKept DEF Tenancy, Ready, IInv, TypeOK
<1>7. TenantsServed'
  BY <1>1, <1>4, OthersKept
<1>8. Idle(container[p], current)' /\ container'[p].clean
  <2>1. Idle(container[p], current)
    BY <1>0, <1>1 DEF Tenancy, Ready, Leaving
  <2> QED
    BY <1>1, <1>2, <1>3, <2>1 DEF Idle, Container
<1>9. track = "a" => Serves(container[lease[current]["b"]], current)'
  BY <1>1, <1>4, OtherTrackKept DEF Serves
<1> QED
  BY <1>0, <1>1, <1>5, <1>6, <1>7, <1>8, <1>9 DEF Ready, Building, Leaving

LEMMA ReleaseDiscardKeeps == ASSUME Tenancy, ReleaseDiscard PROVE Ready'
<1>0. PICK p : p = lease[current][track]
  OBVIOUS
<1>1. /\ pc = "reset" /\ current \in WorkspaceIds /\ current \notin registered
      /\ p \in Providers /\ track \in Tracks
      /\ lease' = [lease EXCEPT ![current][track] = NoProvider]
      /\ track = "a" => pc' = "disconnect" /\ track' = "b"
      /\ track = "b" => pc' = "unlink" /\ track' = "a"
      /\ UNCHANGED <<networks, registered, request, queue, current, warming, rbackend>>
  BY <1>0 DEF ReleaseDiscard, Released, Tenancy, IInv, TypeOK, Control
<1>2. OnlyChanges(p)
  BY <1>0, StoppedContainer DEF ReleaseDiscard, OnlyChanges, Tenancy
<1>3. /\ \A q \in Providers : Pooled(q) \/ warming = q => container'[q] = container[q]
      /\ \A x \in WorkspaceIds, u \in Tracks :
              lease[x][u] \in Providers /\ ~(x = current /\ u = track) =>
                container'[lease[x][u]] = container[lease[x][u]]
  BY <1>0, <1>1, <1>2, TrackIsApart DEF Tenancy
<1>4. IdleAreReady'
  BY <1>1, <1>3, PooledKept DEF Tenancy, Ready, Pooled, IInv, TypeOK
<1>5. WarmingIsFresh'
  BY <1>1, <1>3, WarmingKept DEF Tenancy, Ready, IInv, TypeOK
<1>6. /\ \A w \in WorkspaceIds \ {current} : lease'[w] = lease[w]
      /\ track = "a" => lease'[current]["b"] = lease[current]["b"]
  BY <1>1 DEF Tenancy, IInv, TypeOK
<1>7. TenantsServed'
  BY <1>1, <1>3, <1>6, OthersKept
<1>8. track = "a" => Serves(container[lease[current]["b"]], current)'
  BY <1>1, <1>3, <1>6, OtherTrackKept DEF Serves
<1> QED
  BY <1>1, <1>4, <1>5, <1>7, <1>8 DEF Ready, Building, Leaving

LEMMA ReleaseAppendKeeps == ASSUME Tenancy, ReleaseAppend PROVE Ready'
<1>0. PICK p, k : p = lease[current][track] /\ k = request[current].backend
  OBVIOUS
<1>1. /\ pc = "append" /\ current \in WorkspaceIds /\ current \notin registered
      /\ p \in Providers /\ track \in Tracks /\ k \in Backends
      /\ queue' = [queue EXCEPT ![k] = @ \cup {p}]
      /\ lease' = [lease EXCEPT ![current][track] = NoProvider]
      /\ track = "a" => pc' = "disconnect" /\ track' = "b"
      /\ track = "b" => pc' = "unlink" /\ track' = "a"
      /\ UNCHANGED <<container, networks, registered, request, current, warming, rbackend>>
  BY <1>0 DEF ReleaseAppend, Released, Tenancy, IInv, TypeOK, Control
<1>2. Idle(container[p], current) /\ container[p].clean
  BY <1>0, <1>1 DEF Tenancy, Ready, Leaving
<1>3. IdleAreReady'
  BY <1>0, <1>1, <1>2 DEF Tenancy, Ready, IdleAreReady, Idle, IInv, TypeOK
<1>4. WarmingIsFresh'
  BY <1>1 DEF Tenancy, Ready, WarmingIsFresh
<1>5. /\ \A w \in WorkspaceIds \ {current} : lease'[w] = lease[w]
      /\ track = "a" => lease'[current]["b"] = lease[current]["b"]
  BY <1>1 DEF Tenancy, IInv, TypeOK
<1>6. TenantsServed'
  BY <1>1, <1>5, OthersKept
<1>7. track = "a" => Serves(container[lease[current]["b"]], current)'
  BY <1>1, <1>5, OtherTrackKept DEF Serves
<1> QED
  BY <1>1, <1>3, <1>4, <1>6, <1>7 DEF Ready, Building, Leaving

LEMMA RemoveNetworkKeeps == ASSUME Tenancy, RemoveNetwork PROVE Ready'
<1>1. /\ pc = "unlink" /\ pc' = "idle" /\ current \in WorkspaceIds /\ current \notin registered
      /\ \A w \in WorkspaceIds \ {current} : w \in networks => w \in networks'
      /\ request' = [request EXCEPT ![current] = NoRequest]
      /\ UNCHANGED <<container, queue, registered, lease, warming, rbackend>>
  BY DEF RemoveNetwork, Tenancy, IInv, Control
<1>2. \A w \in registered : w \in WorkspaceIds \ {current} /\ request'[w] = request[w]
  BY <1>1 DEF Tenancy, IInv, TypeOK
<1>3. TenantsServed'
  BY <1>1, <1>2 DEF Tenancy, Ready, TenantsServed, Serves
<1> QED
  BY <1>1, <1>3 DEF Tenancy, Ready, IdleAreReady, WarmingIsFresh, Building, Leaving


-----------------------------------------------------------------------------
(* The steps of shutdown                                                   *)

LEMMA DrainKeeps == ASSUME Tenancy, DrainOne PROVE Ready'
<1>1. /\ UNCHANGED <<networks, registered, request, lease, pc, current, track, warming, rbackend>>
      /\ \E b \in Backends : \E p \in queue[b] :
           queue' = [queue EXCEPT ![b] = @ \ {p}] /\ SafeStop(p)
  BY DEF DrainOne
<1>2. PICK b \in Backends : \E p \in queue[b] :
        queue' = [queue EXCEPT ![b] = @ \ {p}] /\ SafeStop(p)
  BY <1>1
<1>3. PICK p \in queue[b] : queue' = [queue EXCEPT ![b] = @ \ {p}] /\ SafeStop(p)
  BY <1>2
<1>4. OnlyChanges(p)
  BY <1>3, StoppedContainer DEF OnlyChanges, Tenancy
<1>5. /\ p \in Providers /\ ~Leased(p) /\ p # warming
      /\ \A c \in Backends : p \in queue[c] => c = b
  BY <1>3 DEF Tenancy, IInv, TypeOK, SingleOwner, Pooled
<1>6. IdleAreReady'
  BY <1>3, <1>4, <1>5, PooledKept DEF OnlyChanges, Tenancy, Ready, IInv, TypeOK
<1>7. WarmingIsFresh'
  BY <1>1, <1>4, <1>5, WarmingKept DEF OnlyChanges, Tenancy, Ready, IInv, TypeOK
<1>8. TenantsServed' /\ Building' /\ Leaving'
  BY <1>1, <1>4, <1>5, SpacesKept DEF OnlyChanges, Tenancy, Ready
<1> QED
  BY <1>6, <1>7, <1>8 DEF Ready

\* Shutdown, the other steps of stop(), exit and a step of nobody.
LEMMA PhasesKeep ==
  ASSUME Tenancy, Shutdown \/ StopPool \/ DrainDone \/ Exit \/ UNCHANGED vars PROVE Ready'
<1>1. /\ UNCHANGED <<container, networks, queue, registered, request, lease, current, track,
                     warming, rbackend>>
      /\ pc' = pc \/ pc' \in {"idle", "drain"}
  BY DEF Shutdown, Serving, StopPool, DrainDone, Exit, vars
<1>2. IdleAreReady' /\ WarmingIsFresh' /\ TenantsServed'
  BY <1>1 DEF Tenancy, Ready, IdleAreReady, WarmingIsFresh, TenantsServed, Serves
<1>3. Building' /\ Leaving'
  BY <1>1 DEF Tenancy, Ready, Building, Leaving, Serves, Idle
<1> QED
  BY <1>2, <1>3 DEF Ready

-----------------------------------------------------------------------------
(* The steps of the refill thread                                          *)

LEMMA RefillScanKeeps ==
  ASSUME Tenancy, RefillWake \/ \E b \in Backends : RefillScan(b) PROVE Ready'
<1>1. /\ UNCHANGED <<container, networks, queue, registered, request, lease, pc, current, track>>
      /\ warming = NoProvider /\ warming' = NoProvider
  BY DEF RefillWake, RefillScan, Tenancy, IInv, Control
<1>2. TenantsServed' /\ Building' /\ Leaving'
  BY <1>1, SpacesKept DEF Tenancy, Ready
<1> QED
  BY <1>1, <1>2 DEF Tenancy, Ready, IdleAreReady, WarmingIsFresh

LEMMA RefillStartKeeps == ASSUME Tenancy, RefillStart \/ RefillStartFails PROVE Ready'
<1>1. /\ UNCHANGED <<networks, queue, registered, request, lease, pc, current, track>>
      /\ warming = NoProvider
  BY DEF RefillStart, RefillStartFails, Tenancy, IInv, Control
<1>2. OwnedStay
  BY LaunchIsApart DEF RefillStart, RefillStartFails, OwnedStay, Tenancy
<1>3. TenantsServed' /\ Building' /\ Leaving'
  BY <1>1, <1>2, SpacesKept DEF OwnedStay, Owned, Tenancy, Ready
<1>4. IdleAreReady'
  BY <1>1, <1>2, PooledKept DEF OwnedStay, Owned, Pooled, Tenancy, Ready, IInv, TypeOK
<1>5. WarmingIsFresh'
  <2>1. CASE RefillStart
    <3>1. PICK p \in Unused : Launch(p, rbackend, DefaultVersion) /\ warming' = p
      BY <2>1 DEF RefillStart
    <3>2. container'[p] = Fresh(rbackend, DefaultVersion)
      BY <3>1, LaunchIsApart DEF Tenancy
    <3> QED
      BY <2>1, <3>1, <3>2 DEF RefillStart, WarmingIsFresh, Fresh
  <2>2. CASE RefillStartFails
    BY <1>1, <2>2 DEF RefillStartFails, WarmingIsFresh
  <2> QED
    BY <2>1, <2>2
<1> QED
  BY <1>3, <1>4, <1>5 DEF Ready

LEMMA RefillAppendKeeps == ASSUME Tenancy, RefillAppend PROVE Ready'
<1>1. /\ UNCHANGED <<container, networks, registered, request, lease, pc, current, track>>
      /\ warming \in Providers /\ rbackend \in Backends /\ warming' = NoProvider
      /\ queue' = [queue EXCEPT ![rbackend] = @ \cup {warming}]
  BY DEF RefillAppend, Tenancy, IInv, TypeOK, Control
<1>2. TenantsServed' /\ Building' /\ Leaving'
  BY <1>1, SpacesKept DEF Tenancy, Ready
<1>3. container[warming] = Fresh(rbackend, DefaultVersion)
  BY <1>1, ConstantsAssumption DEF Tenancy, Ready, WarmingIsFresh
<1>4. IdleAreReady'
  BY <1>1, <1>3 DEF Tenancy, Ready, IdleAreReady, Fresh, IInv, TypeOK
<1> QED
  BY <1>1, <1>2, <1>4 DEF Ready, WarmingIsFresh

-----------------------------------------------------------------------------
(* Tenancy is an invariant                                                 *)

\* A server that has just started has no tenants.
LEMMA InitTenancy == Init => Tenancy
<1> SUFFICES ASSUME Init PROVE Tenancy
  OBVIOUS
<1>1. IInv
  BY InitIInv
<1>2. Slots
  BY DEF Init, Slots, NoLeases
<1>3. Ready
  BY DEF Init, Ready, IdleAreReady, TenantsServed, Building, Leaving, WarmingIsFresh
<1> QED
  BY <1>1, <1>2, <1>3 DEF Tenancy

LEMMA ReadyStep == ASSUME Tenancy, [Next]_vars PROVE Ready'
<1>1. CASE Call
  BY <1>1, InitializeSQLiteKeeps, InitializeContainersKeeps, UseKeeps, DestroyKeeps, PhasesKeep
     DEF Call
<1>2. CASE Claim \/ Register \/ RegisterFails \/ Raise
  <2>1. CASE RegisterFails
    BY <2>1 DEF RegisterFails, Tenancy, Ready, IdleAreReady, TenantsServed, Serves,
                Building, Leaving, WarmingIsFresh
  <2> QED
    BY <1>2, <2>1, ClaimPooledKeeps, ClaimColdStartKeeps, ClaimColdStartFailsKeeps,
       ClaimPrepareKeeps, ClaimPrepareFailsKeeps, RegisterKeeps, RaiseKeeps DEF Claim
<1>3. CASE Release
  BY <1>3, DisconnectKeeps, ReleaseResetKeeps, ReleaseDiscardKeeps, ReleaseAppendKeeps,
     RemoveNetworkKeeps DEF Release
<1>4. CASE Drain \/ Exit \/ Exited \/ UNCHANGED vars
  BY <1>4, DrainKeeps, PhasesKeep DEF Drain, Exited
<1>5. CASE \E w \in WorkspaceIds : Destroy(w)
  BY <1>5, DestroyKeeps
<1>6. CASE Refill
  BY <1>6, RefillScanKeeps, RefillStartKeeps, RefillAppendKeeps DEF Refill
<1> QED
  BY <1>1, <1>2, <1>3, <1>4, <1>5, <1>6 DEF Next, Proceed

\* Tenancy is inductive.
LEMMA TenancyInvariant == Spec => []Tenancy
<1>1. Tenancy /\ [Next]_vars => Tenancy'
  <2> SUFFICES ASSUME Tenancy, [Next]_vars PROVE Tenancy'
    OBVIOUS
  <2>1. IInv'
    BY TypeStep, ControlStep, RunningStep, OwnerStep DEF Tenancy, IInv
  <2>2. Slots'
    BY SlotsStep DEF Tenancy
  <2>3. Ready'
    BY ReadyStep
  <2> QED
    BY <2>1, <2>2, <2>3 DEF Tenancy
<1> QED
  BY InitTenancy, <1>1, PTL DEF Spec

-----------------------------------------------------------------------------
(* Who is on the network of a workspace                                    *)

\* The workspaces clients use, and the one under construction.
Live == registered \cup (IF pc \in {"claim", "prepare", "register"} THEN {current} ELSE {})

\* Containers are on networks that exist, and on that of a live workspace only
\* as its own.  A network that could not be removed keeps its id from use.
Membership ==
  /\ \A p \in Providers : container[p] # NoContainer => container[p].nets \subseteq networks
  /\ \A w \in Live : \A p \in Members(w) : \E t \in Tracks : lease[w][t] = p

\* No container joins a network.
NobodyJoins ==
  \A p \in Providers : container'[p] # NoContainer =>
    \/ container'[p].nets = {}
    \/ container[p] # NoContainer /\ container'[p].nets \subseteq container[p].nets

\* Where nobody joins a network and live workspaces keep their containers,
\* memberships stay; a new workspace has a network nobody is on.
LEMMA MembersKept ==
  ASSUME Membership, NobodyJoins, networks \subseteq networks',
         \A w \in Live' : w \in Live \/ w \notin networks,
         \A w \in Live', t \in Tracks : lease[w][t] \in Providers => lease'[w][t] = lease[w][t]
  PROVE  Membership'
<1>1. \A p \in Providers : container'[p] # NoContainer => container'[p].nets \subseteq networks'
  BY DEF Membership, NobodyJoins
<1>2. ASSUME NEW w \in Live', NEW p \in Members(w)'
      PROVE  \E t \in Tracks : lease'[w][t] = p
  <2>1. p \in Providers /\ container'[p] # NoContainer /\ w \in container'[p].nets
    BY <1>2 DEF Members
  <2>2. p \in Members(w) /\ w \in networks
    BY <2>1 DEF NobodyJoins, Membership, Members
  <2>3. PICK t \in Tracks : lease[w][t] = p
    BY <2>2 DEF Membership
  <2> QED
    BY <2>1, <2>3
<1> QED
  BY <1>1, <1>2 DEF Membership

\* Only the second half of a claim puts a container on a network.
LEMMA NobodyJoinsElsewhere ==
  ASSUME IInv, [Next]_vars, ~ClaimPrepare
  PROVE  NobodyJoins
<1>1. CASE UNCHANGED container
  BY <1>1 DEF NobodyJoins
<1>2. ASSUME NEW p \in Unused, NEW b, NEW v, Launch(p, b, v)
      PROVE  NobodyJoins
  <2>1. p \in Providers /\ container'[p] = Fresh(b, v) /\ OnlyChanges(p)
    BY <1>2, LaunchIsApart
  <2>2. container'[p].nets = {}
    BY <2>1 DEF Fresh
  <2> QED
    BY <2>1, <2>2 DEF NobodyJoins, OnlyChanges
<1>3. ASSUME NEW p \in Providers, SafeStop(p)
      PROVE  NobodyJoins
  BY <1>3 DEF SafeStop, NobodyJoins, IInv, TypeOK
<1>4. ASSUME NEW w \in WorkspaceIds, NEW t \in Tracks, Use(w, t)
      PROVE  NobodyJoins
  <2>0. PICK p : p = lease[w][t]
    OBVIOUS
  <2>1. p \in Providers /\ container[p] \in Container
    BY <1>4, <2>0, TrackContainer DEF Use, Serving, IInv, Control
  <2>2. container'[p] = [container[p] EXCEPT !.clean = FALSE] /\ OnlyChanges(p)
    BY <1>4, <2>0, <2>1 DEF Use, OnlyChanges, IInv, TypeOK
  <2> QED
    BY <2>1, <2>2, NullsAssumption DEF NobodyJoins, OnlyChanges, Container
<1>5. CASE Disconnect \/ ReleaseReset
  <2>0. PICK p : p = lease[current][track]
    OBVIOUS
  <2>1. p \in Providers /\ container[p] \in Container
    BY <1>5, <2>0, TrackContainer DEF Disconnect, ReleaseReset, IInv, TypeOK, Control
  <2>2. /\ \/ container'[p] = [container[p] EXCEPT !.nets = @ \ {current}]
           \/ container'[p] = [container[p] EXCEPT !.clean = TRUE]
           \/ container'[p] = container[p]
        /\ OnlyChanges(p)
    BY <1>5, <2>0, <2>1 DEF Disconnect, ReleaseReset, OnlyChanges, IInv, TypeOK
  <2> QED
    BY <2>1, <2>2, NullsAssumption DEF NobodyJoins, OnlyChanges, Container
<1>6. CASE ClaimPrepareFails \/ ReleaseDiscard
  BY <1>3, <1>6 DEF ClaimPrepareFails, ReleaseDiscard, IInv, TypeOK, Control
<1>7. CASE DrainOne
  BY <1>3, <1>7 DEF DrainOne, IInv, TypeOK
<1>8. CASE Call
  BY <1>1, <1>4, <1>8 DEF Call, InitializeSQLite, InitializeContainers, Destroy, Shutdown
<1>9. CASE Claim \/ Register \/ RegisterFails \/ Raise
  BY <1>1, <1>2, <1>6, <1>9 DEF Claim, ClaimPooled, ClaimColdStart, ClaimColdStartFails, Register,
     RegisterFails, Raise
<1>10. CASE Release
  BY <1>1, <1>5, <1>6, <1>10 DEF Release, ReleaseAppend, RemoveNetwork
<1>11. CASE Drain \/ Exit \/ Exited \/ UNCHANGED vars
  BY <1>1, <1>7, <1>11 DEF Drain, StopPool, DrainDone, Exit, Exited, vars
<1>12. CASE \E w \in WorkspaceIds : Destroy(w)
  BY <1>1, <1>12 DEF Destroy
<1>13. CASE Refill
  BY <1>1, <1>2, <1>13 DEF Refill, RefillWake, RefillScan, RefillStart, RefillStartFails, RefillAppend
<1> QED
  BY <1>8, <1>9, <1>10, <1>11, <1>12, <1>13 DEF Next, Proceed

\* The container being prepared joins the network of its own workspace.
LEMMA ClaimPrepareMembers ==
  ASSUME Tenancy, Membership, ClaimPrepare PROVE Membership'
<1>0. PICK p : p = lease[current][track]
  OBVIOUS
<1>1. /\ pc = "prepare" /\ current \in WorkspaceIds /\ track \in Tracks /\ p \in Providers
      /\ container[p] \in Container
      /\ pc' \in {"claim", "register"}
      /\ UNCHANGED <<networks, registered, lease, current>>
  BY <1>0, TrackContainer DEF ClaimPrepare, Tenancy, IInv, TypeOK, Control
<1>2. container'[p] = Prepared(container[p], current) /\ OnlyChanges(p)
  BY <1>0, <1>1 DEF ClaimPrepare, OnlyChanges, Tenancy, IInv, TypeOK
<1>3. container'[p].nets = container[p].nets \cup {current}
  BY <1>1, <1>2 DEF Prepared, Container
<1>4. current \in networks /\ container[p] # NoContainer
  BY <1>1, NullsAssumption DEF Tenancy, Ready, Building
<1>5. \A q \in Providers : container'[q] # NoContainer => container'[q].nets \subseteq networks'
  BY <1>1, <1>2, <1>3, <1>4 DEF OnlyChanges, Membership
<1>6. Live' = Live
  BY <1>1 DEF Live
<1>7. ASSUME NEW w \in Live', NEW q \in Members(w)'
      PROVE  \E t \in Tracks : lease'[w][t] = q
  <2>1. q \in Members(w) \/ (w = current /\ q = p)
    BY <1>2, <1>3, <1>4, <1>7 DEF Members, OnlyChanges
  <2> QED
    BY <1>0, <1>1, <1>6, <2>1 DEF Membership
<1> QED
  BY <1>5, <1>7 DEF Membership

\* A network goes only when nobody is on it.
LEMMA RemoveNetworkMembers ==
  ASSUME Tenancy, Membership, RemoveNetwork PROVE Membership'
<1>1. /\ UNCHANGED <<container, registered, lease>> /\ pc = "unlink" /\ pc' = "idle"
      /\ networks' = networks \/ (Members(current) = {} /\ networks' = networks \ {current})
  BY DEF RemoveNetwork, Removable
<1>2. \A p \in Providers : container'[p] # NoContainer => container'[p].nets \subseteq networks'
  BY <1>1 DEF Membership, Members
<1> QED
  BY <1>1, <1>2 DEF Membership, Members, Live

\* Networks come with a new workspace and go at the end of destroy.
LEMMA OtherMembers ==
  ASSUME Tenancy, Membership, [Next]_vars, ~ClaimPrepare, ~RemoveNetwork
  PROVE  Membership'
<1>1. NobodyJoins
  BY NobodyJoinsElsewhere DEF Tenancy
<1>2. networks \subseteq networks'
  BY DEF Next, Call, Proceed, Claim, Release, Drain, Refill, InitializeSQLite, InitializeContainers,
     Use, Destroy, Shutdown, ClaimPooled, ClaimColdStart, ClaimColdStartFails, ClaimPrepareFails,
     Register, RegisterFails, Raise, Disconnect, ReleaseReset, ReleaseDiscard, ReleaseAppend,
     StopPool, DrainOne, DrainDone, Exit, RefillWake, RefillScan, RefillStart, RefillStartFails,
     RefillAppend, Exited, vars
<1>3. ASSUME lease' = lease, \A w \in Live' : w \in Live \/ w \notin networks
      PROVE  Membership'
  BY <1>1, <1>2, <1>3, MembersKept
<1>4. ASSUME NEW w \in WorkspaceIds, NEW b, NEW v,
             InitializeSQLite(w, v) \/ InitializeContainers(w, b, v)
      PROVE  Membership'
  BY <1>3, <1>4 DEF InitializeSQLite, InitializeContainers, CanInitialize, Serving, Live
<1>5. CASE (\E w \in WorkspaceIds, t \in Tracks : Use(w, t)) \/ Shutdown \/ Drain \/ Exit \/ Refill
           \/ Exited \/ UNCHANGED vars
  BY <1>3, <1>5 DEF Use, Serving, Shutdown, Drain, StopPool, DrainOne, DrainDone, Exit, Refill,
     RefillWake, RefillScan, RefillStart, RefillStartFails, RefillAppend, Exited, vars, Live
<1>6. ASSUME NEW w \in WorkspaceIds, Destroy(w)
      PROVE  Membership'
  BY <1>3, <1>6 DEF Destroy, Live
<1>7. CASE ClaimColdStartFails \/ Register \/ RegisterFails
  BY <1>3, <1>7 DEF ClaimColdStartFails, Register, RegisterFails, Live
<1>8. CASE Disconnect \/ ReleaseReset
  BY <1>3, <1>8 DEF Disconnect, ReleaseReset, Live
<1>9. CASE ClaimPooled \/ ClaimColdStart
  <2>1. /\ current \in WorkspaceIds /\ track \in Tracks /\ lease[current][track] = NoProvider
        /\ Live' = Live
    BY <1>9 DEF ClaimPooled, ClaimColdStart, Tenancy, Slots, IInv, TypeOK, Control, Live
  <2>2. PICK p : lease' = [lease EXCEPT ![current][track] = p]
    BY <1>9 DEF ClaimPooled, ClaimColdStart
  <2>3. \A w \in Live', t \in Tracks : lease[w][t] \in Providers => lease'[w][t] = lease[w][t]
    BY <2>1, <2>2, ConstantsAssumption DEF Tenancy, IInv, TypeOK
  <2> QED
    BY <1>1, <1>2, <2>1, <2>3, MembersKept
<1>10. CASE ClaimPrepareFails \/ Raise \/ ReleaseDiscard \/ ReleaseAppend
  <2>1. /\ current \in WorkspaceIds /\ current \notin registered
        /\ registered' = registered /\ Live' = registered
    BY <1>10 DEF ClaimPrepareFails, Raise, ReleaseDiscard, ReleaseAppend, Released, Tenancy, IInv,
       TypeOK, Control, Live
  <2>2. \A w \in registered : lease'[w] = lease[w]
    BY <1>10, <2>1 DEF ClaimPrepareFails, Raise, ReleaseDiscard, ReleaseAppend, Released, Tenancy,
       IInv, TypeOK
  <2>3. \A w \in Live' : w \in Live
    BY <2>1 DEF Live
  <2> QED
    BY <1>1, <1>2, <2>1, <2>2, <2>3, MembersKept
<1> QED
  BY <1>4, <1>5, <1>6, <1>7, <1>8, <1>9, <1>10 DEF Next, Call, Proceed, Claim, Release

\* Tenancy and Membership are inductive together.
LEMMA MembershipInvariant == Spec => [](Tenancy /\ Membership)
<1>1. Init => Membership
  BY DEF Init, Membership, Members, Live
<1>2. Tenancy /\ Membership /\ [Next]_vars => Membership'
  BY ClaimPrepareMembers, RemoveNetworkMembers, OtherMembers
<1> QED
  BY <1>1, <1>2, TenancyInvariant, PTL DEF Spec

-----------------------------------------------------------------------------
(* The theorems                                                            *)

\* Whatever interleaves and fails, disconnect included, an idle container is
\* under its own backend's key, was reset after its last tenant and is on the
\* network of no registered workspace (pool.py:release, _top_up).
THEOREM PoolHandsOutReadyContainers == Spec => []PooledAreReady
<1>1. Tenancy /\ Membership => PooledAreReady
  <2> SUFFICES ASSUME Tenancy, Membership, NEW b \in Backends, NEW p \in queue[b]
               PROVE  /\ container[p].backend = b /\ container[p].clean
                      /\ container[p].nets \cap registered = {}
    BY DEF PooledAreReady
  <2>1. container[p].backend = b /\ container[p].clean
    BY DEF Tenancy, Ready, IdleAreReady
  <2>2. Pooled(p) /\ p \in Providers /\ container[p] # NoContainer
    BY DEF Pooled, Owned, Tenancy, IInv, TypeOK, OwnedAreRunning
  <2>3. ~Leased(p)
    BY <2>2 DEF Tenancy, IInv, SingleOwner
  <2>4. \A w \in registered : p \notin Members(w)
    BY <2>3 DEF Membership, Live, Leased, Tenancy, IInv, TypeOK
  <2> QED
    BY <2>1, <2>2, <2>4 DEF Members
<1> QED
  BY <1>1, MembershipInvariant, PTL

\* However initialize and destroy were interrupted by failed calls before,
\* disconnect included, a registered workspace has what it asked for, on a
\* network that exists and that its two containers alone are on.
THEOREM TenantsAreIsolated == Spec => []WorkspacesAreIsolated
<1>1. Tenancy /\ Membership => WorkspacesAreIsolated
  <2> SUFFICES ASSUME Tenancy, Membership, NEW w \in registered, request[w].backend # SQLite
               PROVE  /\ w \in networks
                      /\ Members(w) = {lease[w][t] : t \in Tracks}
                      /\ \A t \in Tracks :
                           /\ container[lease[w][t]].backend = request[w].backend
                           /\ container[lease[w][t]].version = request[w].version
    BY DEF WorkspacesAreIsolated
  <2>1. w \in networks /\ \A t \in Tracks : Serves(container[lease[w][t]], w)
    BY DEF Tenancy, Ready, TenantsServed
  <2>2. w \in WorkspaceIds
    BY DEF Tenancy, IInv, TypeOK
  <2>3. \A t \in Tracks : lease[w][t] \in Providers /\ container[lease[w][t]] # NoContainer
    BY <2>2 DEF Tenancy, IInv, Control, OwnedAreRunning, Owned, Leased
  <2>4. \A t \in Tracks : lease[w][t] \in Members(w)
    BY <2>1, <2>3 DEF Members, Serves
  <2>5. \A p \in Members(w) : \E t \in Tracks : lease[w][t] = p
    BY DEF Membership, Live
  <2> QED
    BY <2>1, <2>4, <2>5 DEF Serves
<1> QED
  BY <1>1, MembershipInvariant, PTL

-----------------------------------------------------------------------------
(* How containers are lost                                                 *)

\* The three ways in which a provider's container is lost.
LossExplained(p) ==
  \/ /\ May("ready")
     /\ container[p] = NoContainer
     /\ \/ pc = "claim" /\ pc' = "raise"
        \/ rpc = "start" /\ rpc' \in {"check", "scan"}
  \/ May("stop") /\ pc \in {"prepare", "reset", "drain"}
  \/ /\ pc = "raise"
     /\ \E t \in Tracks : p = lease[current][t]
     /\ current \notin registered'

\* Only four steps start a container.
LEMMA Starts ==
  ASSUME IInv, [Next]_vars, NEW p \in Providers, container[p] = NoContainer,
         container'[p] # NoContainer
  PROVE  ClaimColdStart \/ ClaimColdStartFails \/ RefillStart \/ RefillStartFails
<1>1. ASSUME NEW w \in WorkspaceIds, NEW t \in Tracks, Use(w, t)
      PROVE  FALSE
  <2>1. lease[w][t] \in Providers
    BY <1>1 DEF Use, Serving, IInv, Control
  <2>2. p # lease[w][t]
    BY <2>1, TrackContainer, NullsAssumption
  <2> QED
    BY <1>1, <2>1, <2>2 DEF Use, IInv, TypeOK
<1>2. CASE ClaimPrepare \/ Disconnect \/ ReleaseReset \/ ClaimPrepareFails \/ ReleaseDiscard
  <2>1. current \in WorkspaceIds /\ track \in Tracks /\ lease[current][track] \in Providers
    BY <1>2 DEF ClaimPrepare, Disconnect, ReleaseReset, ClaimPrepareFails, ReleaseDiscard,
                IInv, TypeOK, Control
  <2>2. p # lease[current][track]
    BY <2>1, TrackContainer, NullsAssumption
  <2> QED
    BY <1>2, <2>1, <2>2 DEF ClaimPrepare, Disconnect, ReleaseReset, ClaimPrepareFails,
                            ReleaseDiscard, SafeStop, IInv, TypeOK
<1>3. CASE DrainOne
  BY <1>3 DEF DrainOne, SafeStop, IInv, TypeOK
<1>4. ASSUME UNCHANGED container
      PROVE  FALSE
  BY <1>4
<1>5. CASE Call
  BY <1>1, <1>4, <1>5 DEF Call, InitializeSQLite, InitializeContainers, Destroy, Shutdown
<1>6. CASE Claim \/ Register \/ RegisterFails \/ Raise
  BY <1>2, <1>4, <1>6 DEF Claim, ClaimPooled, Register, RegisterFails, Raise
<1>7. CASE Release
  BY <1>2, <1>4, <1>7 DEF Release, ReleaseAppend, RemoveNetwork
<1>8. CASE Drain \/ Exit \/ Exited \/ UNCHANGED vars
  BY <1>3, <1>4, <1>8 DEF Drain, StopPool, DrainDone, Exit, Exited, vars
<1>9. CASE \E w \in WorkspaceIds : Destroy(w)
  BY <1>4, <1>9 DEF Destroy
<1>10. CASE Refill
  BY <1>4, <1>10 DEF Refill, RefillWake, RefillScan, RefillAppend
<1> QED
  BY <1>5, <1>6, <1>7, <1>8, <1>9, <1>10 DEF Next, Proceed

\* A container that is started and at once nobody's.
LEMMA LostAtStart ==
  ASSUME Tenancy, [Next]_vars, NEW p \in Providers, container[p] = NoContainer,
         container'[p] # NoContainer, ~Owned(p)'
  PROVE  LossExplained(p)
<1>1. CASE ClaimColdStart
  <2>1. current \in WorkspaceIds /\ track \in Tracks
    BY <1>1 DEF ClaimColdStart, Tenancy, IInv, TypeOK, Control
  <2>2. PICK q \in Unused : /\ \E b, v : Launch(q, b, v)
                            /\ lease' = [lease EXCEPT ![current][track] = q]
    BY <1>1 DEF ClaimColdStart
  <2>3. p = q
    BY <2>2 DEF Launch, Tenancy, IInv, TypeOK
  <2>4. lease'[current][track] = p
    BY <2>1, <2>2, <2>3 DEF Tenancy, IInv, TypeOK
  <2>5. Leased(p)'
    BY <2>1, <2>4 DEF Leased
  <2> QED
    BY <2>5 DEF Owned
<1>2. CASE ClaimColdStartFails
  BY <1>2 DEF ClaimColdStartFails, LossExplained
<1>3. CASE RefillStart
  <2>1. PICK q \in Unused : Launch(q, rbackend, DefaultVersion) /\ warming' = q
    BY <1>3 DEF RefillStart
  <2>2. p = q
    BY <2>1 DEF Launch, Tenancy, IInv, TypeOK
  <2> QED
    BY <2>1, <2>2 DEF Owned
<1>4. CASE RefillStartFails
  BY <1>4 DEF RefillStartFails, NextBackend, LossExplained
<1> QED
  BY <1>1, <1>2, <1>3, <1>4, Starts DEF Tenancy


\* A container that loses its owner.
LEMMA LostByOwner ==
  ASSUME Tenancy, [Next]_vars, NEW p \in Providers, container'[p] # NoContainer,
         Owned(p), ~Owned(p)'
  PROVE  LossExplained(p)
<1>0. p # NoProvider
  BY ConstantsAssumption
<1>1. CASE OwnersStay
  BY <1>1 DEF OwnersStay, Owned, Leased, Pooled
<1>2. CASE ClaimPooled \/ ClaimColdStart
  <2>1. current \in WorkspaceIds /\ track \in Tracks /\ lease[current][track] = NoProvider
    BY <1>2 DEF ClaimPooled, ClaimColdStart, Tenancy, Slots, IInv, TypeOK, Control
  <2>2. PICK q : /\ lease' = [lease EXCEPT ![current][track] = q]
                 /\ \A b \in Backends : queue[b] \ {q} \subseteq queue'[b]
    <3>1. CASE ClaimPooled
      <4>1. PICK k : k = request[current].backend
        OBVIOUS
      <4>2. PICK q : /\ queue' = [queue EXCEPT ![k] = @ \ {q}]
                     /\ lease' = [lease EXCEPT ![current][track] = q]
        BY <3>1, <4>1 DEF ClaimPooled
      <4> QED
        BY <4>2 DEF Tenancy, IInv, TypeOK
    <3>2. CASE ClaimColdStart
      BY <3>2 DEF ClaimColdStart
    <3> QED
      BY <1>2, <3>1, <3>2
  <2>3. Leased(p) => Leased(p)'
    BY <1>0, <2>1, <2>2 DEF Leased, Tenancy, IInv, TypeOK
  <2>4. Leased(q)'
    BY <2>1, <2>2 DEF Leased, Tenancy, IInv, TypeOK
  <2>5. Pooled(p) => Pooled(p)' \/ p = q
    BY <2>2 DEF Pooled
  <2>6. warming' = warming
    BY <1>2 DEF ClaimPooled, ClaimColdStart
  <2> QED
    BY <2>3, <2>4, <2>5, <2>6 DEF Owned
<1>3. CASE ClaimPrepareFails \/ ReleaseDiscard
  <2>1. /\ current \in WorkspaceIds /\ track \in Tracks /\ lease[current][track] \in Providers
        /\ SafeStop(lease[current][track])
        /\ lease' = [lease EXCEPT ![current][track] = NoProvider]
        /\ UNCHANGED <<queue, warming>> /\ pc \in {"prepare", "reset"}
    BY <1>3 DEF ClaimPrepareFails, ReleaseDiscard, Released, Tenancy, IInv, TypeOK, Control
  <2>2. p = lease[current][track]
    BY <2>1 DEF Owned, Leased, Pooled, Tenancy, IInv, TypeOK
  <2>3. May("stop")
    BY <2>1, <2>2 DEF SafeStop, Tenancy, IInv, TypeOK
  <2> QED
    BY <2>1, <2>3 DEF LossExplained
<1>4. CASE Raise
  <2>1. /\ pc = "raise" /\ current \in WorkspaceIds /\ current \notin registered'
        /\ lease' = [lease EXCEPT ![current] = NoLeases] /\ UNCHANGED <<queue, warming>>
    BY <1>4 DEF Raise, Tenancy, IInv, Control
  <2>2. Leased(p) /\ ~Leased(p)'
    BY <2>1 DEF Owned, Pooled
  <2>3. \E t \in Tracks : p = lease[current][t]
    BY <2>1, <2>2 DEF Leased, Tenancy, IInv, TypeOK
  <2> QED
    BY <2>1, <2>3 DEF LossExplained
<1>5. CASE ReleaseAppend
  <2>0. PICK q, k : q = lease[current][track] /\ k = request[current].backend
    OBVIOUS
  <2>1. /\ current \in WorkspaceIds /\ track \in Tracks /\ k \in Backends
        /\ lease' = [lease EXCEPT ![current][track] = NoProvider]
        /\ queue' = [queue EXCEPT ![k] = @ \cup {q}]
        /\ warming' = warming
    BY <1>5, <2>0 DEF ReleaseAppend, Released, Tenancy, IInv, TypeOK, Control
  <2>2. Pooled(q)' /\ (Pooled(p) => Pooled(p)')
    BY <2>1 DEF Pooled, Tenancy, IInv, TypeOK
  <2>3. Leased(p) => Leased(p)' \/ p = q
    BY <2>0, <2>1 DEF Leased, Tenancy, IInv, TypeOK
  <2> QED
    BY <2>1, <2>2, <2>3 DEF Owned
<1>6. CASE DrainOne
  <2>1. UNCHANGED <<lease, warming>> /\ pc = "drain"
    BY <1>6 DEF DrainOne
  <2>2. PICK b \in Backends : \E q \in queue[b] :
          queue' = [queue EXCEPT ![b] = @ \ {q}] /\ SafeStop(q)
    BY <1>6 DEF DrainOne
  <2>3. PICK q \in queue[b] : queue' = [queue EXCEPT ![b] = @ \ {q}] /\ SafeStop(q)
    BY <2>2
  <2>4. p = q
    BY <2>1, <2>3 DEF Owned, Leased, Pooled, Tenancy, IInv, TypeOK
  <2>5. May("stop")
    BY <2>3, <2>4 DEF SafeStop, Tenancy, IInv, TypeOK
  <2> QED
    BY <2>1, <2>5 DEF LossExplained
<1>7. CASE RefillStart
  <2>1. UNCHANGED <<lease, queue>> /\ warming = NoProvider
    BY <1>7 DEF RefillStart, Tenancy, IInv, Control
  <2> QED
    BY <1>0, <2>1 DEF Owned, Leased, Pooled
<1>8. CASE RefillAppend
  <2>0. PICK q : q = warming
    OBVIOUS
  <2>1. /\ rbackend \in Backends /\ lease' = lease
        /\ queue' = [queue EXCEPT ![rbackend] = @ \cup {q}]
    BY <1>8, <2>0 DEF RefillAppend, Tenancy, IInv, Control
  <2>2. Pooled(q)' /\ (Pooled(p) => Pooled(p)')
    BY <2>1 DEF Pooled, Tenancy, IInv, TypeOK
  <2> QED
    BY <2>0, <2>1, <2>2 DEF Owned, Leased
<1> QED
  BY <1>1, <1>2, <1>3, <1>4, <1>5, <1>6, <1>7, <1>8, OtherSteps DEF HandsOver, Tenancy

\* A step that makes a container nobody's is one of the three.
LEMMA LossStep ==
  ASSUME Tenancy, [Next]_vars, NEW p \in Providers, Orphan(p)', ~Orphan(p)
  PROVE  LossExplained(p)
<1>1. container'[p] # NoContainer /\ ~Owned(p)'
  BY DEF Orphan
<1>2. CASE container[p] = NoContainer
  BY <1>1, <1>2, LostAtStart
<1>3. CASE container[p] # NoContainer
  <2>1. Owned(p)
    BY <1>3 DEF Orphan
  <2> QED
    BY <1>1, <2>1, LostByOwner
<1> QED
  BY <1>2, <1>3

\* The list of the ways in which a container is lost is complete, for every
\* set of calls that may fail and every interleaving of the two threads.
THEOREM ContainerLossesAreListed == Spec => LossesAreFailedCalls
<1>1. Tenancy /\ [Next]_vars =>
        [\A p \in Providers : Orphan(p)' /\ ~Orphan(p) =>
           \/ /\ May("ready")
              /\ container[p] = NoContainer
              /\ \/ pc = "claim" /\ pc' = "raise"
                 \/ rpc = "start" /\ rpc' \in {"check", "scan"}
           \/ May("stop") /\ pc \in {"prepare", "reset", "drain"}
           \/ /\ pc = "raise"
              /\ \E t \in Tracks : p = lease[current][t]
              /\ current \notin registered']_vars
  BY LossStep DEF LossExplained
<1> QED
  BY <1>1, TenancyInvariant, PTL DEF Spec, LossesAreFailedCalls

=============================================================================
