---------------------------- MODULE ContainerPool ----------------------------
(***************************************************************************)
(* The warm pool of database containers (mcp_server/pool.py), the          *)
(* workspaces that lease two containers each from it (workspace.py), the   *)
(* Docker network of each workspace (network.py) and the server's life     *)
(* from run_server to interpreter exit (server.py).                        *)
(*                                                                         *)
(* Two threads run.  The main thread serves tool calls one at a time:      *)
(* FastMCP runs a synchronous tool on the event loop thread, so calls are  *)
(* serialised.  The daemon refill thread tops the queues up.  They share   *)
(* the queues, under the pool's lock, and the flag _stopped.               *)
(*                                                                         *)
(* A deque of idle containers is a set here: which of several matching     *)
(* containers claim hands out is left open.  SingleOwner says that no      *)
(* append adds a container the pool already has.                           *)
(***************************************************************************)
EXTENDS Naturals, FiniteSets

CONSTANTS
  Providers,       \* ids for provider objects (bound on those alive at once)
  WorkspaceIds,    \* ids for workspaces and for their networks
  Backends,        \* the backends that run in a container
  SQLite,          \* the backend that does not
  Versions,        \* image tags a client may ask for
  DefaultVersion,  \* CONFIG.db_versions[backend]
  WarmTarget,      \* CONFIG.warm_pool_count[backend]
  MaxWorkspaces,   \* CONFIG.max_workspaces
  WarmPoolEnabled, \* CONFIG.warm_pool_enabled
  Faults,          \* the library calls that may fail, a subset of FaultKinds
  NoProvider, NoContainer, NoRequest, NoWorkspace

(* The calls into Docker and the databases that can raise:                 *)
(*   launch      the container does not start                              *)
(*   ready       it starts, but wait_for_connection times out              *)
(*   reset       dropping the user objects fails                           *)
(*   connect, disconnect, network   joining, leaving, removing a network   *)
(*   url         the mapped port of a claimed container cannot be read     *)
(*   stop        the container does not stop                               *)
FaultKinds == {"launch", "ready", "reset", "connect", "disconnect",
               "network", "url", "stop"}

Tracks == {"a", "b"}

ASSUME ConstantsAssumption ==
  /\ IsFiniteSet(Providers) /\ IsFiniteSet(WorkspaceIds)
  /\ SQLite \notin Backends
  /\ DefaultVersion \in Versions
  /\ WarmTarget \in [Backends -> Nat]
  /\ MaxWorkspaces \in Nat
  /\ WarmPoolEnabled \in BOOLEAN
  /\ Faults \subseteq FaultKinds
  /\ NoProvider \notin Providers
  /\ NoWorkspace \notin WorkspaceIds
  
\* clean: nothing of a test is left where reset() looks, which is the schema
\* public of PostgreSQL and the tables of the URL's database elsewhere.  What
\* a client makes in another schema no reset removes; it is not modelled.
Container == [backend : Backends, version : Versions, clean : BOOLEAN,
              nets : SUBSET WorkspaceIds]
Request   == [backend : Backends \cup {SQLite}, version : Versions]

ASSUME NullsAssumption ==
  /\ NoContainer \notin Container
  /\ NoRequest \notin Request

VARIABLES
  \* Docker
  container,  \* the running container of each provider object, or NoContainer
  networks,   \* the workspace networks that exist
  \* ContainerPool
  queue,      \* _queues: the idle providers of each backend
  stopped,    \* _stopped
  \* WorkspaceManager, and the locals of initialize and destroy
  registered, \* the keys of _workspaces
  request,    \* backend and version of a workspace under construction or in use
  lease,      \* the provider behind each track of a workspace
  \* the main thread
  pc,         \* where it is
  phase,      \* serving, in run_server's finally, in atexit, ending, or exited
  current,    \* the workspace being initialised or destroyed
  track,      \* the track whose provider is being claimed or released
  \* the refill thread
  rpc,        \* where it is
  todo,       \* backends this round of _top_up has not looked at
  rbackend,   \* the backend being topped up
  left,       \* iterations left of the loop over range(target - current)
  warming     \* the provider that is started and not yet appended

dockerVars == <<container, networks>>
poolVars   == <<queue, stopped>>
spaceVars  == <<registered, request, lease>>
mainVars   == <<pc, phase, current, track>>
refillVars == <<rpc, todo, rbackend, left, warming>>
vars       == <<container, networks, queue, stopped, registered, request,
                lease, pc, phase, current, track, rpc, todo, rbackend, left,
                warming>>

-----------------------------------------------------------------------------
(* Docker and the providers                                                *)

May(fault) == fault \in Faults

Unused == {p \in Providers : container[p] = NoContainer}

\* A container as docker.py:start leaves it when the database answers.
Fresh(b, v) == [backend |-> b, version |-> v, clean |-> TRUE, nets |-> {}]

Launch(p, b, v) == container' = [container EXCEPT ![p] = Fresh(b, v)]

\* A claimed container after reset() and network.connect().
Prepared(c, w) == [c EXCEPT !.clean = TRUE, !.nets = c.nets \cup {w}]

\* _safe_stop: an exception of stop() is logged, the provider is dropped.
SafeStop(p) ==
  \/ container' = [container EXCEPT ![p] = NoContainer]
  \/ May("stop") /\ UNCHANGED container

NoLeases == [t \in Tracks |-> NoProvider]

Leased(p) == \E w \in WorkspaceIds, t \in Tracks : lease[w][t] = p
Pooled(p) == \E b \in Backends : p \in queue[b]
Owned(p)  == Leased(p) \/ Pooled(p) \/ warming = p

\* Only stop() holds the lock over more than one step.
LockFree == pc # "drain"

-----------------------------------------------------------------------------
(* run_server has called POOL.start.                                       *)
Init ==
  /\ container = [p \in Providers |-> NoContainer]
  /\ networks = {}
  /\ queue = [b \in Backends |-> {}]
  /\ stopped = FALSE
  /\ registered = {}
  /\ request = [w \in WorkspaceIds |-> NoRequest]
  /\ lease = [w \in WorkspaceIds |-> NoLeases]
  /\ pc = "idle"
  /\ phase = "serving"
  /\ current = NoWorkspace
  /\ track = "a"
  /\ rpc = (IF WarmPoolEnabled THEN "check" ELSE "done")
  /\ todo = {}
  /\ rbackend = SQLite
  /\ left = 0
  /\ warming = NoProvider

-----------------------------------------------------------------------------
(* The main thread: initialize_workspace                                   *)

Serving == phase = "serving" /\ pc = "idle"

\* A tool call begins on a workspace id no other object uses.
CanInitialize(w) ==
  /\ Serving
  /\ Cardinality(registered) < MaxWorkspaces
  /\ request[w] = NoRequest
  /\ w \notin networks

InitializeSQLite(w, v) ==
  /\ CanInitialize(w)
  /\ registered' = registered \cup {w}
  /\ request' = [request EXCEPT ![w] = [backend |-> SQLite, version |-> v]]
  /\ UNCHANGED <<lease, mainVars, dockerVars, poolVars, refillVars>>

InitializeContainers(w, b, v) ==
  /\ CanInitialize(w)
  /\ networks' = networks \cup {w}
  /\ request' = [request EXCEPT ![w] = [backend |-> b, version |-> v]]
  /\ pc' = "claim"
  /\ current' = w
  /\ track' = "a"
  /\ UNCHANGED <<container, registered, lease, phase, poolVars, refillVars>>

\* Mutant of Matching: claim does not look at the version.
MatchingAnyVersion == queue[request[current].backend]

Matching ==
  {p \in queue[request[current].backend] :
     container[p].version = request[current].version}

\* Mutant of ClaimPooled: the provider stays in the queue.
ClaimPooledKept ==
  /\ pc = "claim"
  /\ \E p \in Matching : lease' = [lease EXCEPT ![current][track] = p]
  /\ pc' = "prepare"
  /\ UNCHANGED <<registered, request, phase, current, track,
                 dockerVars, poolVars, refillVars>>

ClaimPooled ==
  /\ pc = "claim"
  /\ \E p \in Matching :
       /\ queue' = [queue EXCEPT ![request[current].backend] = @ \ {p}]
       /\ lease' = [lease EXCEPT ![current][track] = p]
  /\ pc' = "prepare"
  /\ UNCHANGED <<stopped, registered, request, phase, current, track,
                 dockerVars, refillVars>>

ClaimColdStart ==
  /\ pc = "claim"
  /\ Matching = {}
  /\ \E p \in Unused :
       /\ Launch(p, request[current].backend, request[current].version)
       /\ lease' = [lease EXCEPT ![current][track] = p]
  /\ pc' = "prepare"
  /\ UNCHANGED <<networks, registered, request, phase, current, track,
                 poolVars, refillVars>>

\* start() raises; after a readiness timeout the container runs on.
ClaimColdStartFails ==
  /\ pc = "claim"
  /\ Matching = {}
  /\ \/ May("launch") /\ UNCHANGED container
     \/ /\ May("ready")
        /\ \E p \in Unused :
             Launch(p, request[current].backend, request[current].version)
  /\ pc' = "raise"
  /\ UNCHANGED <<networks, phase, current, track, spaceVars, poolVars, refillVars>>

\* Mutant of ClaimPrepare: initialize goes on after one claim.
ClaimPrepareOnce ==
  /\ pc = "prepare"
  /\ container' = [container EXCEPT ![lease[current][track]] = Prepared(@, current)]
  /\ pc' = "register"
  /\ UNCHANGED <<networks, phase, current, track, spaceVars, poolVars, refillVars>>

\* reset() and network.connect() both succeed.
ClaimPrepare ==
  /\ pc = "prepare"
  /\ container' = [container EXCEPT ![lease[current][track]] = Prepared(@, current)]
  /\ IF track = "a" THEN pc' = "claim" /\ track' = "b"
                    ELSE pc' = "register" /\ track' = "a"
  /\ UNCHANGED <<networks, phase, current, spaceVars, poolVars, refillVars>>

ClaimPrepareFails ==
  /\ pc = "prepare"
  /\ (May("reset") \/ May("connect"))
  /\ SafeStop(lease[current][track])
  /\ lease' = [lease EXCEPT ![current][track] = NoProvider]
  /\ pc' = "raise"
  /\ UNCHANGED <<networks, registered, request, phase, current, track,
                 poolVars, refillVars>>

Register ==
  /\ pc = "register"
  /\ registered' = registered \cup {current}
  /\ pc' = "idle"
  /\ current' = NoWorkspace
  /\ UNCHANGED <<request, lease, phase, track, dockerVars, poolVars, refillVars>>

RegisterFails ==
  /\ pc = "register"
  /\ May("url")
  /\ pc' = "raise"
  /\ UNCHANGED <<phase, current, track, dockerVars, spaceVars, poolVars, refillVars>>

\* initialize catches nothing: an exception of claim or url ends the call,
\* and its locals are gone with the provider and the network they held.
Raise ==
  /\ pc = "raise"
  /\ pc' = "idle"
  /\ current' = NoWorkspace
  /\ track' = "a"
  /\ request' = [request EXCEPT ![current] = NoRequest]
  /\ lease' = [lease EXCEPT ![current] = NoLeases]
  /\ UNCHANGED <<registered, phase, dockerVars, poolVars, refillVars>>

-----------------------------------------------------------------------------
(* The main thread: the tools that write to a workspace's databases        *)

Use(w, t) ==
  /\ Serving
  /\ w \in registered
  /\ request[w].backend # SQLite
  /\ container' = [container EXCEPT ![lease[w][t]].clean = FALSE]
  /\ UNCHANGED <<networks, mainVars, spaceVars, poolVars, refillVars>>

-----------------------------------------------------------------------------
(* The main thread: destroy, called by destroy_workspace and by _cleanup   *)

Destroy(w) ==
  /\ pc = "idle"
  /\ w \in registered
  /\ registered' = registered \ {w}
  /\ IF request[w].backend = SQLite
     THEN /\ request' = [request EXCEPT ![w] = NoRequest]
          /\ UNCHANGED <<pc, current>>
     ELSE /\ pc' = "disconnect"
          /\ current' = w
          /\ UNCHANGED request
  /\ UNCHANGED <<lease, phase, track, dockerVars, poolVars, refillVars>>

Disconnect ==
  /\ pc = "disconnect"
  /\ \/ container' = [container EXCEPT ![lease[current][track]].nets = @ \ {current}]
     \/ May("disconnect") /\ UNCHANGED container
  /\ pc' = "reset"
  /\ UNCHANGED <<networks, phase, current, track, spaceVars, poolVars, refillVars>>

\* release is done with this track's provider.
Released ==
  /\ lease' = [lease EXCEPT ![current][track] = NoProvider]
  /\ IF track = "a" THEN pc' = "disconnect" /\ track' = "b"
                    ELSE pc' = "unlink" /\ track' = "a"
  /\ UNCHANGED <<registered, request, phase, current>>

\* Mutant of ReleaseReset: the objects of the last tenant stay.
ReleaseResetNothing ==
  /\ pc = "reset"
  /\ ~stopped
  /\ pc' = "append"
  /\ UNCHANGED <<phase, current, track, dockerVars, spaceVars, poolVars, refillVars>>

ReleaseReset ==
  /\ pc = "reset"
  /\ ~stopped
  /\ container' = [container EXCEPT ![lease[current][track]].clean = TRUE]
  /\ pc' = "append"
  /\ UNCHANGED <<networks, phase, current, track, spaceVars, poolVars, refillVars>>

\* Mutant of ReleaseDiscard: no return after _safe_stop.
ReleaseDiscardFallsThrough ==
  /\ pc = "reset"
  /\ (stopped \/ May("reset"))
  /\ SafeStop(lease[current][track])
  /\ pc' = "append"
  /\ UNCHANGED <<networks, phase, current, track, spaceVars, poolVars, refillVars>>

ReleaseDiscard ==
  /\ pc = "reset"
  /\ (stopped \/ May("reset"))
  /\ SafeStop(lease[current][track])
  /\ Released
  /\ UNCHANGED <<networks, poolVars, refillVars>>

\* Mutant of ReleaseAppend: the provider is dropped.
ReleaseAppendNothing ==
  /\ pc = "append"
  /\ Released
  /\ UNCHANGED <<dockerVars, poolVars, refillVars>>

ReleaseAppend ==
  /\ pc = "append"
  /\ queue' = [queue EXCEPT ![request[current].backend] =
                 @ \cup {lease[current][track]}]
  /\ Released
  /\ UNCHANGED <<stopped, dockerVars, refillVars>>

\* The providers whose container is on the network of w.
Members(w) == {p \in Providers : container[p] # NoContainer /\ w \in container[p].nets}

\* Docker refuses to remove a network that still has an endpoint.
Removable(w) == Members(w) = {}

\* Mutant of RemoveNetwork: destroy leaves the network.
RemoveNetworkNever ==
  /\ pc = "unlink"
  /\ request' = [request EXCEPT ![current] = NoRequest]
  /\ pc' = "idle"
  /\ current' = NoWorkspace
  /\ UNCHANGED <<registered, lease, phase, track, dockerVars, poolVars, refillVars>>

RemoveNetwork ==
  /\ pc = "unlink"
  /\ \/ Removable(current) /\ networks' = networks \ {current}
     \/ /\ ~Removable(current) \/ May("network")
        /\ UNCHANGED networks
  /\ request' = [request EXCEPT ![current] = NoRequest]
  /\ pc' = "idle"
  /\ current' = NoWorkspace
  /\ UNCHANGED <<container, registered, lease, phase, track, poolVars, refillVars>>

-----------------------------------------------------------------------------
(* The main thread: shutdown.  mcp.run() returns between two tool calls;   *)
(* _cleanup runs in run_server's finally and again from atexit.            *)

Shutdown ==
  /\ Serving
  /\ phase' = "finally"
  /\ UNCHANGED <<pc, current, track, dockerVars, spaceVars, poolVars, refillVars>>

CleaningUp == phase \in {"finally", "atexit"}

\* Mutant of StopPool: the pool is stopped before the workspaces are destroyed.
StopPoolFirst ==
  /\ CleaningUp
  /\ pc = "idle"
  /\ stopped' = TRUE
  /\ pc' = "drain"
  /\ UNCHANGED <<queue, phase, current, track, dockerVars, spaceVars, refillVars>>

StopPool ==
  /\ CleaningUp
  /\ pc = "idle"
  /\ registered = {}
  /\ stopped' = TRUE
  /\ pc' = "drain"
  /\ UNCHANGED <<queue, phase, current, track, dockerVars, spaceVars, refillVars>>

\* Mutant of DrainOne: the loop does not take the provider off the queue.
DrainOneKept ==
  /\ pc = "drain"
  /\ \E b \in Backends : \E p \in queue[b] : SafeStop(p)
  /\ UNCHANGED <<networks, mainVars, spaceVars, poolVars, refillVars>>

DrainOne ==
  /\ pc = "drain"
  /\ \E b \in Backends : \E p \in queue[b] :
       /\ queue' = [queue EXCEPT ![b] = @ \ {p}]
       /\ SafeStop(p)
  /\ UNCHANGED <<networks, stopped, mainVars, spaceVars, refillVars>>

DrainDone ==
  /\ pc = "drain"
  /\ \A b \in Backends : queue[b] = {}
  /\ pc' = "idle"
  /\ phase' = (IF phase = "finally" THEN "atexit" ELSE "ending")
  /\ UNCHANGED <<current, track, dockerVars, spaceVars, poolVars, refillVars>>

\* The interpreter is finalised, which stops daemon threads where they are.
Exit ==
  /\ phase = "ending"
  /\ phase' = "exited"
  /\ UNCHANGED <<pc, current, track, dockerVars, spaceVars, poolVars, refillVars>>

-----------------------------------------------------------------------------
(* The refill thread                                                       *)

\* The next backend of _top_up, or the end of the round and the sleep.
NextBackend(rest) == IF rest = {} THEN "check" ELSE "scan"

RefillWake ==
  /\ rpc = "check"
  /\ phase # "exited"
  /\ IF stopped THEN rpc' = "done" /\ UNCHANGED todo
                ELSE rpc' = NextBackend(Backends) /\ todo' = Backends
  /\ UNCHANGED <<rbackend, left, warming, dockerVars, poolVars, spaceVars, mainVars>>

\* Mutant of RefillScan: the queue is topped up to one less than the target.
RefillScanShort(b) ==
  /\ rpc = "scan"
  /\ phase # "exited"
  /\ LockFree
  /\ b \in todo
  /\ todo' = todo \ {b}
  /\ IF Cardinality(queue[b]) + 1 < WarmTarget[b]
     THEN /\ rpc' = "start"
          /\ rbackend' = b
          /\ left' = WarmTarget[b] - Cardinality(queue[b]) - 1
     ELSE /\ rpc' = NextBackend(todo')
          /\ UNCHANGED <<rbackend, left>>
  /\ UNCHANGED <<warming, dockerVars, poolVars, spaceVars, mainVars>>

\* Mutant of RefillScan: it starts the whole target, whatever idles already.
RefillScanWhole(b) ==
  /\ rpc = "scan"
  /\ phase # "exited"
  /\ LockFree
  /\ b \in todo
  /\ todo' = todo \ {b}
  /\ IF Cardinality(queue[b]) < WarmTarget[b]
     THEN /\ rpc' = "start"
          /\ rbackend' = b
          /\ left' = WarmTarget[b]
     ELSE /\ rpc' = NextBackend(todo')
          /\ UNCHANGED <<rbackend, left>>
  /\ UNCHANGED <<warming, dockerVars, poolVars, spaceVars, mainVars>>

RefillScan(b) ==
  /\ rpc = "scan"
  /\ phase # "exited"
  /\ LockFree
  /\ b \in todo
  /\ todo' = todo \ {b}
  /\ IF Cardinality(queue[b]) < WarmTarget[b]
     THEN /\ rpc' = "start"
          /\ rbackend' = b
          /\ left' = WarmTarget[b] - Cardinality(queue[b])
     ELSE /\ rpc' = NextBackend(todo')
          /\ UNCHANGED <<rbackend, left>>
  /\ UNCHANGED <<warming, dockerVars, poolVars, spaceVars, mainVars>>

RefillStart ==
  /\ rpc = "start"
  /\ phase # "exited"
  /\ \E p \in Unused :
       /\ Launch(p, rbackend, DefaultVersion)
       /\ warming' = p
  /\ rpc' = "append"
  /\ UNCHANGED <<networks, todo, rbackend, left, poolVars, spaceVars, mainVars>>

\* The exception is logged and the loop over this backend is left.
RefillStartFails ==
  /\ rpc = "start"
  /\ phase # "exited"
  /\ \/ May("launch") /\ UNCHANGED container
     \/ May("ready") /\ \E p \in Unused : Launch(p, rbackend, DefaultVersion)
  /\ rpc' = NextBackend(todo)
  /\ left' = 0
  /\ rbackend' = SQLite
  /\ UNCHANGED <<networks, todo, warming, poolVars, spaceVars, mainVars>>

\* Mutant of RefillAppend: the loop runs once too often.
RefillAppendOnceMore ==
  /\ rpc = "append"
  /\ phase # "exited"
  /\ LockFree
  /\ queue' = [queue EXCEPT ![rbackend] = @ \cup {warming}]
  /\ warming' = NoProvider
  /\ left' = left - 1
  /\ IF left = 0 THEN rpc' = NextBackend(todo) /\ rbackend' = SQLite
                 ELSE rpc' = "start" /\ UNCHANGED rbackend
  /\ UNCHANGED <<todo, stopped, dockerVars, spaceVars, mainVars>>

RefillAppend ==
  /\ rpc = "append"
  /\ phase # "exited"
  /\ LockFree
  /\ queue' = [queue EXCEPT ![rbackend] = @ \cup {warming}]
  /\ warming' = NoProvider
  /\ left' = left - 1
  /\ IF left = 1 THEN rpc' = NextBackend(todo) /\ rbackend' = SQLite
                 ELSE rpc' = "start" /\ UNCHANGED rbackend
  /\ UNCHANGED <<todo, stopped, dockerVars, spaceVars, mainVars>>

-----------------------------------------------------------------------------
\* The interpreter is gone; the daemon thread dies with it.
Exited == phase = "exited" /\ UNCHANGED vars

Claim == \/ ClaimPooled \/ ClaimColdStart \/ ClaimColdStartFails
         \/ ClaimPrepare \/ ClaimPrepareFails
Release == \/ Disconnect \/ ReleaseReset \/ ReleaseDiscard \/ ReleaseAppend
           \/ RemoveNetwork
Drain == StopPool \/ DrainOne \/ DrainDone

Call ==
  \/ \E w \in WorkspaceIds, v \in Versions :
       \/ InitializeSQLite(w, v)
       \/ \E b \in Backends : InitializeContainers(w, b, v)
  \/ \E w \in WorkspaceIds, t \in Tracks : Use(w, t)
  \/ \E w \in WorkspaceIds : phase = "serving" /\ Destroy(w)
  \/ Shutdown

\* What the main thread does without waiting for a client.
Proceed ==
  \/ Claim \/ Register \/ RegisterFails \/ Raise \/ Release \/ Drain \/ Exit
  \/ \E w \in WorkspaceIds : CleaningUp /\ Destroy(w)

Refill == \/ RefillWake \/ RefillStart \/ RefillStartFails \/ RefillAppend
          \/ \E b \in Backends : RefillScan(b)

Next == Call \/ Proceed \/ Refill \/ Exited

Spec == Init /\ [][Next]_vars

\* Both threads run on: every library call returns (each has a timeout), and
\* the lock is held only by a thread that is running.
FairSpec == Spec /\ WF_vars(Proceed) /\ WF_vars(Refill)

-----------------------------------------------------------------------------
(* What the pool and the workspaces promise                                *)

\* Type correctness, with what each program counter says of the variables
\* that stand for local variables.
TypeOK ==
  /\ container \in [Providers -> Container \cup {NoContainer}]
  /\ networks \subseteq WorkspaceIds
  /\ queue \in [Backends -> SUBSET Providers]
  /\ stopped \in BOOLEAN
  /\ registered \subseteq WorkspaceIds
  /\ request \in [WorkspaceIds -> Request \cup {NoRequest}]
  /\ lease \in [WorkspaceIds -> [Tracks -> Providers \cup {NoProvider}]]
  /\ pc \in {"idle", "claim", "prepare", "register", "raise", "disconnect", "reset",
             "append", "unlink", "drain"}
  /\ phase \in {"serving", "finally", "atexit", "ending", "exited"}
  /\ current \in WorkspaceIds \cup {NoWorkspace}
  /\ track \in Tracks
  /\ rpc \in {"check", "scan", "start", "append", "done"}
  /\ todo \subseteq Backends
  /\ rbackend \in Backends \cup {SQLite}
  /\ left \in Nat
  /\ warming \in Providers \cup {NoProvider}

\* No container is in two hands: it idles in one queue, or serves one track
\* of one workspace, or is the one the refill thread is starting.  Two owners
\* would let two tests write to one database, or hand out a container that
\* is being discarded (pool.py:claim, release, _top_up race for the queues).
SingleOwner ==
  /\ \A b1, b2 \in Backends : \A p \in queue[b1] \cap queue[b2] : b1 = b2
  /\ \A w1, w2 \in WorkspaceIds, t1, t2 \in Tracks :
       lease[w1][t1] = lease[w2][t2] /\ lease[w1][t1] # NoProvider
         => w1 = w2 /\ t1 = t2
  /\ \A p \in Providers : Pooled(p) => ~Leased(p)
  /\ warming # NoProvider => ~Pooled(warming) /\ ~Leased(warming)

\* Whoever holds a provider holds a running container: no stopped provider
\* is appended to a queue, claimed or kept by a workspace.
OwnedAreRunning ==
  \A p \in Providers : Owned(p) => container[p] # NoContainer

\* An idle container is under its backend's key, was reset after its last
\* tenant and is on the network of no workspace a client can use, although
\* disconnect swallows its errors (pool.py:release, network.py).
PooledAreReady ==
  \A b \in Backends : \A p \in queue[b] :
    /\ container[p].backend = b
    /\ container[p].clean
    /\ container[p].nets \cap registered = {}

\* A registered workspace has two containers of the backend and version it
\* asked for, and they and no others are on its network ("isolated per-test
\* workspaces"), whatever disconnect left behind on older networks.
WorkspacesAreIsolated ==
  \A w \in registered : request[w].backend # SQLite =>
    /\ w \in networks
    /\ Members(w) = {lease[w][t] : t \in Tracks}
    /\ \A t \in Tracks :
         /\ container[lease[w][t]].backend = request[w].backend
         /\ container[lease[w][t]].version = request[w].version

\* The queues are never trimmed: release appends whatever the queue's
\* length, _top_up works with a length it read earlier and does not look at
\* versions.  Even so the containers in use and idle are bounded, by two for
\* each workspace and version plus the warm target for the default version.
\* Lost containers are not among them: nothing bounds those.
PopulationBound ==
  \A b \in Backends, v \in Versions :
    Cardinality({p \in Providers : /\ Owned(p)
                                   /\ container[p].backend = b
                                   /\ container[p].version = v})
      <= 2 * MaxWorkspaces + (IF v = DefaultVersion THEN WarmTarget[b] ELSE 0)

\* A running container nobody refers to any more: only Docker knows it.
Orphan(p) == container[p] # NoContainer /\ ~Owned(p)

\* While no library call fails, the server loses no container and no network.
NothingIsLost ==
  /\ \A p \in Providers : ~Orphan(p)
  /\ \A w \in networks : request[w] # NoRequest

\* The complete list of the ways a container is lost: its start timed out
\* waiting for the database; or stop() failed; or initialize raised while it
\* held the container for a track.
LossesAreFailedCalls ==
  [][\A p \in Providers : Orphan(p)' /\ ~Orphan(p) =>
       \/ /\ May("ready")
          /\ container[p] = NoContainer
          /\ \/ pc = "claim" /\ pc' = "raise"
             \/ rpc = "start" /\ rpc' \in {"check", "scan"}
       \/ May("stop") /\ pc \in {"prepare", "reset", "drain"}
       \/ /\ pc = "raise"
          /\ \E t \in Tracks : p = lease[current][t]
          /\ current \notin registered']_vars

\* docs/mcp-server.md says that run_server "starts the warm pool and shuts it
\* down on exit".  The code breaks it: stop() neither joins the refill thread
\* nor makes it look at _stopped before it appends.
PoolIsShutDown ==
  phase = "exited" => \A b \in Backends : queue[b] = {}

\* At exit every workspace is gone with its network, and what still runs is
\* the refill thread's last round: unused containers of the default version
\* on no network, no more than the warm target.
ExitLeavesOnlyWarm ==
  phase = "exited" =>
    /\ registered = {} /\ networks = {}
    /\ \A p \in Providers : container[p] # NoContainer =>
         /\ ~Leased(p)
         /\ container[p] = Fresh(container[p].backend, DefaultVersion)
    /\ \A b \in Backends :
         Cardinality({p \in Providers : /\ container[p] # NoContainer
                                        /\ container[p].backend = b})
           <= WarmTarget[b]

\* The refill thread brings every queue back to its target, again and again,
\* until the server stops, however claims and releases interleave with it.
Replenished ==
  \A b \in Backends : []<>(Cardinality(queue[b]) >= WarmTarget[b] \/ stopped)

\* Shutdown ends: both passes of _cleanup, and the drain under the lock that
\* the refill thread also wants, come to an end.
ShutdownEnds == (phase = "finally") ~> (phase = "exited")
=============================================================================
