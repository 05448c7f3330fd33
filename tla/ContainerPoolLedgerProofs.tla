----------------------- MODULE ContainerPoolLedgerProofs -----------------------
(***************************************************************************)
(* The pool and the workspaces implement the ledger, for every value of    *)
(* the constants: each step of the two threads moves at most one container *)
(* in the ledger, or forgets those of one workspace, or cleans one, or     *)
(* opens or closes one workspace, or is invisible there.                   *)
(***************************************************************************)
EXTENDS ContainerPoolRefinement, ContainerPoolTenancyProofs

USE ConstantsAssumption DEF Tracks, dockerVars, poolVars, spaceVars, mainVars, refillVars

\* The ledger's variables.
Holder == [p \in Providers |-> LedgerHolder(p)]
Dirty  == {p \in Providers : container[p] # NoContainer /\ ~container[p].clean}
Opened == {w \in registered : request[w].backend # SQLite}

-----------------------------------------------------------------------------
(* Who answers for a container                                             *)

\* The ledger's answer in each of the five cases.
Answers ==
  \A p \in Providers :
    /\ container[p] = NoContainer => LedgerHolder(p) = <<"absent">>
    /\ Pooled(p) => LedgerHolder(p) = <<"pool">>
    /\ warming = p => LedgerHolder(p) = <<"warming">>
    /\ Orphan(p) => LedgerHolder(p) = <<"lost">>
    /\ \A w \in WorkspaceIds, t \in Tracks : lease[w][t] = p => LedgerHolder(p) = <<w, t>>

LEMMA AnswersAre == Tenancy => Answers
<1> SUFFICES ASSUME Tenancy, NEW p \in Providers
             PROVE  /\ container[p] = NoContainer => LedgerHolder(p) = <<"absent">>
                    /\ Pooled(p) => LedgerHolder(p) = <<"pool">>
                    /\ warming = p => LedgerHolder(p) = <<"warming">>
                    /\ Orphan(p) => LedgerHolder(p) = <<"lost">>
                    /\ \A w \in WorkspaceIds, t \in Tracks :
                         lease[w][t] = p => LedgerHolder(p) = <<w, t>>
  BY DEF Answers
<1>1. CASE container[p] = NoContainer
  <2>1. ~Owned(p)
    BY <1>1 DEF Tenancy, IInv, OwnedAreRunning
  <2> QED
    BY <1>1, <2>1 DEF LedgerHolder, Owned, Orphan, Leased
<1>2. CASE container[p] # NoContainer /\ Leased(p)
  <2>1. ~Pooled(p) /\ warming # p
    BY <1>2, ConstantsAssumption DEF Tenancy, IInv, SingleOwner
  <2>2. PICK w \in WorkspaceIds, t \in Tracks : lease[w][t] = p
    BY <1>2 DEF Leased
  <2>3. \A slot \in WorkspaceIds \X Tracks : lease[slot[1]][slot[2]] = p => slot = <<w, t>>
    BY <2>2, ConstantsAssumption DEF Tenancy, IInv, SingleOwner
  <2>4. LedgerHolder(p) = CHOOSE slot \in WorkspaceIds \X Tracks : lease[slot[1]][slot[2]] = p
    BY <1>2 DEF LedgerHolder
  <2>5. LedgerHolder(p) = <<w, t>>
    BY <2>2, <2>3, <2>4
  <2>6. \A x \in WorkspaceIds, u \in Tracks : lease[x][u] = p => x = w /\ u = t
    BY <2>2, ConstantsAssumption DEF Tenancy, IInv, SingleOwner
  <2> QED
    BY <1>2, <2>1, <2>5, <2>6 DEF Owned, Orphan
<1>3. CASE container[p] # NoContainer /\ ~Leased(p)
  <2>1. LedgerHolder(p) = IF Pooled(p) THEN <<"pool">>
                          ELSE IF warming = p THEN <<"warming">> ELSE <<"lost">>
    BY <1>3 DEF LedgerHolder
  <2>2. ~(Pooled(p) /\ warming = p)
    BY ConstantsAssumption DEF Tenancy, IInv, SingleOwner
  <2> QED
    BY <1>3, <2>1, <2>2 DEF Owned, Orphan, Leased
<1> QED
  BY <1>1, <1>2, <1>3

LEMMA AnswersAreNext == Tenancy' => Answers'
  BY AnswersAre, PTL

\* What a provider is to its owner stays as it is.
SameHands(q) ==
  /\ container'[q] = NoContainer <=> container[q] = NoContainer
  /\ \A w \in WorkspaceIds, t \in Tracks : lease'[w][t] = q <=> lease[w][t] = q
  /\ Pooled(q)' <=> Pooled(q)
  /\ warming' = q <=> warming = q

LEMMA HolderStays ==
  ASSUME Tenancy, Tenancy', NEW q \in Providers, SameHands(q)
  PROVE  LedgerHolder(q)' = LedgerHolder(q)
<1>1. Answers /\ Answers'
  BY AnswersAre, AnswersAreNext
<1>2. CASE container[q] = NoContainer
  BY <1>1, <1>2 DEF SameHands, Answers
<1>3. CASE Leased(q)
  BY <1>1, <1>3 DEF SameHands, Answers, Leased
<1>4. CASE Pooled(q)
  BY <1>1, <1>4 DEF SameHands, Answers
<1>5. CASE warming = q
  BY <1>1, <1>5 DEF SameHands, Answers
<1>6. CASE Orphan(q)
  <2>1. Orphan(q)'
    BY <1>6 DEF SameHands, Orphan, Owned, Leased
  <2> QED
    BY <1>1, <1>6, <2>1 DEF Answers
<1> QED
  BY <1>2, <1>3, <1>4, <1>5, <1>6 DEF Orphan, Owned

\* No name of a place in the ledger is a track of a workspace.
LEMMA PlacesAreNoTracks ==
  ASSUME NEW S, NEW T
  PROVE  /\ <<"absent">> \notin S \X T /\ <<"pool">> \notin S \X T
         /\ <<"warming">> \notin S \X T /\ <<"lost">> \notin S \X T
  OBVIOUS

\* One container changes hands, or none.
LEMMA OneMoves ==
  ASSUME Tenancy, Tenancy', NEW p \in Providers, NEW to, LedgerHolder(p)' = to,
         \A q \in Providers \ {p} : SameHands(q)
  PROVE  Ledger!Move(p, to)
<1>1. \A q \in Providers \ {p} : LedgerHolder(q)' = LedgerHolder(q)
  BY HolderStays
<1> QED
  BY <1>1 DEF Ledger!Move

LEMMA NoneMoves ==
  ASSUME Tenancy, Tenancy', \A q \in Providers : SameHands(q)
  PROVE  Holder' = Holder
BY HolderStays DEF Holder

LEMMA DirtyStays ==
  ASSUME \A p \in Providers :
           /\ container'[p] = NoContainer <=> container[p] = NoContainer
           /\ container[p] # NoContainer => container'[p].clean = container[p].clean
  PROVE  Dirty' = Dirty
BY DEF Dirty

-----------------------------------------------------------------------------
(* Steps of the ledger in terms of the code's state                        *)

\* The ledger's operators on Holder, Dirty and Opened.
LEMMA LedgerVars == Ledger!vars = <<Holder, Dirty, Opened>>
  BY DEF Ledger!vars, Holder, Dirty, Opened

\* A container of a workspace that is being built or torn down.
LEMMA HeldInClosed ==
  ASSUME Tenancy, NEW w \in WorkspaceIds, NEW t \in Tracks, lease[w][t] \in Providers,
         w \notin registered
  PROVE  Ledger!InClosed(lease[w][t])
<1>1. LedgerHolder(lease[w][t]) = <<w, t>>
  BY AnswersAre DEF Answers
<1> QED
  BY <1>1 DEF Ledger!InClosed

\* A step that the ledger does not see.
LEMMA Unseen ==
  ASSUME Tenancy, Tenancy', \A q \in Providers : SameHands(q), Dirty' = Dirty, Opened' = Opened
  PROVE  UNCHANGED Ledger!vars
  BY NoneMoves, LedgerVars DEF Ledger!vars, Holder, Dirty, Opened

\* Nothing starts, stops or changes hands, and no registered workspace changes.
LEMMA UnseenSteps ==
  ASSUME Tenancy, Tenancy', UNCHANGED <<container, lease, queue, warming>>, Opened' = Opened
  PROVE  UNCHANGED Ledger!vars
<1>1. \A q \in Providers : SameHands(q)
  BY DEF SameHands, Pooled
<1>2. Dirty' = Dirty
  BY DEF Dirty
<1> QED
  BY <1>1, <1>2, Unseen


\* A provider that is behind a track for the ledger is behind it in the code.
LEMMA HolderTrack ==
  ASSUME Tenancy, NEW q \in Providers, NEW w, NEW t, LedgerHolder(q) = <<w, t>>
  PROVE  w \in WorkspaceIds /\ t \in Tracks /\ lease[w][t] = q
<1>1. Answers
  BY AnswersAre
<1>2. CASE Leased(q)
  <2>1. PICK x \in WorkspaceIds, u \in Tracks : lease[x][u] = q
    BY <1>2 DEF Leased
  <2>2. LedgerHolder(q) = <<x, u>>
    BY <1>1, <2>1 DEF Answers
  <2> QED
    BY <2>1, <2>2
<1>3. CASE ~Leased(q)
  <2>1. LedgerHolder(q) \in {<<"absent">>, <<"pool">>, <<"warming">>, <<"lost">>}
    BY <1>1, <1>3 DEF Answers, Orphan, Owned
  <2> QED
    BY <2>1
<1> QED
  BY <1>2, <1>3

LEMMA FreeTrack ==
  ASSUME Tenancy, NEW w \in WorkspaceIds, NEW t \in Tracks, lease[w][t] = NoProvider
  PROVE  Ledger!Free(<<w, t>>)
<1>1. \A q \in Providers : LedgerHolder(q) # <<w, t>>
  BY HolderTrack, ConstantsAssumption
<1> QED
  BY <1>1 DEF Ledger!Free

-----------------------------------------------------------------------------
(* The steps of the client's calls                                         *)

LEMMA InitializeUnseen ==
  ASSUME Tenancy, Tenancy', NEW w \in WorkspaceIds, NEW v \in Versions,
         InitializeSQLite(w, v) \/ \E b \in Backends : InitializeContainers(w, b, v)
  PROVE  UNCHANGED Ledger!vars
<1>1. /\ UNCHANGED <<container, lease, queue, warming>> /\ request[w] = NoRequest
      /\ \/ /\ registered' = registered \cup {w}
            /\ request' = [request EXCEPT ![w] = [backend |-> SQLite, version |-> v]]
         \/ registered' = registered /\ \E r : request' = [request EXCEPT ![w] = r]
  BY DEF InitializeSQLite, InitializeContainers, CanInitialize
<1>2. w \notin registered
  BY <1>1, NullsAssumption DEF Tenancy, IInv, Control
<1>3. Opened' = Opened
  BY <1>1, <1>2 DEF Opened, Tenancy, IInv, TypeOK
<1> QED
  BY <1>1, <1>3, UnseenSteps

LEMMA UseIsUse ==
  ASSUME Tenancy, Tenancy', NEW w \in WorkspaceIds, NEW t \in Tracks, Use(w, t)
  PROVE  \E p \in Providers : Ledger!Use(p)
<1>0. PICK p : p = lease[w][t]
  OBVIOUS
<1>1. /\ w \in registered /\ request[w].backend # SQLite
      /\ container' = [container EXCEPT ![p].clean = FALSE]
      /\ UNCHANGED <<queue, registered, request, lease, warming>>
  BY <1>0 DEF Use
<1>2. p \in Providers /\ container[p] \in Container
  BY <1>0, <1>1, TrackContainer DEF Use, Serving, Tenancy, IInv, Control
<1>3. /\ container'[p] # NoContainer /\ container[p] # NoContainer /\ ~container'[p].clean
      /\ OnlyChanges(p)
  <2>1. container'[p] = [container[p] EXCEPT !.clean = FALSE] /\ OnlyChanges(p)
    BY <1>1, <1>2 DEF OnlyChanges, Tenancy, IInv, TypeOK
  <2>2. [container[p] EXCEPT !.clean = FALSE] \in Container
    BY <1>0, <1>2, ChangedContainer
  <2> QED
    BY <1>2, <2>1, <2>2, NullsAssumption DEF Container
<1>4. \A q \in Providers : SameHands(q)
  BY <1>1, <1>3 DEF SameHands, OnlyChanges, Pooled
<1>5. Holder' = Holder
  BY <1>4, NoneMoves
<1>6. Dirty' = Dirty \cup {p}
  BY <1>2, <1>3 DEF Dirty, OnlyChanges
<1>7. LedgerHolder(p) = <<w, t>>
  BY <1>0, <1>2, AnswersAre DEF Answers
<1>8. Ledger!Use(p)
  BY <1>1, <1>2, <1>5, <1>6, <1>7 DEF Ledger!Use, Holder, Dirty
<1> QED
  BY <1>2, <1>8

LEMMA DestroyCloses ==
  ASSUME Tenancy, Tenancy', NEW w \in WorkspaceIds, Destroy(w)
  PROVE  Ledger!Close(w) \/ UNCHANGED Ledger!vars
<1>1. /\ w \in registered /\ registered' = registered \ {w}
      /\ UNCHANGED <<container, lease, queue, warming>>
  BY DEF Destroy
<1>2. CASE request[w].backend = SQLite
  <2>1. request' = [request EXCEPT ![w] = NoRequest]
    BY <1>2 DEF Destroy
  <2>2. Opened' = Opened
    BY <1>1, <1>2, <2>1 DEF Opened, Tenancy, IInv, TypeOK
  <2> QED
    BY <1>1, <2>2, UnseenSteps
<1>3. CASE request[w].backend # SQLite
  <2>1. request' = request
    BY <1>3 DEF Destroy
  <2>2. Opened' = Opened \ {w} /\ w \in Opened
    BY <1>1, <1>3, <2>1 DEF Opened
  <2>3. \A q \in Providers : SameHands(q)
    BY <1>1 DEF SameHands, Pooled
  <2>4. Holder' = Holder /\ Dirty' = Dirty
    BY <1>1, <2>3, NoneMoves DEF Dirty
  <2> QED
    BY <2>2, <2>4 DEF Ledger!Close, Holder, Dirty, Opened
<1> QED
  BY <1>2, <1>3

-----------------------------------------------------------------------------
(* The steps of initialize                                                 *)

\* What a step that leaves registered and request alone does to the open ones.
LEMMA OpenedStays == ASSUME UNCHANGED <<registered, request>> PROVE Opened' = Opened
  BY DEF Opened

LEMMA ClaimPooledLends ==
  ASSUME Tenancy, Tenancy', ClaimPooled
  PROVE  \E p \in Providers : Ledger!Lend(p, current, track)
<1>0. PICK k : k = request[current].backend
  OBVIOUS
<1>1. /\ current \in WorkspaceIds /\ current \notin registered
      /\ track \in Tracks /\ k \in Backends /\ lease[current][track] = NoProvider
      /\ UNCHANGED <<container, registered, request, warming>>
  BY <1>0 DEF ClaimPooled, Tenancy, Slots, IInv, TypeOK, Control
<1>2. PICK p \in queue[k] :
        /\ queue' = [queue EXCEPT ![k] = @ \ {p}]
        /\ lease' = [lease EXCEPT ![current][track] = p]
  BY <1>0 DEF ClaimPooled, Matching
<1>3. p \in Providers /\ Pooled(p)
  BY <1>1, <1>2 DEF Pooled, Tenancy, IInv, TypeOK
<1>4. LedgerHolder(p) = <<"pool">>
  BY <1>3, AnswersAre DEF Answers
<1>5. LedgerHolder(p)' = <<current, track>>
  <2>1. lease'[current][track] = p
    BY <1>1, <1>2 DEF Tenancy, IInv, TypeOK
  <2> QED
    BY <1>1, <1>3, <2>1, AnswersAreNext DEF Answers
<1>6. ASSUME NEW q \in Providers \ {p} PROVE SameHands(q)
  <2>1. \A w \in WorkspaceIds, t \in Tracks : lease'[w][t] = q <=> lease[w][t] = q
    BY <1>1, <1>2, <1>6, ConstantsAssumption DEF Tenancy, IInv, TypeOK
  <2>2. Pooled(q)' <=> Pooled(q)
    BY <1>1, <1>2, <1>6 DEF Pooled, Tenancy, IInv, TypeOK
  <2> QED
    BY <1>1, <2>1, <2>2 DEF SameHands
<1>7. Ledger!Move(p, <<current, track>>)
  BY <1>3, <1>5, <1>6, OneMoves
<1>8. Ledger!Free(<<current, track>>)
  BY <1>1, FreeTrack
<1>9. Dirty' = Dirty /\ Opened' = Opened
  BY <1>1, OpenedStays DEF Dirty
<1>10. Ledger!Lend(p, current, track)
  BY <1>1, <1>3, <1>4, <1>7, <1>8, <1>9 DEF Ledger!Lend, Ledger!Absent, Ledger!InPool, Dirty, Opened
<1> QED
  BY <1>3, <1>10


\* A container that is started is clean, and nobody had it.
LEMMA Launched ==
  ASSUME Tenancy, NEW p \in Unused, NEW b \in Backends, NEW v \in Versions, Launch(p, b, v)
  PROVE  /\ p \in Providers /\ LedgerHolder(p) = <<"absent">>
         /\ container[p] = NoContainer /\ container'[p] # NoContainer
         /\ OnlyChanges(p) /\ Dirty' = Dirty
<1>1. /\ p \in Providers /\ container[p] = NoContainer /\ ~Owned(p)
      /\ container'[p] = Fresh(b, v) /\ OnlyChanges(p)
  BY LaunchIsApart DEF Tenancy, Unused
<1>2. container'[p] # NoContainer
  BY LaunchedContainer DEF Tenancy
<1>3. LedgerHolder(p) = <<"absent">>
  BY <1>1, AnswersAre DEF Answers
<1>4. Dirty' = Dirty
  BY <1>1, <1>2 DEF OnlyChanges, Dirty, Fresh
<1> QED
  BY <1>1, <1>2, <1>3, <1>4

LEMMA ClaimColdStartLends ==
  ASSUME Tenancy, Tenancy', ClaimColdStart
  PROVE  \E p \in Providers : Ledger!Lend(p, current, track)
<1>0. PICK k, v : k = request[current].backend /\ v = request[current].version
  OBVIOUS
<1>1. /\ current \in WorkspaceIds /\ current \notin registered
      /\ track \in Tracks /\ k \in Backends /\ v \in Versions
      /\ lease[current][track] = NoProvider
      /\ UNCHANGED <<queue, registered, request, warming>>
  BY <1>0 DEF ClaimColdStart, Tenancy, Slots, IInv, TypeOK, Control, Request
<1>2. PICK p \in Unused : Launch(p, k, v) /\ lease' = [lease EXCEPT ![current][track] = p]
  BY <1>0 DEF ClaimColdStart
<1>3. /\ p \in Providers /\ LedgerHolder(p) = <<"absent">> /\ OnlyChanges(p)
      /\ Dirty' = Dirty
  BY <1>1, <1>2, Launched
<1>4. LedgerHolder(p)' = <<current, track>>
  <2>1. lease'[current][track] = p
    BY <1>1, <1>2 DEF Tenancy, IInv, TypeOK
  <2> QED
    BY <1>1, <1>3, <2>1, AnswersAreNext DEF Answers
<1>5. ASSUME NEW q \in Providers \ {p} PROVE SameHands(q)
  <2>1. \A w \in WorkspaceIds, t \in Tracks : lease'[w][t] = q <=> lease[w][t] = q
    BY <1>1, <1>2, <1>5, ConstantsAssumption DEF Tenancy, IInv, TypeOK
  <2> QED
    BY <1>1, <1>3, <2>1 DEF SameHands, OnlyChanges, Pooled
<1>6. Ledger!Move(p, <<current, track>>)
  BY <1>3, <1>4, <1>5, OneMoves
<1>7. Ledger!Free(<<current, track>>)
  BY <1>1, FreeTrack
<1>8. Ledger!Lend(p, current, track)
  BY <1>1, <1>3, <1>6, <1>7, OpenedStays DEF Ledger!Lend, Ledger!Absent, Dirty, Opened
<1> QED
  BY <1>3, <1>8

\* Neither thread keeps the container it started.
LEMMA LostAtStartIsListed ==
  ASSUME Tenancy, Tenancy', UNCHANGED <<queue, lease, warming, registered, request>>,
         NEW p \in Unused, NEW b \in Backends, NEW v \in Versions, Launch(p, b, v)
  PROVE  Ledger!LoseAtStart(p)
<1>1. /\ p \in Providers /\ LedgerHolder(p) = <<"absent">> /\ OnlyChanges(p)
      /\ container'[p] # NoContainer /\ container[p] = NoContainer /\ Dirty' = Dirty
  BY Launched
<1>2. ~Owned(p)
  BY <1>1 DEF Tenancy, IInv, OwnedAreRunning
<1>3. Orphan(p)'
  BY <1>1, <1>2 DEF Orphan, Owned, Leased, Pooled
<1>4. LedgerHolder(p)' = <<"lost">>
  BY <1>1, <1>3, AnswersAreNext DEF Answers
<1>5. \A q \in Providers \ {p} : SameHands(q)
  BY <1>1 DEF SameHands, OnlyChanges, Pooled
<1>6. Ledger!Move(p, <<"lost">>)
  BY <1>1, <1>4, <1>5, OneMoves
<1> QED
  BY <1>1, <1>6, OpenedStays DEF Ledger!LoseAtStart, Ledger!Absent, Ledger!Lost, Dirty, Opened

LEMMA ClaimColdStartFailsLoses ==
  ASSUME Tenancy, Tenancy', ClaimColdStartFails
  PROVE  (\E p \in Providers : Ledger!LoseAtStart(p)) \/ UNCHANGED Ledger!vars
<1>0. PICK k, v : k = request[current].backend /\ v = request[current].version
  OBVIOUS
<1>1. k \in Backends /\ v \in Versions /\ UNCHANGED <<queue, lease, warming, registered, request>>
  BY <1>0 DEF ClaimColdStartFails, Tenancy, IInv, Control, Request
<1>2. CASE UNCHANGED container
  BY <1>1, <1>2, OpenedStays, UnseenSteps
<1>3. ASSUME NEW p \in Unused, Launch(p, k, v)
      PROVE  p \in Providers /\ Ledger!LoseAtStart(p)
  BY <1>1, <1>3, LostAtStartIsListed DEF Unused
<1> QED
  BY <1>0, <1>2, <1>3 DEF ClaimColdStartFails

\* A container is cleaned while nobody can use it.
LEMMA CleaningIsClean ==
  ASSUME Tenancy, Tenancy', current \in WorkspaceIds, track \in Tracks, current \notin registered,
         NEW p \in Providers, p = lease[current][track],
         UNCHANGED <<queue, lease, warming, registered, request>>,
         container'[p] # NoContainer, container'[p].clean, OnlyChanges(p)
  PROVE  Ledger!Clean(p)
<1>1. container[p] # NoContainer
  BY TrackContainer, NullsAssumption DEF Tenancy
<1>2. \A q \in Providers : SameHands(q)
  BY <1>1 DEF SameHands, OnlyChanges, Pooled
<1>3. Holder' = Holder
  BY <1>2, NoneMoves
<1>4. Dirty' = Dirty \ {p}
  BY <1>1 DEF Dirty, OnlyChanges
<1>5. Ledger!InClosed(p)
  BY HeldInClosed
<1> QED
  BY <1>3, <1>4, <1>5, OpenedStays DEF Ledger!Clean, Holder, Dirty, Opened

LEMMA ClaimPrepareCleans ==
  ASSUME Tenancy, Tenancy', ClaimPrepare
  PROVE  \E p \in Providers : Ledger!Clean(p)
<1>0. PICK p : p = lease[current][track]
  OBVIOUS
<1>1. /\ current \in WorkspaceIds /\ current \notin registered /\ p \in Providers /\ track \in Tracks
      /\ UNCHANGED <<queue, lease, warming, registered, request>>
  BY <1>0 DEF ClaimPrepare, Tenancy, IInv, TypeOK, Control
<1>2. container[p] \in Container
  BY <1>0, <1>1, TrackContainer DEF Tenancy
<1>3. container'[p] = Prepared(container[p], current) /\ OnlyChanges(p)
  BY <1>0, <1>1 DEF ClaimPrepare, OnlyChanges, Tenancy, IInv, TypeOK
<1>4. container'[p] # NoContainer /\ container'[p].clean
  <2>1. Prepared(container[p], current) \in Container
    BY <1>1, <1>2, ChangedContainer
  <2> QED
    BY <1>2, <1>3, <2>1, NullsAssumption DEF Prepared, Container
<1>5. Ledger!Clean(p)
  BY <1>0, <1>1, <1>3, <1>4, CleaningIsClean
<1> QED
  BY <1>1, <1>5


\* A provider nobody answers for any more is stopped, or its container lost.
LEMMA DiscardIsDiscard ==
  ASSUME Tenancy, Tenancy', NEW p \in Providers, SafeStop(p), container[p] # NoContainer,
         ~Owned(p)', \A q \in Providers \ {p} : SameHands(q),
         Ledger!InClosed(p) \/ Pooled(p), UNCHANGED <<registered, request>>
  PROVE  Ledger!Discard(p)
<1>1. Ledger!InClosed(p) \/ LedgerHolder(p) = <<"pool">>
  BY AnswersAre DEF Answers
<1>2. CASE container' = [container EXCEPT ![p] = NoContainer]
  <2>1. container'[p] = NoContainer /\ OnlyChanges(p)
    BY <1>2 DEF OnlyChanges, Tenancy, IInv, TypeOK
  <2>2. LedgerHolder(p)' = <<"absent">>
    BY <2>1, AnswersAreNext DEF Answers
  <2>3. Ledger!Move(p, <<"absent">>)
    BY <2>2, OneMoves
  <2>4. Dirty' = Dirty \ {p}
    BY <2>1 DEF Dirty, OnlyChanges
  <2> QED
    BY <1>1, <2>3, <2>4, OpenedStays
       DEF Ledger!Discard, Ledger!InPool, Ledger!Absent, Dirty, Opened
<1>3. CASE UNCHANGED container
  <2>1. Orphan(p)'
    BY <1>3 DEF Orphan
  <2>2. LedgerHolder(p)' = <<"lost">>
    BY <2>1, AnswersAreNext DEF Answers
  <2>3. Ledger!Move(p, <<"lost">>)
    BY <2>2, OneMoves
  <2>4. Dirty' = Dirty
    BY <1>3 DEF Dirty
  <2> QED
    BY <1>1, <2>3, <2>4, OpenedStays DEF Ledger!Discard, Ledger!InPool, Ledger!Lost, Dirty, Opened
<1> QED
  BY <1>2, <1>3 DEF SafeStop

\* initialize and release stop the provider of the track they work on.
LEMMA TrackDiscarded ==
  ASSUME Tenancy, Tenancy', ClaimPrepareFails \/ ReleaseDiscard
  PROVE  \E p \in Providers : Ledger!Discard(p)
<1>0. PICK p : p = lease[current][track]
  OBVIOUS
<1>1. /\ current \in WorkspaceIds /\ current \notin registered /\ p \in Providers /\ track \in Tracks
      /\ SafeStop(p) /\ lease' = [lease EXCEPT ![current][track] = NoProvider]
      /\ UNCHANGED <<queue, warming, registered, request>>
  BY <1>0 DEF ClaimPrepareFails, ReleaseDiscard, Released, Tenancy, IInv, TypeOK, Control
<1>2. container[p] # NoContainer
  BY <1>0, <1>1, TrackContainer, NullsAssumption DEF Tenancy
<1>3. ~Owned(p)'
  BY <1>0, <1>1 DEF Owned, Leased, Pooled, Tenancy, IInv, TypeOK, SingleOwner
<1>4. ASSUME NEW q \in Providers \ {p} PROVE SameHands(q)
  <2>1. container'[q] = container[q]
    BY <1>1, <1>4, StoppedContainer DEF Tenancy
  <2>2. \A w \in WorkspaceIds, t \in Tracks : lease'[w][t] = q <=> lease[w][t] = q
    BY <1>0, <1>1, <1>4, ConstantsAssumption DEF Tenancy, IInv, TypeOK
  <2> QED
    BY <1>1, <2>1, <2>2 DEF SameHands, Pooled
<1>5. Ledger!InClosed(p)
  BY <1>0, <1>1, HeldInClosed
<1>6. Ledger!Discard(p)
  BY <1>1, <1>2, <1>3, <1>4, <1>5, DiscardIsDiscard
<1> QED
  BY <1>1, <1>6

LEMMA RegisterOpens ==
  ASSUME Tenancy, Tenancy', Register
  PROVE  \E w \in WorkspaceIds : Ledger!Open(w)
<1>1. /\ pc = "register" /\ current \in WorkspaceIds /\ current \notin registered
      /\ registered' = registered \cup {current}
      /\ request[current].backend # SQLite
      /\ \A t \in Tracks : lease[current][t] \in Providers
      /\ UNCHANGED <<container, queue, lease, warming, request>>
  BY ConstantsAssumption DEF Register, Tenancy, IInv, Control
<1>2. \A t \in Tracks : container[lease[current][t]].clean
  BY <1>1 DEF Tenancy, Ready, Building
<1>3. \A t \in Tracks : /\ LedgerHolder(lease[current][t]) = <<current, t>>
                        /\ lease[current][t] \notin Dirty
  BY <1>1, <1>2, AnswersAre DEF Answers, Dirty
<1>4. Opened' = Opened \cup {current} /\ current \notin Opened
  BY <1>1 DEF Opened
<1>5. Holder' = Holder /\ Dirty' = Dirty
  <2>1. \A q \in Providers : SameHands(q)
    BY <1>1 DEF SameHands, Pooled
  <2> QED
    BY <1>1, <2>1, NoneMoves DEF Dirty
<1>6. PICK w \in WorkspaceIds : w = current
  BY <1>1
<1>7. Ledger!Open(w)
  <2>1. \A t \in Tracks : \E p \in Providers : Holder[p] = <<w, t>> /\ p \notin Dirty
    BY <1>1, <1>3, <1>6 DEF Holder
  <2>2. w \notin Opened /\ Opened' = Opened \cup {w}
    BY <1>4, <1>6
  <2> QED
    BY <1>5, <2>1, <2>2 DEF Ledger!Open, Holder, Dirty, Opened
<1> QED
  BY <1>7

LEMMA RaiseAbandons ==
  ASSUME Tenancy, Tenancy', Raise
  PROVE  \E w \in WorkspaceIds : Ledger!Abandon(w)
<1>1. /\ current \in WorkspaceIds /\ current \notin registered
      /\ UNCHANGED <<container, queue, warming, registered>>
      /\ request' = [request EXCEPT ![current] = NoRequest]
      /\ lease' = [lease EXCEPT ![current] = NoLeases]
  BY DEF Raise, Tenancy, IInv, Control
<1>2. /\ \A t \in Tracks : lease'[current][t] = NoProvider
      /\ \A w \in WorkspaceIds \ {current}, t \in Tracks : lease'[w][t] = lease[w][t]
  BY <1>1 DEF NoLeases, Tenancy, IInv, TypeOK
<1>3. ASSUME NEW p \in Providers, LedgerHolder(p) \in {current} \X Tracks
      PROVE  LedgerHolder(p)' = <<"lost">>
  <2>1. PICK t \in Tracks : LedgerHolder(p) = <<current, t>>
    BY <1>3
  <2>2. lease[current][t] = p
    BY <2>1, HolderTrack
  <2>3. ~Leased(p)'
    BY <1>1, <1>2, <2>2, ConstantsAssumption DEF Leased, Tenancy, IInv, SingleOwner
  <2>4. container[p] # NoContainer /\ ~Pooled(p) /\ warming # p
    BY <1>1, <2>2, TrackContainer, NullsAssumption, ConstantsAssumption
       DEF Tenancy, IInv, SingleOwner, Leased
  <2>5. Orphan(p)'
    BY <1>1, <2>3, <2>4 DEF Orphan, Owned, Pooled
  <2> QED
    BY <2>5, AnswersAreNext DEF Answers
<1>4. ASSUME NEW p \in Providers, LedgerHolder(p) \notin {current} \X Tracks
      PROVE  LedgerHolder(p)' = LedgerHolder(p)
  <2>1. \A t \in Tracks : lease[current][t] # p
    BY <1>1, <1>4, AnswersAre DEF Answers
  <2>2. SameHands(p)
    BY <1>1, <1>2, <2>1, ConstantsAssumption DEF SameHands, Pooled
  <2> QED
    BY <2>2, HolderStays
<1>5. Opened' = Opened
  BY <1>1 DEF Opened, Tenancy, IInv, TypeOK
<1>6. Dirty' = Dirty
  BY <1>1 DEF Dirty
<1>7. Ledger!Abandon(current)
  BY <1>1, <1>3, <1>4, <1>5, <1>6 DEF Ledger!Abandon, Ledger!Lost, Dirty, Opened
<1> QED
  BY <1>1, <1>7


-----------------------------------------------------------------------------
(* The steps of destroy                                                    *)

LEMMA DisconnectUnseen == ASSUME Tenancy, Tenancy', Disconnect PROVE UNCHANGED Ledger!vars
<1>0. PICK p : p = lease[current][track]
  OBVIOUS
<1>1. /\ current \in WorkspaceIds /\ p \in Providers /\ track \in Tracks
      /\ UNCHANGED <<queue, lease, warming, registered, request>>
  BY <1>0 DEF Disconnect, Tenancy, IInv, TypeOK, Control
<1>2. container[p] \in Container
  BY <1>0, <1>1, TrackContainer DEF Tenancy
<1>3. /\ \/ container'[p] = [container[p] EXCEPT !.nets = @ \ {current}]
         \/ container'[p] = container[p]
      /\ OnlyChanges(p)
  BY <1>0, <1>1 DEF Disconnect, OnlyChanges, Tenancy, IInv, TypeOK
<1>4. container'[p] # NoContainer /\ container'[p].clean = container[p].clean
  <2>1. [container[p] EXCEPT !.nets = @ \ {current}] \in Container
    BY <1>1, <1>2, ChangedContainer
  <2> QED
    BY <1>2, <1>3, <2>1, NullsAssumption DEF Container
<1>5. container[p] # NoContainer
  BY <1>2, NullsAssumption
<1>6. \A q \in Providers : SameHands(q)
  BY <1>1, <1>3, <1>4, <1>5 DEF SameHands, OnlyChanges, Pooled
<1>7. Dirty' = Dirty
  BY <1>3, <1>4, <1>5 DEF Dirty, OnlyChanges
<1> QED
  BY <1>1, <1>6, <1>7, OpenedStays, Unseen

LEMMA ReleaseResetCleans ==
  ASSUME Tenancy, Tenancy', ReleaseReset
  PROVE  \E p \in Providers : Ledger!Clean(p)
<1>0. PICK p : p = lease[current][track]
  OBVIOUS
<1>1. /\ current \in WorkspaceIds /\ current \notin registered /\ p \in Providers /\ track \in Tracks
      /\ UNCHANGED <<queue, lease, warming, registered, request>>
  BY <1>0 DEF ReleaseReset, Tenancy, IInv, TypeOK, Control
<1>2. container[p] \in Container
  BY <1>0, <1>1, TrackContainer DEF Tenancy
<1>3. container'[p] = [container[p] EXCEPT !.clean = TRUE] /\ OnlyChanges(p)
  BY <1>0, <1>1 DEF ReleaseReset, OnlyChanges, Tenancy, IInv, TypeOK
<1>4. container'[p] # NoContainer /\ container'[p].clean
  <2>1. [container[p] EXCEPT !.clean = TRUE] \in Container
    BY <1>1, <1>2, ChangedContainer
  <2> QED
    BY <1>2, <1>3, <2>1, NullsAssumption DEF Container
<1>5. Ledger!Clean(p)
  BY <1>0, <1>1, <1>3, <1>4, CleaningIsClean
<1> QED
  BY <1>1, <1>5

LEMMA ReleaseAppendReturns ==
  ASSUME Tenancy, Tenancy', ReleaseAppend
  PROVE  \E p \in Providers : Ledger!Return(p)
<1>0. PICK p, k : p = lease[current][track] /\ k = request[current].backend
  OBVIOUS
<1>1. /\ pc = "append" /\ current \in WorkspaceIds /\ current \notin registered
      /\ p \in Providers /\ track \in Tracks /\ k \in Backends
      /\ queue' = [queue EXCEPT ![k] = @ \cup {p}]
      /\ lease' = [lease EXCEPT ![current][track] = NoProvider]
      /\ UNCHANGED <<container, warming, registered, request>>
  BY <1>0 DEF ReleaseAppend, Released, Tenancy, IInv, TypeOK, Control
<1>2. p \notin Dirty
  BY <1>0, <1>1 DEF Tenancy, Ready, Leaving, Dirty
<1>3. LedgerHolder(p)' = <<"pool">>
  <2>1. Pooled(p)'
    BY <1>1 DEF Pooled, Tenancy, IInv, TypeOK
  <2> QED
    BY <1>1, <2>1, AnswersAreNext DEF Answers
<1>4. ASSUME NEW q \in Providers \ {p} PROVE SameHands(q)
  <2>1. \A w \in WorkspaceIds, t \in Tracks : lease'[w][t] = q <=> lease[w][t] = q
    BY <1>0, <1>1, <1>4, ConstantsAssumption DEF Tenancy, IInv, TypeOK
  <2>2. Pooled(q)' <=> Pooled(q)
    BY <1>1, <1>4 DEF Pooled, Tenancy, IInv, TypeOK
  <2> QED
    BY <1>1, <2>1, <2>2 DEF SameHands
<1>5. Ledger!Move(p, <<"pool">>)
  BY <1>1, <1>3, <1>4, OneMoves
<1>6. Ledger!InClosed(p)
  BY <1>0, <1>1, HeldInClosed
<1>7. Dirty' = Dirty
  BY <1>1 DEF Dirty
<1>8. Ledger!Return(p)
  BY <1>1, <1>2, <1>5, <1>6, <1>7, OpenedStays DEF Ledger!Return, Ledger!InPool, Dirty, Opened
<1> QED
  BY <1>1, <1>8

LEMMA RemoveNetworkUnseen ==
  ASSUME Tenancy, Tenancy', RemoveNetwork
  PROVE  UNCHANGED Ledger!vars
<1>1. /\ current \in WorkspaceIds /\ current \notin registered
      /\ request' = [request EXCEPT ![current] = NoRequest]
      /\ UNCHANGED <<container, queue, lease, warming, registered>>
  BY DEF RemoveNetwork, Tenancy, IInv, Control
<1>2. Opened' = Opened
  BY <1>1 DEF Opened, Tenancy, IInv, TypeOK
<1> QED
  BY <1>1, <1>2, UnseenSteps

-----------------------------------------------------------------------------
(* The steps of shutdown and of the refill thread                          *)

LEMMA DrainDiscards ==
  ASSUME Tenancy, Tenancy', DrainOne
  PROVE  \E p \in Providers : Ledger!Discard(p)
<1>1. UNCHANGED <<registered, request, lease, warming>>
  BY DEF DrainOne
<1>2. PICK b \in Backends : \E p \in queue[b] :
        queue' = [queue EXCEPT ![b] = @ \ {p}] /\ SafeStop(p)
  BY DEF DrainOne
<1>3. PICK p \in queue[b] : queue' = [queue EXCEPT ![b] = @ \ {p}] /\ SafeStop(p)
  BY <1>2
<1>4. p \in Providers /\ Pooled(p) /\ ~Leased(p) /\ warming # p
  BY <1>3, ConstantsAssumption DEF Tenancy, IInv, TypeOK, SingleOwner, Pooled
<1>5. container[p] # NoContainer
  BY <1>4 DEF Tenancy, IInv, OwnedAreRunning, Owned
<1>6. ~Pooled(p)' /\ \A q \in Providers \ {p} : Pooled(q)' <=> Pooled(q)
  BY <1>3 DEF Pooled, Tenancy, IInv, TypeOK, SingleOwner
<1>7. ~Owned(p)'
  BY <1>1, <1>4, <1>6 DEF Owned, Leased
<1>8. \A q \in Providers \ {p} : SameHands(q)
  BY <1>1, <1>3, <1>6, StoppedContainer DEF SameHands, Tenancy
<1>9. Ledger!Discard(p)
  BY <1>1, <1>3, <1>4, <1>5, <1>7, <1>8, DiscardIsDiscard
<1> QED
  BY <1>4, <1>9

LEMMA PhasesUnseen ==
  ASSUME Tenancy, Tenancy',
         \/ Shutdown \/ RegisterFails \/ StopPool \/ DrainDone \/ Exit \/ RefillWake
         \/ \E b \in Backends : RefillScan(b)
         \/ UNCHANGED vars
  PROVE  UNCHANGED Ledger!vars
<1>1. UNCHANGED <<container, lease, queue, warming, registered, request>>
  BY DEF Shutdown, RegisterFails, StopPool, DrainDone, Exit, RefillWake, RefillScan, vars
<1> QED
  BY <1>1, OpenedStays, UnseenSteps

LEMMA RefillStartWarms ==
  ASSUME Tenancy, Tenancy', RefillStart
  PROVE  \E p \in Providers : Ledger!Warm(p)
<1>1. /\ warming = NoProvider /\ rbackend \in Backends
      /\ UNCHANGED <<queue, lease, registered, request>>
  BY DEF RefillStart, Tenancy, IInv, Control
<1>2. PICK p \in Unused : Launch(p, rbackend, DefaultVersion) /\ warming' = p
  BY DEF RefillStart
<1>3. /\ p \in Providers /\ LedgerHolder(p) = <<"absent">> /\ OnlyChanges(p) /\ Dirty' = Dirty
  BY <1>1, <1>2, Launched, ConstantsAssumption
<1>4. LedgerHolder(p)' = <<"warming">>
  BY <1>2, <1>3, AnswersAreNext DEF Answers
<1>5. \A q \in Providers \ {p} : SameHands(q)
  BY <1>1, <1>2, <1>3, ConstantsAssumption DEF SameHands, OnlyChanges, Pooled
<1>6. Ledger!Move(p, <<"warming">>)
  BY <1>3, <1>4, <1>5, OneMoves
<1>7. Ledger!Warm(p)
  BY <1>1, <1>3, <1>6, OpenedStays DEF Ledger!Warm, Ledger!Absent, Ledger!Warming, Dirty, Opened
<1> QED
  BY <1>3, <1>7

LEMMA RefillStartFailsLoses ==
  ASSUME Tenancy, Tenancy', RefillStartFails
  PROVE  (\E p \in Providers : Ledger!LoseAtStart(p)) \/ UNCHANGED Ledger!vars
<1>1. /\ rbackend \in Backends /\ DefaultVersion \in Versions
      /\ UNCHANGED <<queue, lease, warming, registered, request>>
  BY ConstantsAssumption DEF RefillStartFails, Tenancy, IInv, Control
<1>2. CASE UNCHANGED container
  BY <1>1, <1>2, OpenedStays, UnseenSteps
<1>3. ASSUME NEW p \in Unused, Launch(p, rbackend, DefaultVersion)
      PROVE  p \in Providers /\ Ledger!LoseAtStart(p)
  BY <1>1, <1>3, LostAtStartIsListed DEF Unused
<1> QED
  BY <1>2, <1>3 DEF RefillStartFails

LEMMA RefillAppendStocks ==
  ASSUME Tenancy, Tenancy', RefillAppend
  PROVE  \E p \in Providers : Ledger!Stock(p)
<1>1. PICK p : p = warming
  OBVIOUS
<1>2. /\ p \in Providers /\ rbackend \in Backends /\ warming' = NoProvider
      /\ queue' = [queue EXCEPT ![rbackend] = @ \cup {p}]
      /\ UNCHANGED <<container, lease, registered, request>>
  BY <1>1 DEF RefillAppend, Tenancy, IInv, TypeOK, Control
<1>3. LedgerHolder(p) = <<"warming">>
  BY <1>1, <1>2, AnswersAre DEF Answers
<1>4. LedgerHolder(p)' = <<"pool">>
  <2>1. Pooled(p)'
    BY <1>2 DEF Pooled, Tenancy, IInv, TypeOK
  <2> QED
    BY <1>2, <2>1, AnswersAreNext DEF Answers
<1>5. \A q \in Providers \ {p} : SameHands(q)
  BY <1>1, <1>2, ConstantsAssumption DEF SameHands, Pooled, Tenancy, IInv, TypeOK
<1>6. Ledger!Move(p, <<"pool">>)
  BY <1>2, <1>4, <1>5, OneMoves
<1>7. Dirty' = Dirty
  BY <1>2 DEF Dirty
<1>8. Ledger!Stock(p)
  BY <1>2, <1>3, <1>6, <1>7, OpenedStays DEF Ledger!Stock, Ledger!Warming, Ledger!InPool, Dirty, Opened
<1> QED
  BY <1>2, <1>8


-----------------------------------------------------------------------------
(* The theorem                                                             *)

LEMMA InitLedger == Init => Ledger!Init
<1> SUFFICES ASSUME Init PROVE Ledger!Init
  OBVIOUS
<1>1. /\ \A p \in Providers : container[p] = NoContainer
      /\ registered = {}
  BY DEF Init
<1>2. Tenancy
  BY InitTenancy
<1>3. \A p \in Providers : LedgerHolder(p) = <<"absent">>
  BY <1>1, <1>2, AnswersAre DEF Answers
<1> QED
  BY <1>1, <1>3 DEF Ledger!Init, Ledger!Absent

\* The client's calls, as steps of the ledger.
LEMMA CallIsLedger ==
  ASSUME Tenancy, Tenancy', Call \/ \E w \in WorkspaceIds : Destroy(w)
  PROVE  [Ledger!Next]_(Ledger!vars)
<1>1. CASE \E w \in WorkspaceIds, v \in Versions :
             InitializeSQLite(w, v) \/ \E b \in Backends : InitializeContainers(w, b, v)
  BY <1>1, InitializeUnseen
<1>2. CASE \E w \in WorkspaceIds, t \in Tracks : Use(w, t)
  BY <1>2, UseIsUse DEF Ledger!Next
<1>3. CASE \E w \in WorkspaceIds : Destroy(w)
  <2>1. PICK w \in WorkspaceIds : Ledger!Close(w) \/ UNCHANGED Ledger!vars
    BY <1>3, DestroyCloses
  <2> QED
    BY <2>1 DEF Ledger!Next
<1>4. CASE Shutdown
  BY <1>4, PhasesUnseen
<1> QED
  BY <1>1, <1>2, <1>3, <1>4 DEF Call

\* initialize, as steps of the ledger.
LEMMA ClaimIsLedger ==
  ASSUME Tenancy, Tenancy', Claim \/ Register \/ RegisterFails \/ Raise
  PROVE  [Ledger!Next]_(Ledger!vars)
<1>1. CASE ClaimPooled \/ ClaimColdStart
  <2>1. current \in WorkspaceIds /\ track \in Tracks
    BY <1>1 DEF ClaimPooled, ClaimColdStart, Tenancy, IInv, TypeOK, Control
  <2>2. PICK w \in WorkspaceIds, t \in Tracks : w = current /\ t = track
    BY <2>1
  <2>3. \E p \in Providers : Ledger!Lend(p, w, t)
    BY <1>1, <2>2, ClaimPooledLends, ClaimColdStartLends
  <2> QED
    BY <2>3 DEF Ledger!Next
<1>2. CASE ClaimColdStartFails
  BY <1>2, ClaimColdStartFailsLoses DEF Ledger!Next
<1>3. CASE ClaimPrepare
  BY <1>3, ClaimPrepareCleans DEF Ledger!Next
<1>4. CASE ClaimPrepareFails
  BY <1>4, TrackDiscarded DEF Ledger!Next
<1>5. CASE Register
  BY <1>5, RegisterOpens DEF Ledger!Next
<1>6. CASE RegisterFails
  BY <1>6, PhasesUnseen
<1>7. CASE Raise
  BY <1>7, RaiseAbandons DEF Ledger!Next
<1> QED
  BY <1>1, <1>2, <1>3, <1>4, <1>5, <1>6, <1>7 DEF Claim

\* destroy, stop and the end of the server, as steps of the ledger.
LEMMA ReleaseIsLedger ==
  ASSUME Tenancy, Tenancy', Release \/ Drain \/ Exit \/ UNCHANGED vars
  PROVE  [Ledger!Next]_(Ledger!vars)
<1>1. CASE Disconnect \/ RemoveNetwork \/ StopPool \/ DrainDone \/ Exit \/ UNCHANGED vars
  BY <1>1, DisconnectUnseen, RemoveNetworkUnseen, PhasesUnseen
<1>2. CASE ReleaseReset
  BY <1>2, ReleaseResetCleans DEF Ledger!Next
<1>3. CASE ReleaseDiscard
  BY <1>3, TrackDiscarded DEF Ledger!Next
<1>4. CASE ReleaseAppend
  BY <1>4, ReleaseAppendReturns DEF Ledger!Next
<1>5. CASE DrainOne
  BY <1>5, DrainDiscards DEF Ledger!Next
<1> QED
  BY <1>1, <1>2, <1>3, <1>4, <1>5 DEF Release, Drain

\* The refill thread, as steps of the ledger.
LEMMA RefillIsLedger ==
  ASSUME Tenancy, Tenancy', Refill
  PROVE  [Ledger!Next]_(Ledger!vars)
<1>1. CASE RefillWake \/ \E b \in Backends : RefillScan(b)
  BY <1>1, PhasesUnseen
<1>2. CASE RefillStart
  BY <1>2, RefillStartWarms DEF Ledger!Next
<1>3. CASE RefillStartFails
  BY <1>3, RefillStartFailsLoses DEF Ledger!Next
<1>4. CASE RefillAppend
  BY <1>4, RefillAppendStocks DEF Ledger!Next
<1> QED
  BY <1>1, <1>2, <1>3, <1>4 DEF Refill

\* Whatever interleaves and fails, every step of the two threads is a step of
\* the ledger or none: a container is cleaned between two tenants, a
\* workspace opens on two clean containers, and what is lost stays lost.
THEOREM PoolImplementsLedger == Spec => ImplementsLedger
<1>1. Tenancy /\ Tenancy' /\ [Next]_vars => [Ledger!Next]_(Ledger!vars)
  BY CallIsLedger, ClaimIsLedger, ReleaseIsLedger, RefillIsLedger DEF Next, Proceed, Exited
<1> QED
  BY InitLedger, <1>1, TenancyInvariant, PTL DEF Spec, ImplementsLedger, Ledger!Spec

=============================================================================
