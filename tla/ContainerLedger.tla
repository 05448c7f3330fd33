--------------------------- MODULE ContainerLedger ---------------------------
(***************************************************************************)
(* What the container pool and the workspace manager promise together,     *)
(* without threads, locks, queues or networks: a ledger that says for each *)
(* provider who answers for its container.  A workspace opens on two clean *)
(* containers of its own and keeps both until it closes; a container that  *)
(* was used is cleaned before the pool lends it again; a container that is *)
(* lost stays lost.                                                        *)
(***************************************************************************)
CONSTANTS Providers, WorkspaceIds, Tracks

VARIABLES
  holder, \* who answers for each provider's container
  dirty,  \* the containers with objects of a test in them
  open    \* the workspaces clients may use

vars == <<holder, dirty, open>>

Absent  == <<"absent">>
Warming == <<"warming">>
InPool  == <<"pool">>
Lost    == <<"lost">>
Slot    == WorkspaceIds \X Tracks
Holders == {Absent, Warming, InPool, Lost} \cup Slot

TypeOK ==
  /\ holder \in [Providers -> Holders]
  /\ dirty \subseteq Providers
  /\ open \subseteq WorkspaceIds

Init ==
  /\ holder = [p \in Providers |-> Absent]
  /\ dirty = {}
  /\ open = {}

Free(slot) == \A p \in Providers : holder[p] # slot

\* Held by a workspace that is being opened or closed.
InClosed(p) == holder[p] \in (WorkspaceIds \ open) \X Tracks

Move(p, to) == holder' = [holder EXCEPT ![p] = to]

Warm(p) == holder[p] = Absent /\ Move(p, Warming) /\ UNCHANGED <<dirty, open>>

Stock(p) == holder[p] = Warming /\ Move(p, InPool) /\ UNCHANGED <<dirty, open>>

\* A track of a workspace that is not open yet takes a container.
Lend(p, w, t) ==
  /\ w \notin open
  /\ holder[p] \in {Absent, InPool}
  /\ Free(<<w, t>>)
  /\ Move(p, <<w, t>>)
  /\ UNCHANGED <<dirty, open>>

\* Its objects are dropped, outside any use of it.
Clean(p) ==
  /\ InClosed(p)
  /\ dirty' = dirty \ {p}
  /\ UNCHANGED <<holder, open>>

Open(w) ==
  /\ w \notin open
  /\ \A t \in Tracks : \E p \in Providers : holder[p] = <<w, t>> /\ p \notin dirty
  /\ open' = open \cup {w}
  /\ UNCHANGED <<holder, dirty>>

Use(p) ==
  /\ holder[p] \in open \X Tracks
  /\ dirty' = dirty \cup {p}
  /\ UNCHANGED <<holder, open>>

Close(w) ==
  /\ w \in open
  /\ open' = open \ {w}
  /\ UNCHANGED <<holder, dirty>>

\* A clean container goes back to the pool.
Return(p) ==
  /\ p \notin dirty
  /\ InClosed(p)
  /\ Move(p, InPool)
  /\ UNCHANGED <<dirty, open>>

\* It is stopped, or stopping it fails.
Discard(p) ==
  /\ holder[p] = InPool \/ InClosed(p)
  /\ \/ Move(p, Absent) /\ dirty' = dirty \ {p}
     \/ Move(p, Lost) /\ UNCHANGED dirty
  /\ UNCHANGED open

\* It is started and never becomes anyone's.
LoseAtStart(p) == holder[p] = Absent /\ Move(p, Lost) /\ UNCHANGED <<dirty, open>>

\* A workspace that was never opened forgets what it holds.
Abandon(w) ==
  /\ w \notin open
  /\ holder' = [p \in Providers |->
                  IF holder[p] \in {w} \X Tracks THEN Lost ELSE holder[p]]
  /\ UNCHANGED <<dirty, open>>

Next ==
  \/ \E p \in Providers :
       Warm(p) \/ Stock(p) \/ Discard(p) \/ LoseAtStart(p) \/ Clean(p) \/ Use(p) \/ Return(p)
  \/ \E p \in Providers, w \in WorkspaceIds, t \in Tracks : Lend(p, w, t)
  \/ \E w \in WorkspaceIds : Open(w) \/ Close(w) \/ Abandon(w)

Spec == Init /\ [][Next]_vars
=============================================================================
