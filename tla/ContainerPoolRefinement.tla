----------------------- MODULE ContainerPoolRefinement -----------------------
(* The pool and the workspaces implement the ledger.                       *)
EXTENDS ContainerPool

\* Who answers for the container of p: its one owner (SingleOwner).
LedgerHolder(p) ==
  CASE container[p] = NoContainer -> <<"absent">>
    [] container[p] # NoContainer /\ Leased(p) ->
         CHOOSE slot \in WorkspaceIds \X Tracks : lease[slot[1]][slot[2]] = p
    [] container[p] # NoContainer /\ ~Leased(p) ->
         IF Pooled(p) THEN <<"pool">> ELSE IF warming = p THEN <<"warming">> ELSE <<"lost">>

Ledger == INSTANCE ContainerLedger WITH
  holder <- [p \in Providers |-> LedgerHolder(p)],
  dirty  <- {p \in Providers : container[p] # NoContainer /\ ~container[p].clean},
  open   <- {w \in registered : request[w].backend # SQLite}

\* Every step of the threads is a step of the ledger or none: containers
\* change hands, and are cleaned between two tenants, as the ledger says.
ImplementsLedger == Ledger!Spec
=============================================================================
