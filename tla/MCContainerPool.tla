-------------------------- MODULE MCContainerPool --------------------------
(* Small instances of ContainerPool for TLC.                               *)
EXTENDS ContainerPoolRefinement, TLC

\* One warm container for each backend.
OneEach == [b \in Backends |-> 1]

\* Two warm containers for one backend; the other is only ever started cold.
TwoAndNone ==
  LET warmed == CHOOSE b \in Backends : TRUE
  IN  [b \in Backends |-> IF b = warmed THEN 2 ELSE 0]

\* Ids are interchangeable; safety runs only.
Symmetry == Permutations(Providers) \cup Permutations(WorkspaceIds)
=============================================================================
