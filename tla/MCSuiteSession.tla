--------------------------- MODULE MCSuiteSession ---------------------------
(* Small instances of SuiteSession for TLC.                                *)
EXTENDS SuiteSession, TLC

CONSTANTS
  m1, m2, m3,          \* models
  s1, s2, SQLite       \* case ids, and the other backend

\* Two cases with one id on two backends, and one without revisions beside them.
MCCases ==
  {[slug |-> s1, backend |-> ClickHouse, revisions |-> <<m1, m2>>, apply |-> TRUE,
    rollback |-> 0, capture |-> FALSE],
   [slug |-> s1, backend |-> SQLite, revisions |-> <<m3>>, apply |-> TRUE,
    rollback |-> 1, capture |-> TRUE],
   [slug |-> s2, backend |-> SQLite, revisions |-> <<>>, apply |-> FALSE,
    rollback |-> 0, capture |-> FALSE]}

\* Names short enough to stay as they are.
MCShortened == [s \in Slugs |-> s]

\* The shape of the round trip has the id of a case.
MCShapeDir == <<"rt", s1>>
MCShapeDatabase == <<"server", s1>>

\* The player has a file of its own.
MCPlayDir == <<"play">>
MCPlayDatabase == <<"file", <<"play">>>>

Facet(columns, indexes) ==
  [f \in Facets |-> IF f = "indexes" THEN indexes ELSE IF f = "columns" THEN columns ELSE 0]

\* m2 differs from m1 in an index, m3 adds a view, a torn schema lacks columns, a
\* wrong one has others.
MCShape ==
  (NoModels :> <<>>)
    @@ (m1 :> [t \in {"t"} |-> [view |-> FALSE, facets |-> Facet(2, 0)]])
    @@ (m2 :> [t \in {"t"} |-> [view |-> FALSE, facets |-> Facet(2, 1)]])
    @@ (m3 :> [t \in {"t", "v"} |-> [view |-> t = "v", facets |-> Facet(2, 0)]])
    @@ (Torn :> [t \in {"t"} |-> [view |-> FALSE, facets |-> Facet(1, 0)]])
    @@ (Wrong :> [t \in {"t"} |-> [view |-> FALSE, facets |-> Facet(3, 0)]])

\* A reference schema with a table and an index.
MCReferences == {[tables |-> {"t"}, indexes |-> {1}]}

\* An earlier session migrated twice.
MCLeftovers == {[schema |-> m2, history |-> <<m1, m2>>]}

MCCollections == {<<"play", "trip">>, <<"matrix">>}

OneTrip == {<<"trip">>}
=============================================================================
