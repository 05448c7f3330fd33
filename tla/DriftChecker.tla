---------------------------- MODULE DriftChecker ----------------------------
(***************************************************************************)
(* tools/drift_checker.py: what a snapshot keeps of a schema, and what     *)
(* diff finds between two.  A schema maps each of its tables and views to  *)
(* the facets inspection can tell apart.                                   *)
(***************************************************************************)
EXTENDS Naturals

Facets ==
  {"columns", "indexes", "column_details", "primary_keys", "foreign_keys", "unique_constraints",
   "table_options"}

\* capture through SQLAlchemy: every facet of every table, views by name only.
CaptureSql(schema) ==
  [tables |-> {t \in DOMAIN schema : ~schema[t].view},
   views  |-> {t \in DOMAIN schema : schema[t].view},
   facets |-> [t \in {u \in DOMAIN schema : ~schema[u].view} |-> schema[t].facets]]

\* _capture_clickhouse: system.tables lists views among the tables, and the keys
\* and indexes are left empty.
CaptureClickHouse(schema) ==
  [tables |-> DOMAIN schema,
   views  |-> {},
   facets |-> [t \in DOMAIN schema |->
                 [f \in Facets |-> IF f \in {"columns", "column_details", "table_options"}
                                   THEN schema[t].facets[f] ELSE 0]]]

\* Mutant of Drift: only the tables of the expected snapshot are gone through,
\* and the lists of tables are not compared.
DriftExpectedOnly(expected, actual) ==
  {d \in Facets \X DOMAIN expected.facets :
     d[2] \in DOMAIN actual.facets /\ expected.facets[d[2]][d[1]] # actual.facets[d[2]][d[1]]}

ListDrift(kind, expected, actual) == IF expected = actual THEN {} ELSE {<<kind, "__all__">>}

\* diff: the lists of tables and views, and each facet of each table either
\* snapshot has; a table it has not has no facet.
Drift(expected, actual) ==
  ListDrift("tables", expected.tables, actual.tables)
    \cup ListDrift("views", expected.views, actual.views)
    \cup {d \in Facets \X (DOMAIN expected.facets \cup DOMAIN actual.facets) :
            \/ d[2] \notin DOMAIN expected.facets \cap DOMAIN actual.facets
            \/ expected.facets[d[2]][d[1]] # actual.facets[d[2]][d[1]]}
=============================================================================
