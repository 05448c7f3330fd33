--------------------------- MODULE MigrationPlayer ---------------------------
(***************************************************************************)
(* tools/migration_player.py, and tools/schema_runner.py on top of it: a   *)
(* test drives one project through commands it chooses and checks the      *)
(* database on the way.  Every command must exit with 0 and leave stderr   *)
(* empty, or the test ends there.                                          *)
(***************************************************************************)
EXTENDS DbwardenProject, DriftChecker

CONSTANTS
  PlayDir, PlayDatabase,
  Shape,         \* the tables and views of each schema, as DriftChecker has them
  References,    \* the tables and indexes each reference schema is expected to have
  PlayFlags,     \* whether the databases tests choose are ClickHouse
  MaxCommands    \* bound of the model: commands and edits of one test

ASSUME PlayerAssumption ==
  /\ PlayFlags \subseteq BOOLEAN
  /\ MaxCommands \in Nat
  /\ \A reference \in References : DOMAIN reference = {"tables", "indexes"}
  /\ \A s \in Schemas : \A x \in DOMAIN Shape[s] :
       Shape[s][x] \in [view: BOOLEAN, facets: [Facets -> Nat]]

VARIABLE play  \* the test: how far it is, its snapshot, and whether it was just found restored

NewPlay(task, clickhouse) ==
  [task |-> task, commands |-> 0, clickhouse |-> clickhouse, snapshot |-> Torn, captured |-> FALSE,
   restored |-> FALSE]

PlayInit == play = NewPlay("idle", FALSE)

TestProject == projects[PlayDir]
TestDatabase == databases[PlayDatabase]

\* DriftChecker.capture, by the scheme of the URL.
Captured(schema) ==
  IF play.clickhouse THEN CaptureClickHouse(Shape[schema]) ELSE CaptureSql(Shape[schema])

\* init and configure: a test on a database nobody else uses.
StartPlay ==
  /\ projects' = [projects EXCEPT ![PlayDir] = [EmptyProject EXCEPT !.config = PlayDatabase]]
  /\ databases' = [databases EXCEPT ![PlayDatabase] = EmptyDatabase]
  /\ \E clickhouse \in PlayFlags : play' = NewPlay("playing", clickhouse)

Playing == play.task = "playing" /\ play.commands < MaxCommands

\* The test goes on; what it had found no longer stands.
Continue(restored) ==
  play' = [play EXCEPT !.commands = @ + 1, !.restored = restored]

Fails == play' = [play EXCEPT !.task = "failed", !.restored = FALSE]

\* cli.run with clean=True: require_clean raises on a return code and on stderr.
Clean(code) ==
  \/ code = 0 /\ Continue(FALSE)
  \/ Fails

\* The test edits its project: other models, a migration of its own, or one
\* file less.
EditProject ==
  /\ Playing
  /\ \/ \E models \in Models : projects' = [projects EXCEPT ![PlayDir].models = models]
     \/ \E models \in Models :
          projects' = [projects EXCEPT ![PlayDir].files = Append(@, models)]
     \/ /\ TestProject.files # <<>>
        /\ projects' = [projects EXCEPT ![PlayDir].files = SubSeq(@, 1, Len(@) - 1)]
  /\ Continue(FALSE)
  /\ UNCHANGED databases

PlayMake ==
  /\ Playing
  /\ \E out \in MakeOutcomes(TestProject) :
       /\ projects' = [projects EXCEPT ![PlayDir].files = out.files]
       /\ Clean(out.code)
  /\ UNCHANGED databases

PlayMigrate ==
  /\ Playing
  /\ \E out \in MigrateOutcomes(TestProject, TestDatabase) :
       databases' = [databases EXCEPT ![PlayDatabase] = out.database] /\ Clean(out.code)
  /\ UNCHANGED projects

PlayRollBack ==
  /\ Playing
  /\ \E n \in 1..MaxCommands : \E out \in RollbackOutcomes(TestDatabase, n) :
       databases' = [databases EXCEPT ![PlayDatabase] = out.database] /\ Clean(out.code)
  /\ UNCHANGED projects

\* SchemaRunner.reverse_engineer and the configure of round_trip: the generated
\* file must be there, and the project's models are then the generated ones.
ReverseEngineer ==
  /\ Playing
  /\ \E out \in GenerateOutcomes(TestDatabase) :
       IF out.code = 0 /\ "models" \in out.files
       THEN /\ projects' = [projects EXCEPT ![PlayDir].models = out.models]
            /\ Clean(out.code)
       ELSE Fails /\ UNCHANGED projects
  /\ UNCHANGED databases

\* diff_operations, of the player or of round_trip: the test goes on with what it
\* was told, right or wrong, or wanted something else.
DiffOperations ==
  /\ Playing
  /\ \E out \in DiffOutcomes(TestProject.models, TestDatabase, TRUE) : Clean(out.code)
  /\ UNCHANGED stores

\* assert_converged: the test goes on if no difference can be read.
AssertConverged ==
  /\ Playing
  /\ \E out \in DiffOutcomes(TestProject.models, TestDatabase, TRUE) :
       IF out.code # 0 \/ out.stderr \/ ParsedDifference(out) THEN Fails ELSE Continue(FALSE)
  /\ UNCHANGED stores

\* A snapshot of the schema is captured, or the inspection raises.
CaptureSchema ==
  /\ Playing
  /\ \/ play' = [play EXCEPT !.commands = @ + 1, !.restored = FALSE, !.captured = TRUE,
                             !.snapshot = TestDatabase.schema]
     \/ Fails
  /\ UNCHANGED stores

\* assert_equal with the snapshot captured last; so may the second capture, and
\* the command and captures of the checks below.
AssertEqual ==
  /\ Playing
  /\ play.captured
  /\ \/ /\ Drift(Captured(play.snapshot), Captured(TestDatabase.schema)) = {}
        /\ Continue(TRUE)
     \/ Fails
  /\ UNCHANGED stores

\* assert_history_integrity: the versions the expression finds in what history
\* prints, perhaps not all that are applied, have files; or history fails.
AssertHistoryIntegrity ==
  /\ Playing
  /\ \/ \E found \in SUBSET DOMAIN TestDatabase.history :
          IF found \subseteq DOMAIN TestProject.files THEN Continue(FALSE) ELSE Fails
     \/ Fails
  /\ UNCHANGED stores

\* assert_expected_schema: the tables and indexes the reference schema lists,
\* whatever its models declare.
AssertExpectedSchema ==
  /\ Playing
  /\ \/ LET actual == Captured(TestDatabase.schema)
        IN  /\ \E reference \in References :
                 /\ reference.tables \subseteq actual.tables
                 /\ reference.indexes
                      \subseteq {actual.facets[t]["indexes"] : t \in DOMAIN actual.facets}
            /\ Continue(FALSE)
     \/ Fails
  /\ UNCHANGED stores

FinishPlay ==
  /\ play.task = "playing"
  /\ play' = [play EXCEPT !.task = "passed"]
  /\ UNCHANGED stores

PlayStep ==
  \/ EditProject \/ PlayMake \/ PlayMigrate \/ PlayRollBack \/ ReverseEngineer
  \/ DiffOperations \/ AssertConverged \/ CaptureSchema \/ AssertEqual
  \/ AssertHistoryIntegrity \/ AssertExpectedSchema \/ FinishPlay

PlayEnded == play.task \in {"failed", "passed"}
-----------------------------------------------------------------------------
PlayTypeOK ==
  play \in [task: {"idle", "playing", "passed", "failed"}, commands: 0..MaxCommands,
            clickhouse: BOOLEAN, snapshot: Schemas, captured: BOOLEAN, restored: BOOLEAN]

\* Two schemas have the same tables and views, and, as far as inspection of the
\* backend reaches, the same facets of their tables.
SameStructure(s, t) ==
  /\ DOMAIN s = DOMAIN t
  /\ \A x \in DOMAIN s :
       IF play.clickhouse
       THEN \A f \in {"columns", "column_details", "table_options"} : s[x].facets[f] = t[x].facets[f]
       ELSE s[x].view = t[x].view /\ (s[x].view \/ s[x].facets = t[x].facets)

\* assert_equal that passes is right: whatever was rolled back, migrated and
\* edited since the snapshot was captured, and whether a table went or came, the
\* schema has the structure it had then.
RestoredIsTheSame ==
  play.restored => SameStructure(Shape[play.snapshot], Shape[TestDatabase.schema])
=============================================================================
