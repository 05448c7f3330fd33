------------------------- MODULE SuiteSessionProofs -------------------------
(***************************************************************************)
(* What a session keeps for every set of cases, workers, faults, tests and *)
(* bounds: its types, the isolation of its cases, the truth of what the    *)
(* drivers report, and the life of the container.                          *)
(***************************************************************************)
EXTENDS SuiteSession, CaseRunnerProofs, FiniteSetTheorems

\* The projects of a session.
Projects == [models: Schemas, config: Names, files: Seq(Schemas)]

-----------------------------------------------------------------------------
(* The outcomes of the commands, whatever the files and histories          *)

LEMMA DatabaseFields ==
  ASSUME NEW database \in Databases
  PROVE  /\ database.schema \in Schemas /\ database.history \in Seq(Schemas)
         /\ Len(database.history) \in Nat /\ database # NoDatabase
  BY LenProperties, SchemasAssumption DEF Databases

LEMMA ProjectFields ==
  ASSUME NEW project \in Projects
  PROVE  /\ project.models \in Schemas /\ project.config \in Names
         /\ project.files \in Seq(Schemas) /\ Len(project.files) \in Nat
  BY LenProperties DEF Projects

\* make-migrations keeps the files there are.
LEMMA MakeTypes ==
  ASSUME NEW project \in Projects, NEW out \in MakeOutcomes(project)
  PROVE  /\ out.code \in {0, 1} /\ out.said \in BOOLEAN /\ out.files \in Seq(Schemas)
         /\ SubSeq(out.files, 1, Len(project.files)) = project.files
<1>1. /\ project.files \in Seq(Schemas) /\ Len(project.files) \in Nat
      /\ \A s \in {project.models, Wrong} : s \in Schemas
  BY ProjectFields DEF Schemas
<1>2. /\ out.code \in {0, 1} /\ out.said \in BOOLEAN
      /\ \/ out.files = project.files
         \/ \E s \in {project.models, Wrong} : out.files = Append(project.files, s)
  BY DEF MakeOutcomes
<1>3. /\ out.files \in Seq(Schemas) /\ Len(project.files) <= Len(out.files)
      /\ \A i \in 1..Len(project.files) : out.files[i] = project.files[i]
  <2>1. CASE out.files = project.files
    BY <1>1, <2>1
  <2>2. ASSUME NEW s \in Schemas, out.files = Append(project.files, s)
        PROVE  /\ out.files \in Seq(Schemas) /\ Len(project.files) <= Len(out.files)
               /\ \A i \in 1..Len(project.files) : out.files[i] = project.files[i]
    BY <1>1, <2>2, AppendProperties
  <2> QED BY <1>1, <1>2, <2>1, <2>2
<1>4. SubSeq(out.files, 1, Len(project.files)) = project.files
  <2>1. PICK n \in Nat : n = Len(project.files)
    BY <1>1
  <2>2. \A i \in 1..n : out.files[i] \in Schemas
    BY <1>1, <1>3, <2>1, ElementOfSeq
  <2>3. /\ SubSeq(out.files, 1, n) \in Seq(Schemas)
        /\ Len(SubSeq(out.files, 1, n)) = IF 1 <= n THEN n - 1 + 1 ELSE 0
        /\ \A i \in 1..(n - 1 + 1) : SubSeq(out.files, 1, n)[i] = out.files[1 + i - 1]
    BY <1>3, <2>1, <2>2, SubSeqProperties
  <2>4. Len(SubSeq(out.files, 1, n)) = n
    BY <2>1, <2>3
  <2>5. \A i \in 1..n : SubSeq(out.files, 1, n)[i] = project.files[i]
    BY <1>3, <2>1, <2>3
  <2> QED BY <1>1, <2>1, <2>3, <2>4, <2>5, SeqEqual
<1> QED BY <1>2, <1>3, <1>4

\* Migrating plays files, were they fewer than the migrations applied.
LEMMA PlayedTypes ==
  ASSUME NEW project \in Projects, NEW database \in Databases,
         NEW n \in 0..Len(project.files), NEW out \in Played(project, database, n)
  PROVE  out \in Databases
<1>1. PICK h, files, m : h = database.history /\ files = project.files /\ m = Len(h) + 1
  OBVIOUS
<1>2. /\ files \in Seq(Schemas) /\ Len(files) \in Nat /\ n \in Int /\ n <= Len(files)
      /\ h \in Seq(Schemas) /\ Len(h) \in Nat /\ m \in Int /\ m > 0
  BY <1>1, ProjectFields, DatabaseFields
<1>3. \A i \in m..n : files[i] \in Schemas
  BY <1>1, <1>2, ElementOfSeq
<1>4. SubSeq(files, m, n) \in Seq(Schemas)
  BY <1>2, <1>3, SubSeqProperties
<1>5. /\ h \o SubSeq(files, m, n) \in Seq(Schemas)
      /\ Reached(SubSeq(files, m, n)) \in Schemas
  BY <1>2, <1>4, ConcatProperties, ReachedIsSchema
<1>6. PICK schemas :
        /\ schemas \subseteq {database.schema, Reached(SubSeq(files, m, n)), Torn}
        /\ out \in [schema: schemas, history: {h \o SubSeq(files, m, n)}]
  BY <1>1 DEF Played
<1>7. schemas \subseteq Schemas
  BY <1>5, <1>6, DatabaseFields DEF Schemas
<1> QED BY <1>5, <1>6, <1>7 DEF Databases

LEMMA MigrateTypes ==
  ASSUME NEW project \in Projects, NEW database \in Databases \cup {NoDatabase},
         NEW out \in MigrateOutcomes(project, database)
  PROVE  /\ out.code \in {0, 1} /\ out.database \in Databases \cup {NoDatabase}
         /\ database # NoDatabase => out.database \in Databases
<1>1. CASE database = NoDatabase
  BY <1>1 DEF MigrateOutcomes
<1>2. CASE database # NoDatabase
  <2>1. database \in Databases
    BY <1>2
  <2>2. PICK n \in 0..Len(project.files) : \E after \in Played(project, database, n) :
          out.code \in {0, 1} /\ out.database \in {after, [after EXCEPT !.schema = Torn]}
    <3>1. Len(project.files) \in 0..Len(project.files)
      BY ProjectFields
    <3>2. \/ out \in [code: {0}, database: Played(project, database, Len(project.files))]
          \/ \E n \in 0..Len(project.files) :
               out \in [code: {1},
                        database: Played(project, database, n)
                                  \cup {[after EXCEPT !.schema = Torn]
                                          : after \in Played(project, database, n)}]
      BY <1>2, Zenon DEF MigrateOutcomes
    <3>3. CASE out \in [code: {0}, database: Played(project, database, Len(project.files))]
      BY <3>1, <3>3
    <3>4. ASSUME NEW n \in 0..Len(project.files),
                 out \in [code: {1},
                          database: Played(project, database, n)
                                    \cup {[after EXCEPT !.schema = Torn]
                                            : after \in Played(project, database, n)}]
          PROVE  \E after \in Played(project, database, n) :
                   out.code \in {0, 1} /\ out.database \in {after, [after EXCEPT !.schema = Torn]}
      BY <3>4
    <3> QED BY <3>2, <3>3, <3>4
  <2>3. PICK after \in Databases :
          out.code \in {0, 1} /\ out.database \in {after, [after EXCEPT !.schema = Torn]}
    BY <2>1, <2>2, PlayedTypes
  <2>4. [after EXCEPT !.schema = Torn] \in Databases
    BY DEF Databases, Schemas
  <2> QED BY <2>3, <2>4
<1> QED BY <1>1, <1>2

LEMMA RollbackTypes ==
  ASSUME NEW database \in Databases \cup {NoDatabase}, NEW count \in Nat,
         NEW out \in RollbackOutcomes(database, count)
  PROVE  /\ out.code \in {0, 1} /\ out.database \in Databases \cup {NoDatabase}
         /\ database # NoDatabase => out.database \in Databases
<1>1. CASE database = NoDatabase
  BY <1>1 DEF RollbackOutcomes
<1>2. CASE database # NoDatabase
  <2>1. /\ database \in Databases /\ database.schema \in Schemas
        /\ database.history \in Seq(Schemas) /\ Len(database.history) \in Nat
    BY <1>2, DatabaseFields
  <2>2. PICK h : h = database.history
    OBVIOUS
  <2>3. PICK k \in Nat : /\ k <= Len(h)
                         /\ out.code \in {0, 1}
                         /\ out.database.schema
                              \in {Torn, IF k = 0 THEN database.schema
                                         ELSE Reached(SubSeq(h, 1, Len(h) - k))}
                         /\ out.database.history = SubSeq(h, 1, Len(h) - k)
                         /\ out.database = [schema  |-> out.database.schema,
                                            history |-> out.database.history]
    BY <1>2, <2>2 DEF RollbackOutcomes
  <2>4. /\ SubSeq(h, 1, Len(h) - k) \in Seq(Schemas)
        /\ Reached(SubSeq(h, 1, Len(h) - k)) \in Schemas
    <3>1. Len(h) - k \in Int /\ \A i \in 1..(Len(h) - k) : h[i] \in Schemas
      BY <2>1, <2>2, <2>3, ElementOfSeq
    <3>2. SubSeq(h, 1, Len(h) - k) \in Seq(Schemas)
      BY <3>1, SubSeqProperties
    <3> QED BY <3>2, ReachedIsSchema
  <2>5. out.database.schema \in Schemas
    BY <2>1, <2>3, <2>4 DEF Schemas
  <2>6. out.database \in Databases
    BY <2>3, <2>4, <2>5 DEF Databases
  <2> QED BY <2>3, <2>6
<1> QED BY <1>1, <1>2

Diffs == [code: {0, 1}, json: BOOLEAN, differs: BOOLEAN, stderr: BOOLEAN]

LEMMA DiffTypes ==
  ASSUME NEW models, NEW database, NEW err \in BOOLEAN,
         NEW out \in DiffOutcomes(models, database, err)
  PROVE  out \in Diffs
<1>1. FailedDiff \in Diffs
  BY DEF FailedDiff, Diffs
<1>2. (models # database.schema) \in BOOLEAN
  OBVIOUS
<1>3. [code: {0}, json: {TRUE}, differs: {models # database.schema}, stderr: BOOLEAN]
        \subseteq Diffs
  BY <1>2 DEF Diffs
<1>4. [code: {0}, json: BOOLEAN, differs: BOOLEAN, stderr: BOOLEAN] \subseteq Diffs
  BY DEF Diffs
<1>5. \/ out = FailedDiff
      \/ out \in [code: {0}, json: {TRUE}, differs: {models # database.schema}, stderr: BOOLEAN]
      \/ out \in [code: {0}, json: BOOLEAN, differs: BOOLEAN, stderr: BOOLEAN]
  BY Zenon DEF DiffOutcomes
<1> QED BY <1>1, <1>3, <1>4, <1>5

LEMMA GenerateTypes ==
  ASSUME NEW database \in Databases \cup {NoDatabase}, NEW out \in GenerateOutcomes(database)
  PROVE  /\ out.code \in {0, 1} /\ out.models \in Schemas
         /\ out.files \in SUBSET {"init", "models", "bookkeeping"}
<1>1. CASE out = [code |-> 1, files |-> {}, models |-> NoModels]
  BY <1>1 DEF Schemas
<1>2. CASE out # [code |-> 1, files |-> {}, models |-> NoModels]
  <2>1. /\ database \in Databases
        /\ out \in [code: {0, 1}, models: {database.schema, Torn, Wrong},
                    files: {{"init"}, {"init", "models"}, {"init", "models", "bookkeeping"}}]
    BY <1>2 DEF GenerateOutcomes
  <2> QED BY <2>1, DatabaseFields DEF Schemas
<1> QED BY <1>1, <1>2


-----------------------------------------------------------------------------
(* Snapshots                                                               *)

\* Without drift two snapshots have the same tables, views and facets.
LEMMA DriftFree ==
  ASSUME NEW expected, NEW actual, Drift(expected, actual) = {}
  PROVE  /\ expected.tables = actual.tables /\ expected.views = actual.views
         /\ \A t \in DOMAIN expected.facets \cup DOMAIN actual.facets : \A f \in Facets :
              /\ t \in DOMAIN expected.facets \cap DOMAIN actual.facets
              /\ expected.facets[t][f] = actual.facets[t][f]
<1>1. ListDrift("tables", expected.tables, actual.tables) = {}
  BY DEF Drift
<1>2. ListDrift("views", expected.views, actual.views) = {}
  BY DEF Drift
<1>3. ASSUME NEW t \in DOMAIN expected.facets \cup DOMAIN actual.facets, NEW f \in Facets
      PROVE  /\ t \in DOMAIN expected.facets \cap DOMAIN actual.facets
             /\ expected.facets[t][f] = actual.facets[t][f]
  <2>1. <<f, t>> \in Facets \X (DOMAIN expected.facets \cup DOMAIN actual.facets)
    OBVIOUS
  <2> QED BY <2>1 DEF Drift
<1> QED BY <1>1, <1>2, <1>3 DEF ListDrift

\* What capture keeps is enough to tell two structures apart.
LEMMA DriftFreeIsSame ==
  ASSUME NEW s \in Schemas, NEW t \in Schemas, play.clickhouse \in BOOLEAN,
         Drift(Captured(s), Captured(t)) = {}
  PROVE  SameStructure(Shape[s], Shape[t])
<1> DEFINE left == Shape[s]
           right == Shape[t]
<1>1. /\ \A x \in DOMAIN left : left[x] \in [view: BOOLEAN, facets: [Facets -> Nat]]
      /\ \A x \in DOMAIN right : right[x] \in [view: BOOLEAN, facets: [Facets -> Nat]]
  BY PlayerAssumption
<1> HIDE DEF left, right
<1>2. CASE play.clickhouse
  <2>1. PICK e, a : e = CaptureClickHouse(left) /\ a = CaptureClickHouse(right)
    OBVIOUS
  <2>2. /\ e.tables = DOMAIN left /\ a.tables = DOMAIN right
        /\ DOMAIN e.facets = DOMAIN left /\ DOMAIN a.facets = DOMAIN right
        /\ \A x \in DOMAIN left : \A f \in {"columns", "column_details", "table_options"} :
             e.facets[x][f] = left[x].facets[f]
        /\ \A x \in DOMAIN right : \A f \in {"columns", "column_details", "table_options"} :
             a.facets[x][f] = right[x].facets[f]
    BY <2>1 DEF CaptureClickHouse, Facets
  <2>3. Drift(e, a) = {}
    BY <1>2, <2>1 DEF Captured, left, right
  <2>4. /\ e.tables = a.tables
        /\ \A x \in DOMAIN e.facets : \A f \in Facets : e.facets[x][f] = a.facets[x][f]
    BY <2>3, DriftFree
  <2>5. {"columns", "column_details", "table_options"} \subseteq Facets
    BY DEF Facets
  <2>6. SameStructure(left, right)
    BY <1>2, <2>2, <2>4, <2>5 DEF SameStructure
  <2> QED BY <2>6 DEF left, right
<1>3. CASE ~play.clickhouse
  <2>1. PICK e, a : e = CaptureSql(left) /\ a = CaptureSql(right)
    OBVIOUS
  <2>2. /\ e.tables = {x \in DOMAIN left : ~left[x].view}
        /\ e.views = {x \in DOMAIN left : left[x].view}
        /\ a.tables = {x \in DOMAIN right : ~right[x].view}
        /\ a.views = {x \in DOMAIN right : right[x].view}
        /\ DOMAIN e.facets = e.tables /\ DOMAIN a.facets = a.tables
        /\ \A x \in e.tables : e.facets[x] = left[x].facets
        /\ \A x \in a.tables : a.facets[x] = right[x].facets
    BY <2>1 DEF CaptureSql
  <2>3. Drift(e, a) = {}
    BY <1>3, <2>1 DEF Captured, left, right
  <2>4. /\ e.tables = a.tables /\ e.views = a.views
        /\ \A x \in DOMAIN e.facets : \A f \in Facets : e.facets[x][f] = a.facets[x][f]
    BY <2>3, DriftFree
  <2>5. DOMAIN left = e.tables \cup e.views /\ DOMAIN right = a.tables \cup a.views
    BY <2>2
  <2>6. ASSUME NEW x \in DOMAIN left
        PROVE  left[x].view = right[x].view /\ (left[x].view \/ left[x].facets = right[x].facets)
    <3>1. x \in DOMAIN right
      BY <2>4, <2>5
    <3>2. left[x].view \in BOOLEAN /\ right[x].view \in BOOLEAN
      BY <1>1, <3>1
    <3>3. left[x].view <=> right[x].view
      BY <2>2, <2>4, <3>1
    <3>4. ASSUME ~left[x].view PROVE left[x].facets = right[x].facets
      <4>1. x \in e.tables /\ x \in a.tables
        BY <2>2, <2>4, <3>4
      <4>2. e.facets[x] \in [Facets -> Nat] /\ a.facets[x] \in [Facets -> Nat]
        BY <1>1, <2>2, <3>1, <4>1
      <4>3. e.facets[x] = a.facets[x]
        BY <2>2, <2>4, <4>1, <4>2
      <4> QED BY <2>2, <4>1, <4>3
    <3> QED BY <3>2, <3>3, <3>4
  <2>7. SameStructure(left, right)
    BY <1>3, <2>4, <2>5, <2>6 DEF SameStructure
  <2> QED BY <2>7 DEF left, right
<1> QED BY <1>2, <1>3

-----------------------------------------------------------------------------
(* The inductive invariant                                                 *)

StoreTypes ==
  /\ projects \in [Directories \cup {ShapeDir, PlayDir} -> Projects \cup {NoProject}]
  /\ databases \in [Names -> Databases \cup {NoDatabase}]

SessionTypes ==
  session \in
    [at: {"setup", "start", "start in try", "serving", "matrix", "trip", "play", "teardown",
          "over", "error"},
     tests: Seq({"matrix", "trip", "play"}), external: BOOLEAN]

\* A driver that does not run a test has nothing of one.
Resting ==
  /\ session.at # "matrix" => job = [c \in Cases |-> NewJob("idle")]
  /\ session.at # "trip" => trip = NewTrip("idle")
  /\ session.at # "play" => play = NewPlay("idle", FALSE)

\* A migrate that succeeded left the schema the files lead to.
MigratedTo(files) ==
  trip.migrateCode = 0 => Database # NoDatabase /\ Database.schema = Reached(files)

\* A database that was dropped is empty, or not there, until migrate is run, and
\* then what the first migration files made it.
TripDatabaseAt ==
  /\ trip.task \in {"declare", "make", "migrate"} => Database \in {EmptyDatabase, NoDatabase}
  /\ trip.task \in {"generate", "adopt", "rediff", "remake"} => MigratedTo(Project.files)
  /\ trip.task = "done" => MigratedTo(SubSeq(Project.files, 1, trip.before))

\* The models in app/ are the generated ones from Adopt on.
TripAt ==
  /\ trip.task \notin {"idle", "raised"} => Project \in Projects
  /\ trip.task \in {"rediff", "remake", "done"} => Project.models = trip.generated
  /\ ~trip.stale => TripDatabaseAt

\* A test of the player has a project and a database.
PlayAt ==
  /\ play.task # "idle" => TestProject \in Projects /\ TestDatabase \in Databases
  /\ RestoredIsTheSame

\* The provider has its container exactly while there is one, and there is one
\* that answers while tests run without a server of their own.
ServerAt ==
  /\ server.held <=> server.container # "absent"
  /\ session.external \/ session.at = "setup" => server.container = "absent"
  /\ session.at \in {"serving", "matrix", "trip", "play"} =>
       session.external \/ server.container = "ready"
  /\ LeftRunningIsExplained

DriversInv ==
  StoreTypes /\ CaseTypeOK /\ TripTypeOK /\ PlayTypeOK /\ CaseInv /\ TripAt /\ PlayAt

IInv == DriversInv /\ ServerTypeOK /\ SessionTypes /\ Resting /\ ServerAt

Rest(task) == [c \in Cases |-> NewJob(task)]

\* The directory and the database of every case have a place.
LEMMA PlacedStores ==
  ASSUME StoreTypes, job \in [Cases -> Job]
  PROVE  Placed
  BY DEF StoreTypes, Placed, Names

LEMMA JobTypes == CaseTypeOK => job \in [Cases -> Job]
  BY DEF CaseTypeOK, Job

\* Cases that rest are typed, keep the invariant, and none of them runs.
LEMMA RestingCases ==
  StoreTypes /\ (job = Rest("idle") \/ job = Rest("queued")) => CaseTypeOK /\ CaseInv
<1> SUFFICES ASSUME StoreTypes, NEW task \in {"idle", "queued"}, job = Rest(task)
             PROVE  CaseTypeOK /\ CaseInv
  OBVIOUS
<1>1. NewJob(task) \in Job
  BY DEF NewJob, Job, NoStep, Tasks
<1>2. \A c \in Cases : job[c] = NewJob(task) /\ job[c].task = task /\ job[c].revision = 0
  BY DEF Rest, NewJob
<1>3. Running = {}
  BY <1>2 DEF Running
<1>4. Cardinality(Running) <= Workers
  BY <1>3, FS_EmptySet, CasesAssumption
<1>5. \A c \in Cases : job[c].revision <= Len(c.revisions)
  BY <1>2, CaseFields
<1>6. job \in [Cases -> Job]
  BY <1>1 DEF Rest
<1>7. CaseInv
  BY <1>2, <1>6, PlacedStores, RestingInv
<1> QED BY <1>4, <1>5, <1>6, <1>7 DEF CaseTypeOK, Job

\* The same of the next state.
LEMMA RestingCasesNext ==
  StoreTypes' /\ (job' = Rest("idle") \/ job' = Rest("queued")) => CaseTypeOK' /\ CaseInv'
<1>1. (StoreTypes /\ (job = Rest("idle") \/ job = Rest("queued")) => CaseTypeOK /\ CaseInv)'
  BY RestingCases, PTL
<1> QED BY <1>1 DEF Rest, NewJob, NoStep

\* Tests at rest are typed.
LEMMA NewTypes ==
  /\ \A task \in TripTasks : NewTrip(task) \in
       [task: TripTasks, makeCode: {0, 1}, migrateCode: {0, 1}, generateCode: {0, 1},
        files: SUBSET {"init", "models", "bookkeeping"}, generated: Schemas,
        rediff: Diffs, before: Nat, created: BOOLEAN, stale: BOOLEAN]
  /\ \A task \in {"idle", "playing"}, clickhouse \in BOOLEAN : NewPlay(task, clickhouse) \in
       [task: {"idle", "playing", "passed", "failed"}, commands: 0..MaxCommands,
        clickhouse: BOOLEAN, snapshot: Schemas, captured: BOOLEAN, restored: BOOLEAN]
<1>1. 0 \in 0..MaxCommands
  BY PlayerAssumption
<1> QED BY <1>1 DEF NewTrip, NoDiff, Diffs, NewPlay, Schemas, TripTasks

LEMMA InitIInv == Init => IInv
<1> SUFFICES ASSUME Init PROVE IInv
  OBVIOUS
<1>1. /\ job = Rest("idle") /\ trip = NewTrip("idle") /\ play = NewPlay("idle", FALSE)
      /\ server = [container |-> "absent", held |-> FALSE, failed |-> {}]
  BY DEF Init, CaseInit, TripInit, PlayInit, ServerInit, Rest
<1>2. SessionTypes /\ session.at = "setup"
  BY SessionAssumption DEF Init, SessionTypes
<1>3. StoreTypes
  <2>1. PICK leftover \in Databases :
          databases = [name \in Names |->
                         IF session.external /\ OnServer(name) THEN leftover ELSE NoDatabase]
    BY SessionAssumption DEF Init
  <2> QED BY <2>1 DEF Init, StoreTypes
<1>4. CaseTypeOK /\ CaseInv
  BY <1>1, <1>3, RestingCases
<1>5. TripTypeOK /\ TripAt
  <2>1. trip.task = "idle"
    BY <1>1 DEF NewTrip
  <2>2. "idle" \in TripTasks
    BY DEF TripTasks
  <2> QED BY <1>1, <2>1, <2>2, NewTypes DEF TripTypeOK, TripAt, TripDatabaseAt, Diffs
<1>6. PlayTypeOK /\ PlayAt
  <2>1. play.task = "idle" /\ ~play.restored
    BY <1>1 DEF NewPlay
  <2> QED BY <1>1, <2>1, NewTypes DEF PlayTypeOK, PlayAt, RestoredIsTheSame
<1>7. ServerTypeOK /\ ServerAt
  BY <1>1, <1>2 DEF ServerTypeOK, ServerAt, LeftRunningIsExplained
<1>8. Resting
  BY <1>1 DEF Resting, Rest
<1> QED BY <1>2, <1>3, <1>4, <1>5, <1>6, <1>7, <1>8 DEF IInv, DriversInv

-----------------------------------------------------------------------------
(* The session and the container                                           *)

USE DEF drivers, stores

\* A step that leaves the drivers and the stores alone keeps what is about them.
LEMMA DriversUnchanged ==
  ASSUME DriversInv, UNCHANGED <<stores, drivers>>
  PROVE  DriversInv'
<1>1. StoreTypes' /\ TripTypeOK' /\ PlayTypeOK'
  BY DEF DriversInv, StoreTypes, TripTypeOK, PlayTypeOK
<1>2. Running' = Running
  BY DEF Running
<1>3. CaseTypeOK'
  BY <1>2 DEF DriversInv, CaseTypeOK
<1>4. CaseInv'
  <2>1. Placed'
    BY DEF DriversInv, CaseInv, Placed
  <2>2. ASSUME NEW c \in Cases PROVE CaseAt(c)'
    <3>1. /\ RolledBack(c)' <=> RolledBack(c)
          /\ Standing(c)' <=> Standing(c)
          /\ Written(c)' = Written(c)
      BY DEF RolledBack, Standing, Written
    <3>2. CaseAt(c)
      BY DEF DriversInv, CaseInv
    <3>3. TaskAt(c)' /\ ProjectAt(c)'
      BY <3>1, <3>2 DEF CaseAt, TaskAt, ProjectAt
    <3>4. DatabaseAt(c)' /\ AppliedAt(c)'
      BY <3>1, <3>2 DEF CaseAt, DatabaseAt, AppliedAt
    <3> QED BY <3>3, <3>4 DEF CaseAt
  <2> QED BY <2>1, <2>2 DEF CaseInv
<1>5. TripAt'
  BY DEF DriversInv, TripAt, TripDatabaseAt, MigratedTo, Project, Database
<1>6. PlayAt'
  <2>1. RestoredIsTheSame'
    BY DEF DriversInv, PlayAt, RestoredIsTheSame, SameStructure, TestDatabase
  <2> QED BY <2>1 DEF DriversInv, PlayAt, TestProject, TestDatabase
<1> QED BY <1>1, <1>3, <1>4, <1>5, <1>6 DEF DriversInv

\* The session's own steps.
LEMMA ServerStep ==
  ASSUME IInv, [Next]_vars
  PROVE  ServerTypeOK' /\ SessionTypes' /\ ServerAt'
<1> USE DEF ServerTypeOK, SessionTypes, ServerAt, LeftRunningIsExplained, GoTo
<1>1. ServerTypeOK /\ SessionTypes /\ ServerAt
  BY DEF IInv
<1>2. CASE SetUp
  <2>1. CASE session.external /\ GoTo("serving") /\ UNCHANGED server
    BY <1>1, <1>2, <2>1 DEF SetUp
  <2>2. CASE ~session.external /\ Launch /\ (GoTo("start") \/ GoTo("start in try"))
    BY <1>1, <1>2, <2>2 DEF SetUp, Launch
  <2>3. CASE ~session.external /\ LaunchFails /\ GoTo("error")
    BY <1>1, <1>2, <2>3 DEF SetUp, LaunchFails, ServerFails
  <2> QED BY <1>2, <2>1, <2>2, <2>3 DEF SetUp
<1>3. CASE ServerBoots
  BY <1>1, <1>3 DEF ServerBoots, Boot
<1>4. CASE Wait
  <2>1. CASE Connected /\ GoTo("serving")
    BY <1>1, <1>4, <2>1 DEF Wait, Connected
  <2>2. CASE NotConnected /\ GoTo(IF session.at = "start" THEN "error" ELSE "teardown")
    BY <1>1, <1>4, <2>2 DEF Wait, NotConnected, ServerFails
  <2> QED BY <1>4, <2>1, <2>2 DEF Wait
<1>5. CASE StartTest
  <2>1. /\ Head(session.tests) \in {"matrix", "trip", "play"}
        /\ Tail(session.tests) \in Seq({"matrix", "trip", "play"})
    BY <1>1, <1>5, HeadTailProperties DEF StartTest
  <2> QED BY <1>1, <1>5, <2>1 DEF StartTest
<1>6. CASE RunCase \/ RunTrip \/ RunPlay
  BY <1>1, <1>6 DEF RunCase, RunTrip, RunPlay
<1>7. CASE EndTest
  BY <1>1, <1>7 DEF EndTest
<1>8. CASE EndSession
  BY <1>1, <1>8 DEF EndSession
<1>9. CASE TearDown
  <2>1. CASE Stop
    BY <1>1, <1>9, <2>1 DEF TearDown, Stop
  <2>2. CASE StopFails
    BY <1>1, <1>9, <2>2 DEF TearDown, StopFails, ServerFails
  <2> QED BY <1>9, <2>1, <2>2 DEF TearDown
<1>10. CASE UNCHANGED vars
  BY <1>1, <1>10 DEF vars
<1> QED
  BY <1>2, <1>3, <1>4, <1>5, <1>6, <1>7, <1>8, <1>9, <1>10 DEF Next, Progress, Finished


-----------------------------------------------------------------------------
(* The steps of the cases                                                  *)

\* Replacing a project or a database by another keeps the types.
LEMMA StoredProject ==
  ASSUME StoreTypes, NEW dir, NEW project \in Projects,
         projects' = [projects EXCEPT ![dir] = project]
  PROVE  projects' \in [Directories \cup {ShapeDir, PlayDir} -> Projects \cup {NoProject}]
  BY DEF StoreTypes

LEMMA StoredDatabase ==
  ASSUME StoreTypes, NEW name, NEW database \in Databases \cup {NoDatabase},
         databases' = [databases EXCEPT ![name] = database]
  PROVE  databases' \in [Names -> Databases \cup {NoDatabase}]
  BY DEF StoreTypes

LEMMA EmptyTypes == EmptyProject \in Projects /\ EmptyDatabase \in Databases
  BY EmptySeq DEF EmptyProject, EmptyDatabase, Projects, Databases, Schemas, Names

\* The project of a case at work is a project.
LEMMA WorkTypes ==
  ASSUME CaseInv, NEW c \in Cases, job[c].task \in AtWork \cup {"init"}
  PROVE  /\ projects[WorkDir(c)] \in Projects /\ DatabaseOf(c) \in Names
         /\ job[c].task # "init" => projects[WorkDir(c)].config = DatabaseOf(c)
<1>1. DatabaseOf(c) \in Names
  BY DEF Names, CaseDatabases
<1>2. CASE job[c].task = "init"
  BY <1>1, <1>2, EmptyTypes DEF CaseInv, CaseAt, ProjectAt
<1>3. CASE job[c].task \in AtWork
  <2>1. PICK files \in Seq(Targets(c)) :
          projects[WorkDir(c)] = [models |-> Written(c), config |-> DatabaseOf(c), files |-> files]
    BY <1>3 DEF CaseInv, CaseAt, ProjectAt, ProjectsOf
  <2>2. Targets(c) \subseteq Schemas
    BY CaseFields
  <2>3. files \in Seq(Schemas)
    BY <2>2, SeqMonotonic
  <2>4. Written(c) \in Schemas
    <3>1. /\ job[c].revision \in Nat /\ job[c].revision <= Len(c.revisions)
          /\ job[c].task = "make" => job[c].revision < Len(c.revisions)
      BY DEF CaseInv, CaseAt, TaskAt, Placed, Job
    <3>2. Len(c.revisions) \in Nat /\ \A i \in 1..Len(c.revisions) : c.revisions[i] \in Schemas
      BY <2>2, CaseFields
    <3>3. PICK r \in 0..Len(c.revisions) :
            r = IF job[c].task = "make" THEN job[c].revision + 1 ELSE job[c].revision
      BY <3>1, <3>2
    <3>4. Written(c) = IF r = 0 THEN NoModels ELSE c.revisions[r]
      BY <3>3 DEF Written
    <3>5. CASE r = 0
      BY <3>4, <3>5 DEF Schemas
    <3>6. CASE r # 0
      <4>1. r \in 1..Len(c.revisions)
        BY <3>2, <3>6
      <4> QED BY <3>2, <3>4, <3>6, <4>1
    <3> QED BY <3>5, <3>6
  <2> QED BY <1>1, <2>1, <2>3, <2>4 DEF Projects
<1> QED BY <1>1, <1>2, <1>3

\* A step of a case keeps the types of the stores.
LEMMA CaseStores ==
  ASSUME StoreTypes, CaseInv, NEW c \in Cases, CaseStep(c)
  PROVE  StoreTypes'
<1>1. databases[DatabaseOf(c)] \in Databases \cup {NoDatabase}
  BY DEF StoreTypes, Names, CaseDatabases
<1>2. CASE Take(c)
  BY <1>2 DEF Take, StoreTypes
<1>3. CASE MakeDirectory(c)
  <2>1. CASE UNCHANGED stores
    BY <2>1 DEF StoreTypes
  <2>2. CASE /\ projects' = [projects EXCEPT ![WorkDir(c)] = EmptyProject]
             /\ UNCHANGED databases
    BY <2>2, EmptyTypes, StoredProject DEF StoreTypes
  <2>3. CASE /\ projects' = [projects EXCEPT ![WorkDir(c)] = EmptyProject]
             /\ databases' = [databases EXCEPT ![DatabaseOf(c)] = EmptyDatabase]
    BY <2>3, EmptyTypes, StoredProject, StoredDatabase DEF StoreTypes
  <2> QED BY <1>3, <2>1, <2>2, <2>3 DEF MakeDirectory
<1>4. CASE DropDatabase(c)
  <2>1. UNCHANGED projects
    BY <1>4 DEF DropDatabase
  <2>2. databases' = databases \/ databases' = [databases EXCEPT ![DatabaseOf(c)] = NoDatabase]
    BY <1>4 DEF DropDatabase
  <2> QED BY <2>1, <2>2, StoredDatabase DEF StoreTypes
<1>5. CASE CreateDatabase(c)
  <2>1. UNCHANGED projects
    BY <1>5 DEF CreateDatabase
  <2>2. \/ databases' = databases
        \/ databases' = [databases EXCEPT ![DatabaseOf(c)] = EmptyDatabase]
    BY <1>5 DEF CreateDatabase
  <2> QED BY <2>1, <2>2, EmptyTypes, StoredDatabase DEF StoreTypes
<1>6. CASE InitProject(c)
  <2>1. projects[WorkDir(c)] \in Projects /\ DatabaseOf(c) \in Names /\ UNCHANGED databases
    BY <1>6, WorkTypes DEF InitProject
  <2>2. \/ projects' = projects
        \/ projects' = [projects EXCEPT ![WorkDir(c)].config = DatabaseOf(c)]
    BY <1>6 DEF InitProject
  <2>3. [projects[WorkDir(c)] EXCEPT !.config = DatabaseOf(c)] \in Projects
    BY <2>1 DEF Projects
  <2> QED BY <2>1, <2>2, <2>3, StoredProject DEF StoreTypes
<1>7. CASE WriteRevision(c)
  <2>1. projects[WorkDir(c)] \in Projects /\ UNCHANGED databases
    BY <1>7, WorkTypes DEF WriteRevision, AtWork
  <2>2. c.revisions[job[c].revision + 1] \in Schemas
    <3>1. /\ job[c].revision \in Nat /\ job[c].revision < Len(c.revisions)
      BY <1>7 DEF WriteRevision, CaseInv, CaseAt, TaskAt, Placed, Job
    <3>2. job[c].revision + 1 \in 1..Len(c.revisions)
      BY <3>1, CaseFields
    <3> QED BY <3>2, CaseFields DEF Schemas
  <2>3. [projects[WorkDir(c)] EXCEPT !.models = c.revisions[job[c].revision + 1]] \in Projects
    BY <2>1, <2>2 DEF Projects
  <2> QED BY <1>7, <2>1, <2>3, StoredProject DEF WriteRevision, StoreTypes
<1>8. CASE MakeMigrations(c)
  <2>1. projects[WorkDir(c)] \in Projects /\ UNCHANGED databases
    BY <1>8, WorkTypes DEF MakeMigrations, AtWork
  <2>2. PICK out \in MakeOutcomes(projects[WorkDir(c)]) :
          projects' = [projects EXCEPT ![WorkDir(c)].files = out.files]
    BY <1>8 DEF MakeMigrations
  <2>3. [projects[WorkDir(c)] EXCEPT !.files = out.files] \in Projects
    BY <2>1, MakeTypes DEF Projects
  <2> QED BY <2>1, <2>2, <2>3, StoredProject DEF StoreTypes
<1>9. CASE Migrate(c)
  <2>1. /\ projects[WorkDir(c)] \in Projects /\ projects[WorkDir(c)].config = DatabaseOf(c)
        /\ UNCHANGED projects
    BY <1>9, WorkTypes DEF Migrate, AtWork
  <2>2. PICK out \in MigrateOutcomes(projects[WorkDir(c)], databases[DatabaseOf(c)]) :
          databases' = [databases EXCEPT ![DatabaseOf(c)] = out.database]
    BY <1>9, <2>1 DEF Migrate
  <2>3. out.database \in Databases \cup {NoDatabase}
    BY <1>1, <2>1, MigrateTypes
  <2> QED BY <2>1, <2>2, <2>3, StoredDatabase DEF StoreTypes
<1>10. CASE RollBack(c)
  <2>1. projects[WorkDir(c)].config = DatabaseOf(c) /\ UNCHANGED projects /\ c.rollback \in Nat
    BY <1>10, WorkTypes, CaseFields DEF RollBack, AtWork
  <2>2. PICK out \in RollbackOutcomes(databases[DatabaseOf(c)], c.rollback) :
          databases' = [databases EXCEPT ![DatabaseOf(c)] = out.database]
    BY <1>10, <2>1 DEF RollBack
  <2>3. out.database \in Databases \cup {NoDatabase}
    BY <1>1, <2>1, RollbackTypes
  <2> QED BY <2>1, <2>2, <2>3, StoredDatabase DEF StoreTypes
<1>11. CASE Capture(c)
  BY <1>11 DEF Capture, StoreTypes
<1> QED
  BY <1>2, <1>3, <1>4, <1>5, <1>6, <1>7, <1>8, <1>9, <1>10, <1>11 DEF CaseStep

\* No more cases run than there are workers.
LEMMA CaseWorkers ==
  ASSUME CaseTypeOK, CaseInv, NEW c \in Cases, CaseStep(c)
  PROVE  Cardinality(Running') <= Workers
<1>1. Kept(c)
  BY TakeKeeps, MakeDirectoryKeeps, DropDatabaseKeeps, CreateDatabaseKeeps, InitProjectKeeps,
     WriteRevisionKeeps, MakeMigrationsKeeps, MigrateStepKeeps, RollBackKeeps, CaptureKeeps
     DEF CaseStep
<1>2. \A d \in Cases \ {c} : job'[d] = job[d]
  BY <1>1 DEF Kept, Others
<1>3. IsFiniteSet(Running) /\ Cardinality(Running) \in Nat /\ Workers \in Nat
  <2>1. Running \in SUBSET Cases
    BY DEF Running
  <2> QED BY <2>1, CasesAssumption, FS_Subset, FS_CardinalityType
<1>4. CASE Take(c)
  <2>1. Running' \subseteq Running \cup {c}
    BY <1>2 DEF Running
  <2>2. Cardinality(Running) < Workers
    BY <1>4 DEF Take
  <2>3. /\ IsFiniteSet(Running \cup {c})
        /\ Cardinality(Running \cup {c}) = Cardinality(Running) + 1
    <3>1. c \notin Running
      BY <1>4 DEF Take, Running
    <3> QED BY <1>3, <3>1, FS_AddElement
  <2>4. Cardinality(Running') <= Cardinality(Running \cup {c})
    BY <2>1, <2>3, FS_Subset
  <2>5. Cardinality(Running') \in Nat /\ Cardinality(Running \cup {c}) \in Nat
    BY <2>1, <2>3, FS_Subset, FS_CardinalityType
  <2> QED BY <1>3, <2>2, <2>3, <2>4, <2>5
<1>5. CASE ~Take(c)
  <2>1. c \in Running
    BY <1>5 DEF CaseStep, Running, MakeDirectory, DropDatabase, CreateDatabase, InitProject,
                WriteRevision, MakeMigrations, Migrate, RollBack, Capture
  <2>2. Running' \subseteq Running
    BY <1>2, <2>1 DEF Running
  <2>3. Cardinality(Running') <= Cardinality(Running) /\ Cardinality(Running') \in Nat
    BY <1>3, <2>2, FS_Subset, FS_CardinalityType
  <2>4. Cardinality(Running) <= Workers
    BY DEF CaseTypeOK
  <2> QED BY <1>3, <2>3, <2>4
<1> QED BY <1>4, <1>5

LEMMA CaseTypes ==
  ASSUME CaseTypeOK, CaseInv, NEW c \in Cases, CaseStep(c)
  PROVE  CaseTypeOK' /\ CaseInv'
<1>1. CaseInv'
  BY CaseStepKeeps
<1>2. job' \in [Cases -> Job] /\ \A d \in Cases : job'[d].revision <= Len(d.revisions)
  BY <1>1 DEF CaseInv, Placed, CaseAt, TaskAt
<1> QED BY <1>1, <1>2, CaseWorkers DEF CaseTypeOK, Job


-----------------------------------------------------------------------------
(* The steps of the round trip                                             *)

TripTypes ==
  [task: TripTasks, makeCode: {0, 1}, migrateCode: {0, 1}, generateCode: {0, 1},
   files: SUBSET {"init", "models", "bookkeeping"}, generated: Schemas, rediff: Diffs,
   before: Nat, created: BOOLEAN, stale: BOOLEAN]

\* A round trip with nothing to say of its database.
LEMMA TripBegins ==
  ASSUME trip'.task \in {"idle", "prepare", "raised"},
         trip'.task = "prepare" => Project' \in Projects
  PROVE  TripAt'
  BY DEF TripAt, TripDatabaseAt

\* An exception leaves nothing to say of the round trip.
LEMMA TripRaised ==
  ASSUME trip \in TripTypes, trip' = [trip EXCEPT !.task = "raised"]
  PROVE  trip' \in TripTypes /\ TripAt'
<1>1. trip' \in TripTypes /\ trip'.task = "raised"
  BY DEF TripTypes, TripTasks
<1> QED BY <1>1, TripBegins

LEMMA StartTripKeeps ==
  ASSUME StoreTypes, StartTrip
  PROVE  StoreTypes' /\ trip' \in TripTypes /\ TripAt'
<1>1. CASE projects' = [projects EXCEPT ![ShapeDir] = EmptyProject] /\ trip' = NewTrip("prepare")
  <2>1. StoreTypes'
    BY <1>1, EmptyTypes, StoredProject DEF StartTrip, StoreTypes
  <2>2. Project' = EmptyProject
    BY <1>1 DEF Project, StoreTypes
  <2>3. trip' \in TripTypes /\ trip'.task = "prepare"
    <3>1. "prepare" \in TripTasks
      BY DEF TripTasks
    <3> QED BY <1>1, <3>1, NewTypes DEF TripTypes, NewTrip
  <2> QED BY <2>1, <2>2, <2>3, EmptyTypes, TripBegins
<1>2. CASE trip' = NewTrip("raised") /\ UNCHANGED projects
  <2>1. trip' \in TripTypes /\ trip'.task = "raised"
    <3>1. "raised" \in TripTasks
      BY DEF TripTasks
    <3> QED BY <1>2, <3>1, NewTypes DEF TripTypes, NewTrip
  <2> QED BY <1>2, <2>1, TripBegins DEF StartTrip, StoreTypes
<1> QED BY <1>1, <1>2 DEF StartTrip

\* A step on the project alone.
LEMMA TripProject ==
  ASSUME StoreTypes, NEW project \in Projects, UNCHANGED databases,
         projects' = [projects EXCEPT ![ShapeDir] = project]
  PROVE  StoreTypes' /\ Project' = project /\ Database' = Database
  BY StoredProject DEF StoreTypes, Project, Database

\* A step on the database alone.
LEMMA TripDatabase ==
  ASSUME StoreTypes, NEW database \in Databases \cup {NoDatabase}, UNCHANGED projects,
         databases' = [databases EXCEPT ![ShapeDatabase] = database]
  PROVE  StoreTypes' /\ Project' = Project /\ Database' = database
<1>1. ShapeDatabase \in Names
  BY DEF Names
<1> QED BY <1>1, StoredDatabase DEF StoreTypes, Project, Database

\* The kept steps, of a round trip that is typed.
TripKept == StoreTypes' /\ trip' \in TripTypes /\ TripAt'

LEMMA PrepareDatabaseKeeps ==
  ASSUME StoreTypes, trip \in TripTypes, TripAt, PrepareDatabase
  PROVE  TripKept
<1>1. Database \in Databases \cup {NoDatabase} /\ Project \in Projects
  BY DEF StoreTypes, Names, Database, PrepareDatabase, TripAt
<1>2. PICK database \in Databases \cup {NoDatabase}, stale \in BOOLEAN :
        /\ databases' = [databases EXCEPT ![ShapeDatabase] = database]
        /\ ~stale => database \in {EmptyDatabase, NoDatabase}
        /\ trip' = [trip EXCEPT !.task = "declare", !.stale = stale]
  <2>1. PICK database \in {EmptyDatabase, Database, NoDatabase} :
          /\ databases' = [databases EXCEPT ![ShapeDatabase] = database]
          /\ trip' = [trip EXCEPT !.task = "declare",
                                  !.stale = database = Database /\ Database # NoDatabase]
    BY DEF PrepareDatabase
  <2>2. PICK stale \in BOOLEAN : stale = (database = Database /\ Database # NoDatabase)
    BY Zenon
  <2>3. ~stale => database \in {EmptyDatabase, NoDatabase}
    BY <2>1, <2>2
  <2>4. trip' = [trip EXCEPT !.task = "declare", !.stale = stale]
    BY <2>1, <2>2, Zenon
  <2> QED BY <1>1, <2>1, <2>3, <2>4, EmptyTypes
<1>3. StoreTypes' /\ Project' = Project /\ Database' = database
  BY <1>2, TripDatabase DEF PrepareDatabase
<1>4. trip' \in TripTypes /\ trip'.task = "declare" /\ trip'.stale = stale
  BY <1>2 DEF TripTypes, TripTasks
<1> QED BY <1>1, <1>2, <1>3, <1>4 DEF TripKept, TripAt, TripDatabaseAt

LEMMA DeclareKeeps ==
  ASSUME StoreTypes, trip \in TripTypes, TripAt, Declare
  PROVE  TripKept
<1>1. CASE TripRaise("timeout") /\ UNCHANGED projects
  BY <1>1, TripRaised DEF Declare, TripRaise, StoreTypes, TripKept
<1>2. CASE /\ projects' = [projects EXCEPT ![ShapeDir].config = ShapeDatabase,
                                           ![ShapeDir].models = ShapeModels]
           /\ trip' = [trip EXCEPT !.task = "make"]
  <2>1. /\ Project \in Projects /\ ShapeDatabase \in Names
        /\ ~trip.stale => Database \in {EmptyDatabase, NoDatabase}
    BY DEF Declare, TripAt, TripDatabaseAt, Names
  <2>2. PICK project :
          project = [Project EXCEPT !.config = ShapeDatabase, !.models = ShapeModels]
    OBVIOUS
  <2>3. project \in Projects
    BY <2>1, <2>2, TripAssumption DEF Projects, Schemas
  <2>4. projects' = [projects EXCEPT ![ShapeDir] = project]
    BY <1>2, <2>2 DEF Project, StoreTypes
  <2>5. StoreTypes' /\ Project' = project /\ Database' = Database
    BY <2>3, <2>4, TripProject DEF Declare
  <2>6. trip' \in TripTypes /\ trip'.task = "make" /\ trip'.stale = trip.stale
    BY <1>2 DEF TripTypes, TripTasks
  <2> QED BY <2>1, <2>3, <2>5, <2>6 DEF TripKept, TripAt, TripDatabaseAt
<1> QED BY <1>1, <1>2 DEF Declare

\* make-migrations writes its files into the project.
LEMMA TripFiles ==
  ASSUME Project \in Projects, NEW out \in MakeOutcomes(Project),
         projects' = [projects EXCEPT ![ShapeDir].files = out.files]
  PROVE  \E project \in Projects :
           /\ projects' = [projects EXCEPT ![ShapeDir] = project]
           /\ project.files = out.files /\ project.models = Project.models
<1>1. out.files \in Seq(Schemas)
  BY MakeTypes
<1>2. PICK project : project = [Project EXCEPT !.files = out.files]
  OBVIOUS
<1>3. project \in Projects /\ project.files = out.files /\ project.models = Project.models
  BY <1>1, <1>2 DEF Projects
<1> QED BY <1>2, <1>3 DEF Project

LEMMA TripMakeKeeps ==
  ASSUME StoreTypes, trip \in TripTypes, TripAt, TripMake
  PROVE  TripKept
<1>1. /\ Project \in Projects /\ UNCHANGED databases
      /\ ~trip.stale => Database \in {EmptyDatabase, NoDatabase}
  BY DEF TripMake, TripAt, TripDatabaseAt
<1>2. PICK out \in MakeOutcomes(Project) :
        /\ projects' = [projects EXCEPT ![ShapeDir].files = out.files]
        /\ \/ trip' = [trip EXCEPT !.task = "migrate", !.makeCode = out.code]
           \/ TripRaise("timeout")
  BY DEF TripMake
<1>3. PICK project \in Projects : projects' = [projects EXCEPT ![ShapeDir] = project]
  BY <1>1, <1>2, TripFiles
<1>4. StoreTypes' /\ Project' = project /\ Database' = Database
  BY <1>1, <1>3, TripProject
<1>5. CASE TripRaise("timeout")
  BY <1>4, <1>5, TripRaised DEF TripRaise, TripKept
<1>6. CASE trip' = [trip EXCEPT !.task = "migrate", !.makeCode = out.code]
  <2>1. trip' \in TripTypes /\ trip'.task = "migrate" /\ trip'.stale = trip.stale
    BY <1>1, <1>6, MakeTypes DEF TripTypes, TripTasks
  <2> QED BY <1>1, <1>4, <2>1 DEF TripKept, TripAt, TripDatabaseAt
<1> QED BY <1>2, <1>5, <1>6

LEMMA TripMigrateKeeps ==
  ASSUME StoreTypes, trip \in TripTypes, TripAt, TripMigrate
  PROVE  TripKept
<1>1. /\ Project \in Projects /\ UNCHANGED projects
      /\ ~trip.stale => Database \in {EmptyDatabase, NoDatabase}
      /\ Database \in Databases \cup {NoDatabase}
  BY DEF TripMigrate, TripAt, TripDatabaseAt, StoreTypes, Names, Database
<1>2. PICK out \in MigrateOutcomes(Project, Database) :
        /\ databases' = [databases EXCEPT ![ShapeDatabase] = out.database]
        /\ \/ trip' = [trip EXCEPT !.task = "generate", !.migrateCode = out.code]
           \/ TripRaise("timeout")
  BY DEF TripMigrate
<1>3. out.code \in {0, 1} /\ out.database \in Databases \cup {NoDatabase}
  BY <1>1, MigrateTypes
<1>4. StoreTypes' /\ Project' = Project /\ Database' = out.database
  BY <1>1, <1>2, <1>3, TripDatabase
<1>5. CASE TripRaise("timeout")
  BY <1>4, <1>5, TripRaised DEF TripRaise, TripKept
<1>6. CASE trip' = [trip EXCEPT !.task = "generate", !.migrateCode = out.code]
  <2>1. /\ trip' \in TripTypes /\ trip'.task = "generate" /\ trip'.stale = trip.stale
        /\ trip'.migrateCode = out.code
    BY <1>3, <1>6 DEF TripTypes, TripTasks
  <2>2. ASSUME ~trip.stale, out.code = 0
        PROVE  out.database # NoDatabase /\ out.database.schema = Reached(Project.files)
    <3>1. PICK project, database :
            /\ project = Project /\ database = Database
            /\ database \in {EmptyDatabase, NoDatabase} /\ out \in MigrateOutcomes(project, database)
      BY <1>1, <1>2, <2>2
    <3>2. project.files \in Seq(Schemas) /\ Len(project.files) \in Nat
      BY <1>1, <3>1, ProjectFields
    <3>3. PlayedFor(database, Schemas, project.files)
      <4>1. EmptyDatabase.history = <<>> /\ EmptyDatabase \in DatabasesOver(Schemas)
        BY EmptyTypes DEF EmptyDatabase, Databases, DatabasesOver
      <4>2. IsPlayedFrom(<<>>, project.files)
        BY <3>2, EmptySeq DEF IsPlayedFrom
      <4> QED BY <3>1, <4>1, <4>2 DEF PlayedFor
    <3>4. database # NoDatabase => OnTrack(database)
      BY <3>1 DEF OnTrack, EmptyDatabase, Reached
    <3>5. /\ PlayedFor(out.database, Schemas, project.files) /\ out.database # NoDatabase
          /\ Len(out.database.history) = Len(project.files) /\ OnTrack(out.database)
      BY <2>2, <3>1, <3>2, <3>3, <3>4, MigrateKeeps
    <3>6. /\ out.database.history \in Seq(Schemas)
          /\ IsPlayedFrom(out.database.history, project.files)
      BY <3>5 DEF PlayedFor, DatabasesOver
    <3>7. out.database.history = project.files
      BY <3>2, <3>5, <3>6, SeqEqual DEF IsPlayedFrom
    <3> QED BY <3>1, <3>5, <3>7 DEF OnTrack
  <2>3. ~trip'.stale => MigratedTo(Project.files)'
    BY <1>4, <2>1, <2>2 DEF MigratedTo
  <2> QED BY <1>1, <1>4, <2>1, <2>3 DEF TripKept, TripAt, TripDatabaseAt
<1> QED BY <1>2, <1>5, <1>6

LEMMA GenerateKeeps ==
  ASSUME StoreTypes, trip \in TripTypes, TripAt, Generate
  PROVE  TripKept
<1>1. /\ UNCHANGED stores /\ Project \in Projects /\ Database \in Databases \cup {NoDatabase}
      /\ ~trip.stale => MigratedTo(Project.files)
  BY DEF Generate, TripAt, TripDatabaseAt, StoreTypes, Names, Database
<1>2. StoreTypes' /\ Project' = Project /\ Database' = Database
  BY <1>1 DEF StoreTypes, Project, Database
<1>3. CASE TripRaise("timeout")
  BY <1>2, <1>3, TripRaised DEF TripRaise, TripKept
<1>4. ASSUME NEW out \in GenerateOutcomes(Database),
             trip' = [trip EXCEPT !.task = "adopt", !.generateCode = out.code,
                        !.files = out.files,
                        !.generated = IF "models" \in out.files THEN out.models ELSE NoModels]
      PROVE  TripKept
  <2>1. /\ out.code \in {0, 1} /\ out.files \in SUBSET {"init", "models", "bookkeeping"}
        /\ out.models \in Schemas /\ NoModels \in Schemas
    BY <1>1, GenerateTypes DEF Schemas
  <2>2. /\ trip' \in TripTypes /\ trip'.task = "adopt" /\ trip'.stale = trip.stale
        /\ trip'.migrateCode = trip.migrateCode
    BY <1>4, <2>1 DEF TripTypes, TripTasks
  <2> QED BY <1>1, <1>2, <2>2 DEF TripKept, TripAt, TripDatabaseAt, MigratedTo
<1> QED BY <1>3, <1>4 DEF Generate

LEMMA AdoptKeeps ==
  ASSUME StoreTypes, trip \in TripTypes, TripAt, Adopt
  PROVE  TripKept
<1>1. /\ Project \in Projects /\ UNCHANGED databases
      /\ ~trip.stale => MigratedTo(Project.files)
  BY DEF Adopt, TripAt, TripDatabaseAt
<1>2. CASE TripRaise("files") /\ UNCHANGED projects
  BY <1>1, <1>2, TripRaised DEF TripRaise, StoreTypes, TripKept
<1>3. CASE /\ projects' = [projects EXCEPT ![ShapeDir].models = trip.generated]
           /\ trip' = [trip EXCEPT !.task = "rediff"]
  <2>1. PICK project : project = [Project EXCEPT !.models = trip.generated]
    OBVIOUS
  <2>2. /\ project \in Projects /\ project.models = trip.generated
        /\ project.files = Project.files
    BY <1>1, <2>1 DEF Projects, TripTypes
  <2>3. projects' = [projects EXCEPT ![ShapeDir] = project]
    BY <1>3, <2>1 DEF Project
  <2>4. StoreTypes' /\ Project' = project /\ Database' = Database
    BY <1>1, <2>2, <2>3, TripProject
  <2>5. /\ trip' \in TripTypes /\ trip'.task = "rediff" /\ trip'.generated = trip.generated
        /\ trip'.stale = trip.stale /\ trip'.migrateCode = trip.migrateCode
    BY <1>3 DEF TripTypes, TripTasks
  <2> QED BY <1>1, <2>2, <2>4, <2>5 DEF TripKept, TripAt, TripDatabaseAt, MigratedTo
<1> QED BY <1>2, <1>3 DEF Adopt

LEMMA RediffKeeps ==
  ASSUME StoreTypes, trip \in TripTypes, TripAt, Rediff
  PROVE  TripKept
<1>1. /\ UNCHANGED stores /\ Project \in Projects /\ Project.models = trip.generated
      /\ ~trip.stale => MigratedTo(Project.files)
  BY DEF Rediff, TripAt, TripDatabaseAt
<1>2. StoreTypes' /\ Project' = Project /\ Database' = Database
  BY <1>1 DEF StoreTypes, Project, Database
<1>3. CASE TripRaise("timeout")
  BY <1>2, <1>3, TripRaised DEF TripRaise, TripKept
<1>4. ASSUME NEW out \in Diffs, trip' = [trip EXCEPT !.task = "remake", !.rediff = out]
      PROVE  TripKept
  <2>1. /\ trip' \in TripTypes /\ trip'.task = "remake" /\ trip'.generated = trip.generated
        /\ trip'.stale = trip.stale /\ trip'.migrateCode = trip.migrateCode
    BY <1>4 DEF TripTypes, TripTasks
  <2> QED BY <1>1, <1>2, <2>1 DEF TripKept, TripAt, TripDatabaseAt, MigratedTo
<1>5. \/ \E out \in Diffs : trip' = [trip EXCEPT !.task = "remake", !.rediff = out]
      \/ TripRaise("timeout")
  <2>1. ("diff" \in TripFaults) \in BOOLEAN
    OBVIOUS
  <2> QED BY <2>1, DiffTypes DEF Rediff
<1> QED BY <1>3, <1>4, <1>5

LEMMA RemakeKeeps ==
  ASSUME StoreTypes, trip \in TripTypes, TripAt, Remake
  PROVE  TripKept
<1>1. /\ Project \in Projects /\ UNCHANGED databases /\ Project.models = trip.generated
      /\ ~trip.stale => MigratedTo(Project.files)
  BY DEF Remake, TripAt, TripDatabaseAt
<1>2. PICK out \in MakeOutcomes(Project) :
        /\ projects' = [projects EXCEPT ![ShapeDir].files = out.files]
        /\ \/ trip' = [trip EXCEPT !.task = "done", !.before = Len(Project.files),
                                   !.created = out.said]
           \/ TripRaise("timeout")
  BY DEF Remake
<1>3. PICK project \in Projects :
        /\ projects' = [projects EXCEPT ![ShapeDir] = project]
        /\ project.files = out.files /\ project.models = Project.models
  BY <1>1, <1>2, TripFiles
<1>4. StoreTypes' /\ Project' = project /\ Database' = Database
  BY <1>1, <1>3, TripProject
<1>5. CASE TripRaise("timeout")
  BY <1>4, <1>5, TripRaised DEF TripRaise, TripKept
<1>6. CASE trip' = [trip EXCEPT !.task = "done", !.before = Len(Project.files),
                                !.created = out.said]
  <2>1. Len(Project.files) \in Nat /\ out.said \in BOOLEAN
    BY <1>1, MakeTypes, ProjectFields
  <2>2. /\ trip' \in TripTypes /\ trip'.task = "done" /\ trip'.generated = trip.generated
        /\ trip'.stale = trip.stale /\ trip'.migrateCode = trip.migrateCode
        /\ trip'.before = Len(Project.files)
    BY <1>6, <2>1 DEF TripTypes, TripTasks
  <2>3. SubSeq(Project'.files, 1, trip'.before) = Project.files
    BY <1>1, <1>3, <1>4, <2>2, MakeTypes
  <2>4. ~trip'.stale => MigratedTo(SubSeq(Project.files, 1, trip.before))'
    BY <1>1, <1>4, <2>2, <2>3 DEF MigratedTo
  <2> QED BY <1>1, <1>3, <1>4, <2>2, <2>4 DEF TripKept, TripAt, TripDatabaseAt
<1> QED BY <1>2, <1>5, <1>6

LEMMA TripStepKeeps ==
  ASSUME StoreTypes, trip \in TripTypes, TripAt, TripStep
  PROVE  StoreTypes' /\ trip' \in TripTypes /\ TripAt'
  BY PrepareDatabaseKeeps, DeclareKeeps, TripMakeKeeps, TripMigrateKeeps, GenerateKeeps,
     AdoptKeeps, RediffKeeps, RemakeKeeps DEF TripStep, TripKept


-----------------------------------------------------------------------------
(* The steps of the player                                                 *)

PlayTypes ==
  [task: {"idle", "playing", "passed", "failed"}, commands: 0..MaxCommands,
   clickhouse: BOOLEAN, snapshot: Schemas, captured: BOOLEAN, restored: BOOLEAN]

LEMMA PlayerStored ==
  ASSUME StoreTypes, NEW project \in Projects, NEW database \in Databases,
         projects' = [projects EXCEPT ![PlayDir] = project],
         databases' = [databases EXCEPT ![PlayDatabase] = database]
  PROVE  StoreTypes' /\ TestProject' = project /\ TestDatabase' = database
<1>1. PlayDatabase \in Names
  BY DEF Names
<1> QED BY <1>1, StoredProject, StoredDatabase DEF StoreTypes, TestProject, TestDatabase

LEMMA PlayerEdited ==
  ASSUME StoreTypes, NEW project \in Projects, TestDatabase \in Databases,
         projects' = [projects EXCEPT ![PlayDir] = project], UNCHANGED databases
  PROVE  StoreTypes' /\ TestProject' = project /\ TestDatabase' = TestDatabase
<1>1. databases' = [databases EXCEPT ![PlayDatabase] = TestDatabase]
  BY DEF StoreTypes, TestDatabase
<1> QED BY <1>1, PlayerStored

LEMMA PlayerMigrated ==
  ASSUME StoreTypes, TestProject \in Projects, NEW database \in Databases,
         UNCHANGED projects, databases' = [databases EXCEPT ![PlayDatabase] = database]
  PROVE  StoreTypes' /\ TestProject' = TestProject /\ TestDatabase' = database
<1>1. projects' = [projects EXCEPT ![PlayDir] = TestProject]
  BY DEF StoreTypes, TestProject
<1> QED BY <1>1, PlayerStored

\* A test that goes on is typed, and knows whether it was found restored.
LEMMA Continues ==
  ASSUME play \in PlayTypes, Playing, NEW restored \in BOOLEAN, Continue(restored)
  PROVE  /\ play' \in PlayTypes /\ play'.restored = restored
         /\ play'.snapshot = play.snapshot /\ play'.clickhouse = play.clickhouse
<1>1. play.commands + 1 \in 0..MaxCommands
  BY PlayerAssumption DEF Playing, PlayTypes
<1> QED BY <1>1 DEF Continue, PlayTypes

LEMMA Failed ==
  ASSUME play \in PlayTypes, Fails
  PROVE  play' \in PlayTypes /\ ~play'.restored
  BY DEF Fails, PlayTypes

LEMMA GoesOn ==
  ASSUME play \in PlayTypes, Playing, Continue(FALSE) \/ Fails
  PROVE  play' \in PlayTypes /\ ~play'.restored
  BY Continues, Failed

LEMMA Cleaned ==
  ASSUME play \in PlayTypes, Playing, NEW code, Clean(code)
  PROVE  play' \in PlayTypes /\ ~play'.restored
  BY GoesOn DEF Clean

\* A test that found nothing restored has nothing to be right about.
LEMMA NothingRestored ==
  ASSUME ~play'.restored, TestProject' \in Projects, TestDatabase' \in Databases
  PROVE  PlayAt'
  BY DEF PlayAt, RestoredIsTheSame

LEMMA StartPlayKeeps ==
  ASSUME StoreTypes, StartPlay
  PROVE  StoreTypes' /\ play' \in PlayTypes /\ PlayAt'
<1>1. [EmptyProject EXCEPT !.config = PlayDatabase] \in Projects
  BY EmptyTypes DEF Projects, Names
<1>2. /\ StoreTypes' /\ TestProject' \in Projects /\ TestDatabase' \in Databases
  BY <1>1, EmptyTypes, PlayerStored DEF StartPlay
<1>3. PICK clickhouse \in BOOLEAN : play' = NewPlay("playing", clickhouse)
  BY PlayerAssumption DEF StartPlay
<1>4. play' \in PlayTypes /\ ~play'.restored
  <2>1. ~play'.restored
    BY <1>3 DEF NewPlay
  <2> QED BY <1>3, <2>1, NewTypes DEF PlayTypes
<1> QED BY <1>2, <1>4, NothingRestored

PlayerKept == StoreTypes' /\ play' \in PlayTypes /\ PlayAt'

LEMMA EditProjectKeeps ==
  ASSUME StoreTypes, play \in PlayTypes, PlayAt, EditProject
  PROVE  PlayerKept
<1>1. /\ TestProject \in Projects /\ TestDatabase \in Databases /\ UNCHANGED databases
      /\ TestProject.files \in Seq(Schemas) /\ Len(TestProject.files) \in Nat
  BY ProjectFields DEF EditProject, Playing, PlayAt
<1>2. PICK project \in Projects : projects' = [projects EXCEPT ![PlayDir] = project]
  <2>1. ASSUME NEW models \in Models, projects' = [projects EXCEPT ![PlayDir].models = models]
        PROVE  \E project \in Projects : projects' = [projects EXCEPT ![PlayDir] = project]
    <3>1. [TestProject EXCEPT !.models = models] \in Projects
      BY <1>1 DEF Projects, Schemas
    <3> QED BY <2>1, <3>1 DEF TestProject
  <2>2. ASSUME NEW models \in Models,
               projects' = [projects EXCEPT ![PlayDir].files = Append(@, models)]
        PROVE  \E project \in Projects : projects' = [projects EXCEPT ![PlayDir] = project]
    <3>1. models \in Schemas
      BY DEF Schemas
    <3>2. Append(TestProject.files, models) \in Seq(Schemas)
      BY <1>1, <3>1, AppendProperties
    <3>3. [TestProject EXCEPT !.files = Append(@, models)] \in Projects
      BY <1>1, <3>2 DEF Projects
    <3> QED BY <2>2, <3>3 DEF TestProject
  <2>3. CASE /\ TestProject.files # <<>>
             /\ projects' = [projects EXCEPT ![PlayDir].files = SubSeq(@, 1, Len(@) - 1)]
    <3>1. /\ Len(TestProject.files) - 1 \in Int
          /\ \A i \in 1..(Len(TestProject.files) - 1) : TestProject.files[i] \in Schemas
      BY <1>1, ElementOfSeq
    <3>2. SubSeq(TestProject.files, 1, Len(TestProject.files) - 1) \in Seq(Schemas)
      BY <3>1, SubSeqProperties
    <3>3. [TestProject EXCEPT !.files = SubSeq(@, 1, Len(@) - 1)] \in Projects
      BY <1>1, <3>2 DEF Projects
    <3> QED BY <2>3, <3>3 DEF TestProject
  <2> QED BY <2>1, <2>2, <2>3 DEF EditProject
<1>3. play' \in PlayTypes /\ ~play'.restored
  BY GoesOn DEF EditProject
<1> QED BY <1>1, <1>2, <1>3, PlayerEdited, NothingRestored DEF PlayerKept

LEMMA PlayMakeKeeps ==
  ASSUME StoreTypes, play \in PlayTypes, PlayAt, PlayMake
  PROVE  PlayerKept
<1>1. /\ TestProject \in Projects /\ TestDatabase \in Databases
      /\ UNCHANGED databases
  BY DEF PlayMake, Playing, PlayAt
<1>2. PICK out \in MakeOutcomes(TestProject) :
        projects' = [projects EXCEPT ![PlayDir].files = out.files] /\ Clean(out.code)
  BY DEF PlayMake
<1>3. PICK project \in Projects : projects' = [projects EXCEPT ![PlayDir] = project]
  <2>1. out.files \in Seq(Schemas)
    BY <1>1, MakeTypes
  <2>2. [TestProject EXCEPT !.files = out.files] \in Projects
    BY <1>1, <2>1 DEF Projects
  <2> QED BY <1>2, <2>2 DEF TestProject
<1>4. play' \in PlayTypes /\ ~play'.restored
  BY <1>2, Cleaned DEF PlayMake
<1> QED BY <1>1, <1>3, <1>4, PlayerEdited, NothingRestored DEF PlayerKept

LEMMA PlayMigrateKeeps ==
  ASSUME StoreTypes, play \in PlayTypes, PlayAt, PlayMigrate
  PROVE  PlayerKept
<1>1. /\ TestProject \in Projects /\ TestDatabase \in Databases
      /\ UNCHANGED projects
  BY DEF PlayMigrate, Playing, PlayAt
<1>2. PICK out \in MigrateOutcomes(TestProject, TestDatabase) :
        databases' = [databases EXCEPT ![PlayDatabase] = out.database] /\ Clean(out.code)
  BY DEF PlayMigrate
<1>3. out.database \in Databases
  BY <1>1, MigrateTypes, DatabaseFields
<1>4. play' \in PlayTypes /\ ~play'.restored
  BY <1>2, Cleaned DEF PlayMigrate
<1> QED BY <1>1, <1>2, <1>3, <1>4, PlayerMigrated, NothingRestored DEF PlayerKept

LEMMA PlayRollBackKeeps ==
  ASSUME StoreTypes, play \in PlayTypes, PlayAt, PlayRollBack
  PROVE  PlayerKept
<1>1. /\ TestProject \in Projects /\ TestDatabase \in Databases
      /\ UNCHANGED projects
  BY DEF PlayRollBack, Playing, PlayAt
<1>2. PICK n \in Nat : \E out \in RollbackOutcomes(TestDatabase, n) :
        databases' = [databases EXCEPT ![PlayDatabase] = out.database] /\ Clean(out.code)
  <2>1. 1..MaxCommands \subseteq Nat
    BY PlayerAssumption
  <2> QED BY <2>1, Zenon DEF PlayRollBack
<1>3. PICK out \in RollbackOutcomes(TestDatabase, n) :
        databases' = [databases EXCEPT ![PlayDatabase] = out.database] /\ Clean(out.code)
  BY <1>2
<1>4. out.database \in Databases
  BY <1>1, RollbackTypes, DatabaseFields
<1>5. play' \in PlayTypes /\ ~play'.restored
  BY <1>3, Cleaned DEF PlayRollBack
<1> QED BY <1>1, <1>3, <1>4, <1>5, PlayerMigrated, NothingRestored DEF PlayerKept

LEMMA ReverseEngineerKeeps ==
  ASSUME StoreTypes, play \in PlayTypes, PlayAt, ReverseEngineer
  PROVE  PlayerKept
<1>1. /\ TestProject \in Projects /\ TestDatabase \in Databases
      /\ UNCHANGED databases
  BY DEF ReverseEngineer, Playing, PlayAt
<1>2. PICK out \in GenerateOutcomes(TestDatabase) :
        \/ /\ projects' = [projects EXCEPT ![PlayDir].models = out.models]
           /\ Clean(out.code)
        \/ Fails /\ UNCHANGED projects
  BY DEF ReverseEngineer
<1>3. PICK project \in Projects : projects' = [projects EXCEPT ![PlayDir] = project]
  <2>1. out.models \in Schemas
    BY <1>1, GenerateTypes
  <2>2. [TestProject EXCEPT !.models = out.models] \in Projects
    BY <1>1, <2>1 DEF Projects
  <2>3. CASE projects' = [projects EXCEPT ![PlayDir].models = out.models]
    BY <2>2, <2>3 DEF TestProject
  <2>4. CASE UNCHANGED projects
    BY <1>1, <2>4 DEF TestProject, StoreTypes
  <2> QED BY <1>2, <2>3, <2>4
<1>4. play' \in PlayTypes /\ ~play'.restored
  BY <1>2, Cleaned, Failed DEF ReverseEngineer
<1> QED BY <1>1, <1>3, <1>4, PlayerEdited, NothingRestored DEF PlayerKept

\* What a check leaves alone.
LEMMA PlayerLooks ==
  ASSUME StoreTypes, PlayAt, Playing, UNCHANGED stores
  PROVE  /\ StoreTypes' /\ TestProject' = TestProject /\ TestDatabase' = TestDatabase
         /\ TestProject \in Projects /\ TestDatabase \in Databases
  BY DEF StoreTypes, TestProject, TestDatabase, PlayAt, Playing

\* A check that finds nothing restored keeps the rest, whether the test goes on.
LEMMA CheckKeeps ==
  ASSUME StoreTypes, play \in PlayTypes, PlayAt, Playing, UNCHANGED stores,
         Continue(FALSE) \/ Fails
  PROVE  PlayerKept
  BY PlayerLooks, GoesOn, NothingRestored DEF PlayerKept

LEMMA CheckStepKeeps ==
  ASSUME StoreTypes, play \in PlayTypes, PlayAt,
         DiffOperations \/ AssertConverged \/ AssertHistoryIntegrity \/ AssertExpectedSchema
  PROVE  PlayerKept
<1>1. Playing /\ UNCHANGED stores
  BY DEF DiffOperations, AssertConverged, AssertHistoryIntegrity, AssertExpectedSchema
<1>2. Continue(FALSE) \/ Fails
  BY DEF DiffOperations, Clean, AssertConverged, AssertHistoryIntegrity, AssertExpectedSchema
<1> QED BY <1>1, <1>2, CheckKeeps

LEMMA CaptureSchemaKeeps ==
  ASSUME StoreTypes, play \in PlayTypes, PlayAt, CaptureSchema
  PROVE  PlayerKept
<1>1. Playing /\ UNCHANGED stores
  BY DEF CaptureSchema
<1>2. play.commands + 1 \in 0..MaxCommands /\ TestDatabase.schema \in Schemas
  BY <1>1, PlayerLooks, DatabaseFields, PlayerAssumption DEF Playing, PlayTypes
<1>3. play' \in PlayTypes /\ ~play'.restored
  BY <1>2, Failed DEF CaptureSchema, PlayTypes
<1> QED BY <1>1, <1>3, PlayerLooks, NothingRestored DEF PlayerKept

LEMMA AssertEqualKeeps ==
  ASSUME StoreTypes, play \in PlayTypes, PlayAt, AssertEqual
  PROVE  PlayerKept
<1>1. Playing /\ UNCHANGED stores
  BY DEF AssertEqual
<1>2. CASE Fails
  BY <1>1, <1>2, CheckKeeps
<1>3. CASE ~Fails
  <2>1. /\ Drift(Captured(play.snapshot), Captured(TestDatabase.schema)) = {}
        /\ Continue(TRUE)
    BY <1>3 DEF AssertEqual
  <2>2. /\ play.snapshot \in Schemas /\ TestDatabase.schema \in Schemas
        /\ play.clickhouse \in BOOLEAN
    BY <1>1, PlayerLooks, DatabaseFields DEF PlayTypes
  <2>3. SameStructure(Shape[play.snapshot], Shape[TestDatabase.schema])
    BY <2>1, <2>2, DriftFreeIsSame
  <2>4. /\ play' \in PlayTypes /\ play'.restored
        /\ play'.snapshot = play.snapshot /\ play'.clickhouse = play.clickhouse
    BY <1>1, <2>1, Continues
  <2>5. RestoredIsTheSame'
    BY <1>1, <2>3, <2>4, PlayerLooks DEF RestoredIsTheSame, SameStructure
  <2> QED BY <1>1, <2>4, <2>5, PlayerLooks DEF PlayAt, PlayerKept
<1> QED BY <1>2, <1>3

LEMMA FinishPlayKeeps ==
  ASSUME StoreTypes, play \in PlayTypes, PlayAt, FinishPlay
  PROVE  PlayerKept
<1>1. /\ UNCHANGED stores /\ play' \in PlayTypes /\ play'.restored = play.restored
      /\ play'.snapshot = play.snapshot /\ play'.clickhouse = play.clickhouse
  BY DEF FinishPlay, PlayTypes
<1>2. StoreTypes' /\ TestProject' = TestProject /\ TestDatabase' = TestDatabase
  BY <1>1 DEF StoreTypes, TestProject, TestDatabase
<1>3. RestoredIsTheSame'
  BY <1>1, <1>2 DEF PlayAt, RestoredIsTheSame, SameStructure
<1> QED BY <1>1, <1>2, <1>3 DEF FinishPlay, PlayAt, PlayerKept

LEMMA PlayStepKeeps ==
  ASSUME StoreTypes, play \in PlayTypes, PlayAt, PlayStep
  PROVE  PlayerKept
  BY EditProjectKeeps, PlayMakeKeeps, PlayMigrateKeeps, PlayRollBackKeeps, ReverseEngineerKeeps,
     CheckStepKeeps, CaptureSchemaKeeps, AssertEqualKeeps, FinishPlayKeeps DEF PlayStep

-----------------------------------------------------------------------------
(* The step of a session                                                   *)

TripRests == trip = NewTrip("idle")
PlayRests == play = NewPlay("idle", FALSE)

\* A driver at rest is typed, and has nothing to be right about.
LEMMA RestingDrivers ==
  /\ TripRests => trip \in TripTypes /\ TripAt
  /\ PlayRests => play \in PlayTypes /\ PlayAt
<1>1. "idle" \in TripTasks
  BY DEF TripTasks
<1>2. TripRests => trip \in TripTypes /\ trip.task = "idle" /\ TripAt
  BY <1>1, NewTypes DEF TripTypes, TripRests, NewTrip, TripAt, TripDatabaseAt
<1>3. PlayRests => play \in PlayTypes /\ play.task = "idle" /\ ~play.restored
  <2>1. NewPlay("idle", FALSE) \in PlayTypes
    BY NewTypes DEF PlayTypes
  <2>2. NewPlay("idle", FALSE).task = "idle" /\ ~NewPlay("idle", FALSE).restored
    BY DEF NewPlay
  <2> QED BY <2>1, <2>2 DEF PlayRests
<1> QED BY <1>2, <1>3 DEF PlayAt, RestoredIsTheSame

LEMMA RestingDriversNext ==
  /\ TripRests' => trip' \in TripTypes /\ TripAt'
  /\ PlayRests' => play' \in PlayTypes /\ PlayAt'
<1>1. (/\ TripRests => trip \in TripTypes /\ TripAt
       /\ PlayRests => play \in PlayTypes /\ PlayAt)'
  BY RestingDrivers, PTL
<1> QED BY <1>1 DEF TripTypes, PlayTypes

\* The invariant of the drivers in the terms of the steps above.
LEMMA DriversInvIs ==
  DriversInv <=> /\ StoreTypes /\ CaseTypeOK /\ CaseInv
                 /\ trip \in TripTypes /\ TripAt /\ play \in PlayTypes /\ PlayAt
  BY DEF DriversInv, TripTypeOK, TripTypes, Diffs, PlayTypeOK, PlayTypes

LEMMA DriversInvNext ==
  ASSUME StoreTypes', CaseTypeOK', CaseInv', trip' \in TripTypes, TripAt',
         play' \in PlayTypes, PlayAt'
  PROVE  DriversInv'
<1>1. TripTypeOK' /\ PlayTypeOK'
  BY DEF TripTypeOK, TripTypes, Diffs, PlayTypeOK, PlayTypes
<1> QED BY <1>1 DEF DriversInv

\* The drivers that have no part in a test rest.
LEMMA OthersRest ==
  ASSUME Resting
  PROVE  /\ session.at # "matrix" => job = Rest("idle")
         /\ session.at # "trip" => TripRests
         /\ session.at # "play" => PlayRests
  BY DEF Resting, Rest, TripRests, PlayRests

\* A step of a driver belongs to the test that runs.
LEMMA StepIsOfItsTest ==
  ASSUME Resting
  PROVE  /\ RunCase => session.at = "matrix"
         /\ RunTrip => session.at = "trip"
         /\ RunPlay => session.at = "play"
<1>1. ASSUME RunCase, session.at # "matrix" PROVE FALSE
  <2>1. PICK c \in Cases : CaseStep(c)
    BY <1>1 DEF RunCase
  <2>2. job[c].task = "idle"
    BY <1>1 DEF Resting, NewJob
  <2> QED
    BY <2>1, <2>2 DEF CaseStep, Take, MakeDirectory, DropDatabase, CreateDatabase, InitProject,
                      WriteRevision, MakeMigrations, Migrate, RollBack, Capture
<1>2. ASSUME RunTrip, session.at # "trip" PROVE FALSE
  <2>1. trip.task = "idle"
    BY <1>2 DEF Resting, NewTrip
  <2> QED
    BY <1>2, <2>1 DEF RunTrip, TripStep, PrepareDatabase, Declare, TripMake, TripMigrate,
                      Generate, Adopt, Rediff, Remake
<1>3. ASSUME RunPlay, session.at # "play" PROVE FALSE
  <2>1. play.task = "idle"
    BY <1>3 DEF Resting, NewPlay
  <2> QED
    BY <1>3, <2>1 DEF RunPlay, PlayStep, Playing, EditProject, PlayMake, PlayMigrate,
                      PlayRollBack, ReverseEngineer, DiffOperations, AssertConverged,
                      CaptureSchema, AssertEqual, AssertHistoryIntegrity, AssertExpectedSchema,
                      FinishPlay
<1> QED BY <1>1, <1>2, <1>3

\* The step keeps what is said of the drivers, and lets the others rest.
LEMMA StartTestKeeps ==
  ASSUME IInv, StartTest
  PROVE  DriversInv' /\ Resting'
<1>1. /\ StoreTypes /\ job = Rest("idle") /\ TripRests /\ PlayRests
      /\ session' = [session EXCEPT !.at = Head(session.tests), !.tests = Tail(@)]
      /\ session.at = "serving" /\ session'.at = Head(session.tests)
  BY OthersRest DEF IInv, DriversInv, StartTest, SessionTypes
<1>2. Head(session.tests) \in {"matrix", "trip", "play"}
  BY HeadTailProperties DEF IInv, SessionTypes, StartTest
<1>3. CASE Head(session.tests) = "matrix"
  <2>1. job' = Rest("queued") /\ UNCHANGED <<stores, trip, play>>
    BY <1>3 DEF StartTest, SubmitAll, Rest
  <2>2. StoreTypes' /\ TripRests' /\ PlayRests'
    BY <1>1, <2>1 DEF StoreTypes, TripRests, PlayRests
  <2>3. CaseTypeOK' /\ CaseInv'
    BY <2>1, <2>2, RestingCasesNext
  <2>4. Resting'
    BY <1>1, <1>3, <2>2 DEF Resting, TripRests, PlayRests
  <2> QED BY <2>2, <2>3, <2>4, RestingDriversNext, DriversInvNext
<1>4. CASE Head(session.tests) = "trip"
  <2>1. StartTrip /\ UNCHANGED <<job, play>>
    BY <1>4 DEF StartTest
  <2>2. job' = Rest("idle") /\ PlayRests'
    BY <1>1, <2>1 DEF PlayRests
  <2>3. StoreTypes' /\ trip' \in TripTypes /\ TripAt'
    BY <1>1, <2>1, StartTripKeeps
  <2>4. CaseTypeOK' /\ CaseInv'
    BY <2>2, <2>3, RestingCasesNext
  <2>5. Resting'
    BY <1>1, <1>4, <2>2 DEF Resting, PlayRests, Rest, NewJob
  <2> QED BY <2>2, <2>3, <2>4, <2>5, RestingDriversNext, DriversInvNext
<1>5. CASE Head(session.tests) = "play"
  <2>1. StartPlay /\ UNCHANGED <<job, trip>>
    BY <1>5 DEF StartTest
  <2>2. job' = Rest("idle") /\ TripRests'
    BY <1>1, <2>1 DEF TripRests
  <2>3. StoreTypes' /\ play' \in PlayTypes /\ PlayAt'
    BY <1>1, <2>1, StartPlayKeeps
  <2>4. CaseTypeOK' /\ CaseInv'
    BY <2>2, <2>3, RestingCasesNext
  <2>5. Resting'
    BY <1>1, <1>5, <2>2 DEF Resting, TripRests, Rest, NewJob
  <2> QED BY <2>2, <2>3, <2>4, <2>5, RestingDriversNext, DriversInvNext
<1> QED BY <1>2, <1>3, <1>4, <1>5

LEMMA RunCaseKeeps ==
  ASSUME IInv, RunCase
  PROVE  DriversInv' /\ Resting'
<1>1. /\ StoreTypes /\ CaseTypeOK /\ CaseInv /\ session.at = "matrix" /\ TripRests /\ PlayRests
      /\ UNCHANGED <<trip, play, session>>
  BY StepIsOfItsTest, OthersRest DEF IInv, DriversInv, RunCase
<1>2. PICK c \in Cases : CaseStep(c)
  BY DEF RunCase
<1>3. StoreTypes' /\ CaseTypeOK' /\ CaseInv'
  BY <1>1, <1>2, CaseStores, CaseTypes
<1>4. TripRests' /\ PlayRests'
  BY <1>1 DEF TripRests, PlayRests
<1>5. Resting'
  BY <1>1, <1>4 DEF Resting, TripRests, PlayRests
<1> QED BY <1>3, <1>4, <1>5, RestingDriversNext, DriversInvNext

LEMMA RunTripKeeps ==
  ASSUME IInv, RunTrip
  PROVE  DriversInv' /\ Resting'
<1>1. /\ StoreTypes /\ trip \in TripTypes /\ TripAt
      /\ session.at = "trip" /\ job = Rest("idle") /\ PlayRests
      /\ UNCHANGED <<job, play, session>> /\ TripStep
  BY StepIsOfItsTest, OthersRest, DriversInvIs DEF IInv, RunTrip
<1>2. StoreTypes' /\ trip' \in TripTypes /\ TripAt'
  BY <1>1, TripStepKeeps
<1>3. job' = Rest("idle") /\ PlayRests'
  BY <1>1 DEF PlayRests
<1>4. CaseTypeOK' /\ CaseInv'
  BY <1>2, <1>3, RestingCasesNext
<1>5. Resting'
  BY <1>1, <1>3 DEF Resting, PlayRests, Rest, NewJob
<1> QED BY <1>2, <1>3, <1>4, <1>5, RestingDriversNext, DriversInvNext

LEMMA RunPlayKeeps ==
  ASSUME IInv, RunPlay
  PROVE  DriversInv' /\ Resting'
<1>1. /\ StoreTypes /\ play \in PlayTypes /\ PlayAt
      /\ session.at = "play" /\ job = Rest("idle") /\ TripRests
      /\ UNCHANGED <<job, trip, session>> /\ PlayStep
  BY StepIsOfItsTest, OthersRest, DriversInvIs DEF IInv, RunPlay
<1>2. StoreTypes' /\ play' \in PlayTypes /\ PlayAt'
  BY <1>1, PlayStepKeeps DEF PlayerKept
<1>3. job' = Rest("idle") /\ TripRests'
  BY <1>1 DEF TripRests
<1>4. CaseTypeOK' /\ CaseInv'
  BY <1>2, <1>3, RestingCasesNext
<1>5. Resting'
  BY <1>1, <1>3 DEF Resting, TripRests, Rest, NewJob
<1> QED BY <1>2, <1>3, <1>4, <1>5, RestingDriversNext, DriversInvNext

LEMMA EndTestKeeps ==
  ASSUME IInv, EndTest
  PROVE  DriversInv' /\ Resting'
<1>1. job' = Rest("idle") /\ TripRests' /\ PlayRests'
  BY DEF EndTest, Rest, TripRests, PlayRests
<1>2. StoreTypes'
  BY DEF IInv, DriversInv, EndTest, StoreTypes
<1>3. CaseTypeOK' /\ CaseInv'
  BY <1>1, <1>2, RestingCasesNext
<1>4. Resting'
  BY <1>1 DEF Resting, TripRests, PlayRests, Rest, NewJob
<1> QED BY <1>1, <1>2, <1>3, <1>4, RestingDriversNext, DriversInvNext

\* The steps of the fixture and of pytest leave the drivers alone.
LEMMA FixtureKeeps ==
  ASSUME IInv, SetUp \/ ServerBoots \/ Wait \/ EndSession \/ TearDown \/ UNCHANGED vars
  PROVE  DriversInv' /\ Resting'
<1>1. UNCHANGED <<stores, drivers>>
  BY DEF SetUp, ServerBoots, Wait, EndSession, TearDown, vars
<1>2. /\ session' = session
         \/ session.at \notin {"matrix", "trip", "play"}
  BY DEF SetUp, ServerBoots, Wait, EndSession, TearDown, vars
<1>3. Resting'
  BY <1>1, <1>2 DEF IInv, Resting
<1> QED BY <1>1, <1>3, DriversUnchanged DEF IInv

LEMMA StepIInv == IInv /\ [Next]_vars => IInv'
<1> SUFFICES ASSUME IInv, [Next]_vars PROVE IInv'
  OBVIOUS
<1>1. ServerTypeOK' /\ SessionTypes' /\ ServerAt'
  BY ServerStep
<1>2. DriversInv' /\ Resting'
  BY StartTestKeeps, RunCaseKeeps, RunTripKeeps, RunPlayKeeps, EndTestKeeps, FixtureKeeps
     DEF Next, Progress, Finished
<1> QED BY <1>1, <1>2 DEF IInv

-----------------------------------------------------------------------------
(* The theorems                                                            *)

LEMMA SessionInv == Spec => []IInv
<1>1. Init => IInv
  BY InitIInv
<1>2. IInv /\ [Next]_vars => IInv'
  BY StepIInv
<1> QED BY <1>1, <1>2, PTL DEF Spec

\* Whatever the commands, the server and the file system do, projects,
\* databases, jobs, results and the session stay of their types, and no more
\* cases run than the executor has workers (case_runner.py:281).
THEOREM TypesHold == Spec => []TypeOK
<1>1. IInv => TypeOK
  BY DEF IInv, DriversInv, StoreTypes, SessionTypes, TypeOK, Projects
<1> QED BY <1>1, SessionInv, PTL

\* For every set of cases whose ids differ in what is left of them, every
\* number of workers and all that may go wrong, no case meets the files or the
\* database of another, nor what an earlier session left there
\* (case_runner.py:214 and :223).
THEOREM Isolation == Spec => []CasesAreIsolated
<1>1. IInv => CasesAreIsolated
  BY InvIsolates DEF IInv, DriversInv
<1> QED BY <1>1, SessionInv, PTL

\* Where the last step of a case is "applied", no migrate before it failed and no
\* old database was in its place, the database has the schema its migrations lead
\* to, and the last of them was made for the last revision, whatever the other
\* cases do (case_runner.py:128 and :242).
THEOREM Applied == Spec => []AppliedIsInTheDatabase
<1>1. IInv => AppliedIsInTheDatabase
  BY InvApplied DEF IInv, DriversInv
<1> QED BY <1>1, SessionInv, PTL

\* run_all returns a result for every case, those included that raised
\* (case_runner.py:288).
THEOREM EveryAnswer == Spec => []EveryCaseIsAnswered
<1>1. IInv => EveryCaseIsAnswered
  BY DEF IInv, DriversInv, CaseInv, CaseAt, TaskAt, EveryCaseIsAnswered, AllEnded
<1> QED BY <1>1, SessionInv, PTL

\* A round trip that converged compared the generated models, and no others, with
\* a database every migration of the declared ones had been applied to, whatever
\* failed on the way and whatever the diff said; but for a database of an earlier
\* session that was not dropped (round_trip_driver.py:74 and :88).
THEOREM Faithful == Spec => []ConvergedIsFaithful
<1>1. IInv => ConvergedIsFaithful
  BY DEF IInv, DriversInv, TripAt, TripDatabaseAt, MigratedTo, ConvergedIsFaithful, Converged,
         SetupOk
<1> QED BY <1>1, SessionInv, PTL

\* A snapshot that assert_equal accepts is of the structure the database has,
\* for every shape of the schemas (drift_checker.py:227).
THEOREM Restored == Spec => []RestoredIsTheSame
<1>1. IInv => RestoredIsTheSame
  BY DEF IInv, DriversInv, PlayAt
<1> QED BY <1>1, SessionInv, PTL

\* No driver is at work without a server that answers
\* (suites/generative/conftest.py:30).
THEOREM Served == Spec => []ServerOutlivesTests
<1>1. IInv => ServerOutlivesTests
  <2>1. SUFFICES ASSUME IInv PROVE ServerOutlivesTests
    OBVIOUS
  <2>2. session.at # "matrix" => Running = {}
    BY <2>1 DEF IInv, Resting, Running, NewJob
  <2>3. session.at # "trip" => trip.task = "idle"
    BY <2>1 DEF IInv, Resting, NewTrip
  <2>4. session.at # "play" => play.task = "idle"
    BY <2>1 DEF IInv, Resting, NewPlay
  <2> QED BY <2>1, <2>2, <2>3, <2>4 DEF IInv, ServerAt, ServerOutlivesTests
<1> QED BY <1>1, SessionInv, PTL

\* A container outlives its session only where stop() failed, or start() gave
\* up outside the try (suites/generative/conftest.py:35).
THEOREM LeftRunning == Spec => []LeftRunningIsExplained
<1>1. IInv => LeftRunningIsExplained
  BY DEF IInv, ServerAt
<1> QED BY <1>1, SessionInv, PTL
=============================================================================
