--------------------------- MODULE RoundTripDriver ---------------------------
(***************************************************************************)
(* tools/round_trip_driver.py: models are declared and migrated to, models *)
(* are generated from the live database and take their place, and neither  *)
(* diff nor make-migrations should then find anything to do.  No command   *)
(* is checked while the driver runs; RoundTripResult judges afterwards     *)
(* from what it kept.                                                      *)
(***************************************************************************)
EXTENDS DbwardenProject

CONSTANTS
  ShapeDir,       \* the directory rt__<slug> of the shape
  ShapeDatabase,  \* its database, by the url_for the cases have too
  ShapeModels,    \* the models it declares
  TripFaults      \* what may go wrong

TripFaultKinds ==
  {"files", "query", "timeout",  \* as in CaseRunner
   "diff"}                       \* a diff that exits with 0 is wrong, or prints no JSON

ASSUME TripAssumption == ShapeModels \in Models /\ TripFaults \subseteq TripFaultKinds

VARIABLE trip  \* what run() has reached, and its RoundTripResult

TripTasks ==
  {"idle", "prepare", "declare", "make", "migrate", "generate", "adopt", "rediff", "remake",
   "done", "raised"}

NoDiff == [code |-> 0, json |-> FALSE, differs |-> FALSE, stderr |-> FALSE]

\* before is the number of migration files when the generated models are adopted.
\* stale is not in the code: a database was there and DROP did not remove it.
NewTrip(task) ==
  [task |-> task, makeCode |-> 0, migrateCode |-> 0, generateCode |-> 0, files |-> {},
   generated |-> NoModels, rediff |-> NoDiff, before |-> 0, created |-> FALSE, stale |-> FALSE]

TripInit == trip = NewTrip("idle")

Project  == projects[ShapeDir]
Database == databases[ShapeDatabase]

\* subprocess.TimeoutExpired, or an error of the file system, leaves run().
TripRaise(fault) == fault \in TripFaults /\ trip' = [trip EXCEPT !.task = "raised"]

\* The test calls run(): the directory is made afresh.
StartTrip ==
  /\ \/ /\ projects' = [projects EXCEPT ![ShapeDir] = EmptyProject]
        /\ trip' = NewTrip("prepare")
     \/ /\ "files" \in TripFaults
        /\ trip' = NewTrip("raised")
        /\ UNCHANGED projects
  /\ UNCHANGED databases

\* prepare_database drops and creates the database; the fixture's function
\* ignores what the two queries return.
PrepareDatabase ==
  /\ trip.task = "prepare"
  /\ \E database \in {EmptyDatabase}
                      \cup IF "query" \in TripFaults THEN {Database, NoDatabase} ELSE {} :
       /\ databases' = [databases EXCEPT ![ShapeDatabase] = database]
       /\ trip' = [trip EXCEPT !.task = "declare",
                               !.stale = database = Database /\ Database # NoDatabase]
  /\ UNCHANGED projects

\* dbwarden init, the config and the declared models.
Declare ==
  /\ trip.task = "declare"
  /\ \/ /\ projects' = [projects EXCEPT ![ShapeDir].config = ShapeDatabase,
                                        ![ShapeDir].models = ShapeModels]
        /\ trip' = [trip EXCEPT !.task = "make"]
     \/ TripRaise("timeout") /\ UNCHANGED projects
  /\ UNCHANGED databases

TripMake ==
  /\ trip.task = "make"
  /\ \E out \in MakeOutcomes(Project) :
       /\ projects' = [projects EXCEPT ![ShapeDir].files = out.files]
       /\ \/ trip' = [trip EXCEPT !.task = "migrate", !.makeCode = out.code]
          \/ TripRaise("timeout")
  /\ UNCHANGED databases

TripMigrate ==
  /\ trip.task = "migrate"
  /\ \E out \in MigrateOutcomes(Project, Database) :
       /\ databases' = [databases EXCEPT ![ShapeDatabase] = out.database]
       /\ \/ trip' = [trip EXCEPT !.task = "generate", !.migrateCode = out.code]
          \/ TripRaise("timeout")
  /\ UNCHANGED projects

\* What is in gen/ when generate-models has ended is kept.
Generate ==
  /\ trip.task = "generate"
  /\ \E out \in GenerateOutcomes(Database) :
       trip' = [trip EXCEPT !.task = "adopt", !.generateCode = out.code, !.files = out.files,
                            !.generated = IF "models" \in out.files THEN out.models ELSE NoModels]
     \/ TripRaise("timeout")
  /\ UNCHANGED stores

\* The generated models replace the declared ones in app/, all but __init__.py.
Adopt ==
  /\ trip.task = "adopt"
  /\ \/ /\ projects' = [projects EXCEPT ![ShapeDir].models = trip.generated]
        /\ trip' = [trip EXCEPT !.task = "rediff"]
     \/ TripRaise("files") /\ UNCHANGED projects
  /\ UNCHANGED databases

\* diff --out json; its return code is not kept.
Rediff ==
  /\ trip.task = "rediff"
  /\ \/ \E out \in DiffOutcomes(Project.models, Database, "diff" \in TripFaults) :
          trip' = [trip EXCEPT !.task = "remake", !.rediff = out]
     \/ TripRaise("timeout")
  /\ UNCHANGED stores

\* That of the second make-migrations is kept and not looked at, and whether it
\* created a file is taken from what it says.
Remake ==
  /\ trip.task = "remake"
  /\ \E out \in MakeOutcomes(Project) :
       /\ projects' = [projects EXCEPT ![ShapeDir].files = out.files]
       /\ \/ trip' = [trip EXCEPT !.task = "done", !.before = Len(Project.files),
                                  !.created = out.said]
          \/ TripRaise("timeout")
  /\ UNCHANGED databases

TripStep ==
  \/ PrepareDatabase \/ Declare \/ TripMake \/ TripMigrate \/ Generate
  \/ Adopt \/ Rediff \/ Remake

TripEnded == trip.task \in {"done", "raised"}

\* Mutant of SetupOk: what migrate returned is not looked at.
SetupOkUnmigrated == trip.makeCode = 0 /\ trip.generateCode = 0 /\ trip.files # {}

\* RoundTripResult.setup_ok: the declared phase did not fail, and left files.
SetupOk ==
  /\ trip.makeCode = 0
  /\ trip.migrateCode = 0
  /\ trip.generateCode = 0
  /\ trip.files # {}

\* RoundTripResult.converged.
Converged ==
  /\ SetupOk
  /\ ~ParsedDifference(trip.rediff)
  /\ ~trip.created
  /\ "bookkeeping" \notin trip.files
-----------------------------------------------------------------------------
TripTypeOK ==
  trip \in [task: TripTasks, makeCode: {0, 1}, migrateCode: {0, 1}, generateCode: {0, 1},
            files: SUBSET {"init", "models", "bookkeeping"}, generated: Schemas,
            rediff: [code: {0, 1}, json: BOOLEAN, differs: BOOLEAN, stderr: BOOLEAN],
            before: Nat, created: BOOLEAN, stale: BOOLEAN]

\* A round trip that is called converged is one: whatever failed on the way, of
\* which nothing ends the run, every migration made from the declared models is
\* in the database that is compared, and the models it is compared with are the
\* generated ones and no declared one beside them.  So is no round trip that
\* failed before it started (round_trip_driver.py:74).  Only a database of an
\* earlier session whose DROP failed may be another.
ConvergedIsFaithful ==
  trip.task = "done" /\ Converged /\ ~trip.stale =>
    /\ Database # NoDatabase
    /\ Database.schema = Reached(SubSeq(Project.files, 1, trip.before))
    /\ Project.models = trip.generated

\* round_trip_driver.py:11: a converged tool produces no diff and no new
\* migration, anything else is drift.
ConvergedMeansNoDrift ==
  trip.task = "done" /\ Converged => Database # NoDatabase /\ trip.generated = Database.schema
=============================================================================
