--------------------------- MODULE DbwardenProject ---------------------------
(***************************************************************************)
(* What the drivers in tools/ share: the projects they make below a        *)
(* temporary directory, the databases on the server or in a file, and the  *)
(* commands of dbwarden.  The command line tool is not in the repository:  *)
(* a command is the set of outcomes it may have, as far as the drivers     *)
(* tell them apart, and a driver chooses one of them in a step.            *)
(***************************************************************************)
EXTENDS Naturals, Sequences

CONSTANTS
  Models,      \* the contents of a model file; migrating to one makes the schema of that name
  NoModels,    \* no model file, and the schema of an empty database
  Torn,        \* the schema a migration leaves that fails half way
  Wrong,       \* the schema of a migration that leads to none of the declared ones
  NoProject,   \* a directory that does not exist
  NoDatabase   \* a database that does not exist

VARIABLES
  projects,    \* the project in each work directory
  databases    \* each database by name, or by the directory that holds its file

stores == <<projects, databases>>

Schemas == Models \cup {NoModels, Torn, Wrong}

\* A database has a schema and the history of the migrations applied to it.
Databases == [schema: Schemas, history: Seq(Schemas)]

ASSUME SchemasAssumption ==
  /\ Models \cap {NoModels, Torn, Wrong} = {}
  /\ NoModels # Torn /\ NoModels # Wrong /\ Torn # Wrong
  /\ NoDatabase \notin Databases

\* A directory as a driver makes it: only app/__init__.py is in it.
EmptyProject == [models |-> NoModels, config |-> NoDatabase, files |-> <<>>]

\* A database as CREATE DATABASE or a first connection to a file makes it.
EmptyDatabase == [schema |-> NoModels, history |-> <<>>]

\* The schema after a list of migrations, each the models it leads to.
Reached(migrations) ==
  IF migrations = <<>> THEN NoModels ELSE migrations[Len(migrations)]

\* The applied versions are the first migration files, in their order.
IsPlayedFrom(history, files) ==
  /\ Len(history) <= Len(files)
  /\ \A i \in 1..Len(history) : history[i] = files[i]

\* What the database may be once the migrations up to number n are applied:
\* dbwarden goes by version numbers and plays the files that come after the last
\* one applied.  Where they lead is only known from a schema that is the one of
\* the history; over what a failed migration or rollback left it is not.
Played(project, database, n) ==
  LET pending == SubSeq(project.files, Len(database.history) + 1, n)
      schemas == IF pending = <<>> THEN {database.schema}
                 ELSE IF database.schema = Reached(database.history) THEN {Reached(pending)}
                 ELSE {Reached(pending), Torn}
  IN  [schema: schemas, history: {database.history \o pending}]

\* dbwarden make-migrations: succeeds or fails, writes a file that leads to the
\* models, one that does not, or none, and may say that it created one.
MakeOutcomes(project) ==
  [code: {0, 1}, said: BOOLEAN,
   files: {project.files} \cup {Append(project.files, s) : s \in {project.models, Wrong}}]

\* dbwarden migrate: everything pending, or a failure after some of it, perhaps
\* in the middle of a migration.  Without a database it fails.
MigrateOutcomes(project, database) ==
  IF database = NoDatabase THEN {[code |-> 1, database |-> NoDatabase]}
  ELSE LET After(n) == Played(project, database, n)
           HalfWay(n) == {[after EXCEPT !.schema = Torn] : after \in After(n)}
       IN  [code: {0}, database: After(Len(project.files))]
           \cup UNION {[code: {1}, database: After(n) \cup HalfWay(n)]
                         : n \in 0..Len(project.files)}

\* dbwarden rollback --count n: some of the last n are undone, whatever it exits
\* with.  Whether their SQL restores the schema is what the suites test.
RollbackOutcomes(database, n) ==
  IF database = NoDatabase THEN {[code |-> 1, database |-> NoDatabase]}
  ELSE LET Undone(k) == SubSeq(database.history, 1, Len(database.history) - k)
           Left(k) == {Torn, IF k = 0 THEN database.schema ELSE Reached(Undone(k))}
       IN  UNION {[code: {0, 1}, database: [schema: Left(k), history: {Undone(k)}]]
                    : k \in {i \in 0..n : i <= Len(database.history)}}

\* What a diff does that fails.
FailedDiff == [code |-> 1, json |-> FALSE, differs |-> FALSE, stderr |-> TRUE]

\* dbwarden diff: prints whether models and database differ, with or without
\* something on stderr, or fails.  Where it may err, it may be wrong about that,
\* or print it as something that is no JSON.
DiffOutcomes(models, database, err) ==
  IF database = NoDatabase THEN {FailedDiff}
  ELSE {FailedDiff}
         \cup [code: {0}, json: {TRUE}, differs: {models # database.schema}, stderr: BOOLEAN]
         \cup IF err THEN [code: {0}, json: BOOLEAN, differs: BOOLEAN, stderr: BOOLEAN] ELSE {}

\* dbwarden generate-models --output gen: writes the package and perhaps models,
\* those of the schema or others, and perhaps some of dbwarden's own tables.
GenerateOutcomes(database) ==
  {[code |-> 1, files |-> {}, models |-> NoModels]}
    \cup IF database = NoDatabase THEN {}
         ELSE [code: {0, 1}, models: {database.schema, Torn, Wrong},
               files: {{"init"}, {"init", "models"}, {"init", "models", "bookkeeping"}}]

\* _parse_diff and parse_diff_output of stdout followed by stderr: the JSON
\* must run to the end of the text, and where there is none nothing differs.
ParsedDifference(diff) == diff.json /\ ~diff.stderr /\ diff.differs
=============================================================================
