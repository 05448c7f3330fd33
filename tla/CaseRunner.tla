----------------------------- MODULE CaseRunner -----------------------------
(***************************************************************************)
(* tools/case_runner.py: the cases of a matrix run in the threads of one   *)
(* executor, each in a directory and, on ClickHouse, a database of its own *)
(* on the one server.  A step is one command, one query or a few writes to *)
(* the case's own directory, and may fail without ending the case: the     *)
(* runner asserts nothing, it records.                                     *)
(***************************************************************************)
EXTENDS DbwardenProject, FiniteSets

CONSTANTS
  Cases,     \* records of a slug, a backend, revisions, and what to do with them
  Slugs,     \* case ids as _slug makes them
  Backends,
  ClickHouse,
  Shortened, \* the database name of each slug: the slug cut off at 60 characters
  Workers,   \* max_workers of the executor
  CaseFaults \* what may go wrong outside dbwarden

CaseFaultKinds ==
  {"files",    \* a directory cannot be removed or made
   "query",    \* a query to the server gets no answer, before or after it was executed
   "timeout"}  \* a command is killed after 120 seconds, before or after it did its work

ASSUME CasesAssumption ==
  /\ Cases \subseteq [slug: Slugs, backend: Backends, revisions: Seq(Models),
                      apply: BOOLEAN, rollback: Nat, capture: BOOLEAN]
  /\ IsFiniteSet(Cases)
  /\ Workers \in Nat \ {0}
  /\ CaseFaults \subseteq CaseFaultKinds

\* The suites give every case an id of its own for its backend, and the ids of
\* ClickHouse cases differ in what _slug and [:60] leave of them.
ASSUME DistinctIdsAssumption ==
  \A c, d \in Cases :
    c.backend = d.backend =>
      /\ c.slug = d.slug => c = d
      /\ c.backend = ClickHouse /\ Shortened[c.slug] = Shortened[d.slug] => c = d

VARIABLE job  \* what the thread of each case has reached, and its CaseResult

Tasks ==
  {"idle", "queued", "mkdir", "drop", "create", "init", "write", "make", "migrate", "rollback",
   "capture", "done"}

\* The threads of the executor that are in run().
Running == {c \in Cases : job[c].task \notin {"idle", "queued", "done"}}

\* Mutant of WorkDir: the directory is named after the case id alone.
WorkDirAnyBackend(c) == <<c.slug>>

\* root / f"{case.backend}__{_slug(case.case_id)}"
WorkDir(c) == <<c.backend, c.slug>>

Directories == {WorkDir(c) : c \in Cases}

\* The database by the url_for of the runner: the fixtures hand the ClickHouse
\* cases to a runner whose databases are on the server, the others to one whose
\* database is the file app.db in the directory.  Here cases of both may run side
\* by side, more than the tests do.
DatabaseOf(c) ==
  IF c.backend = ClickHouse THEN <<"server", Shortened[c.slug]>> ELSE <<"file", WorkDir(c)>>

CaseDatabases == {DatabaseOf(c) : c \in Cases}

\* A StepResult: the return code of make-migrations, whether there is SQL in new
\* files, and what became of migrate.
NoStep == [code |-> 0, sql |-> FALSE, migrated |-> "not run"]

\* A CaseResult is there once run() or _run_guarded has returned it; rejected says
\* whether one of its steps has a migrate that failed.  stale is not in the code:
\* it says that a database of that name was there and DROP did not remove it.
NewJob(task) ==
  [task |-> task, revision |-> 0, before |-> 0, step |-> NoStep, rejected |-> FALSE,
   stale |-> FALSE, result |-> "none"]

\* StepResult.generated.
Generated(step) == step.code = 0 /\ step.sql

\* StepResult.verdict; "no-tables" is one way to generate no migration.
StepVerdict(step) ==
  CASE step.code # 0                           -> "generate-failed"
    [] step.code = 0 /\ ~step.sql              -> "no-migration"
    [] Generated(step) /\ step.migrated = "failed"  -> "server-rejected"
    [] Generated(step) /\ step.migrated = "ok"      -> "applied"
    [] Generated(step) /\ step.migrated = "not run" -> "generated"

\* CaseResult.verdict, of the last step there is.
Verdict(c) ==
  IF job[c].result # "recorded" THEN job[c].result
  ELSE IF job[c].revision = 0 THEN "no-steps" ELSE StepVerdict(job[c].step)

CaseInit == job = [c \in Cases |-> NewJob("idle")]

\* Where it goes on after the rollback.
Ending(c) == IF c.capture THEN "capture" ELSE "done"

\* Where run() goes on when it has done the revisions up to this one.
NextTask(c, revision) ==
  CASE revision < Len(c.revisions) -> "write"
    [] revision = Len(c.revisions) /\ c.rollback > 0 -> "rollback"
    [] revision = Len(c.revisions) /\ c.rollback = 0 -> Ending(c)

\* run() goes on, or returns its result to the executor.
Advance(c, entry) ==
  job' = [job EXCEPT ![c] = IF entry.task = "done" THEN [entry EXCEPT !.result = "recorded"]
                            ELSE entry]

Goto(c, task) == Advance(c, [job[c] EXCEPT !.task = task])

\* Mutant of Raise: run_all maps run and not _run_guarded, so the exception
\* leaves the iteration over the results and cancels what is still queued.
RaiseUnguarded(c) ==
  job' = [d \in Cases |->
            IF d = c \/ job[d].task = "queued" THEN [job[d] EXCEPT !.task = "done"] ELSE job[d]]

\* _run_guarded: an exception ends the case and becomes its result.
Raise(c) == job' = [job EXCEPT ![c].task = "done", ![c].result = "harness-error"]

\* cli.run kills a command after its timeout, whatever it has done by then.
TimesOut(c) == "timeout" \in CaseFaults /\ Raise(c)

\* Mutant of Take: max_workers is not handed to the executor.
TakeAtOnce(c) == job[c].task = "queued" /\ Goto(c, "mkdir") /\ UNCHANGED stores

\* A thread of the executor takes up a case.
Take(c) ==
  /\ job[c].task = "queued"
  /\ Cardinality(Running) < Workers
  /\ Goto(c, "mkdir")
  /\ UNCHANGED stores

\* Whatever is in the directory is removed, a database file included.
MakeDirectory(c) ==
  /\ job[c].task = "mkdir"
  /\ \/ /\ projects' = [projects EXCEPT ![WorkDir(c)] = EmptyProject]
        /\ IF c.backend = ClickHouse
           THEN Goto(c, "drop") /\ UNCHANGED databases
           ELSE /\ databases' = [databases EXCEPT ![DatabaseOf(c)] = EmptyDatabase]
                /\ Goto(c, "init")
     \/ "files" \in CaseFaults /\ Raise(c) /\ UNCHANGED stores

\* Mutant of DropDatabase: _prepare_database is left out, and a database that is
\* there already is taken as it is.
DropDatabaseNot(c) ==
  /\ job[c].task = "drop"
  /\ Goto(c, "init")
  /\ UNCHANGED stores

\* clickhouse_query returns an error instead of raising it, and nobody looks.
DropDatabase(c) ==
  /\ job[c].task = "drop"
  /\ \/ /\ databases' = [databases EXCEPT ![DatabaseOf(c)] = NoDatabase]
        /\ Goto(c, "create")
     \/ /\ "query" \in CaseFaults
        /\ Advance(c, [job[c] EXCEPT !.task = "create",
                                     !.stale = databases[DatabaseOf(c)] # NoDatabase])
        /\ UNCHANGED databases
  /\ UNCHANGED projects

\* So does CREATE DATABASE, which fails when the database was not dropped.
CreateDatabase(c) ==
  /\ job[c].task = "create"
  /\ \/ /\ databases[DatabaseOf(c)] = NoDatabase
        /\ databases' = [databases EXCEPT ![DatabaseOf(c)] = EmptyDatabase]
     \/ /\ "query" \in CaseFaults \/ databases[DatabaseOf(c)] # NoDatabase
        /\ UNCHANGED databases
  /\ Goto(c, "init")
  /\ UNCHANGED projects

\* dbwarden init, whose result is ignored, and the config the commands go by.
InitProject(c) ==
  /\ job[c].task = "init"
  /\ \/ /\ projects' = [projects EXCEPT ![WorkDir(c)].config = DatabaseOf(c)]
        /\ Goto(c, NextTask(c, 0))
     \/ TimesOut(c) /\ UNCHANGED projects
  /\ UNCHANGED databases

\* The next revision replaces the models; the files there are counted.
WriteRevision(c) ==
  /\ job[c].task = "write"
  /\ projects' = [projects EXCEPT ![WorkDir(c)].models = c.revisions[job[c].revision + 1]]
  /\ Advance(c, [job[c] EXCEPT !.task = "make", !.before = Len(projects[WorkDir(c)].files)])
  /\ UNCHANGED databases

\* Generated SQL is what is in the files that were not there before.
MakeMigrations(c) ==
  /\ job[c].task = "make"
  /\ \E out \in MakeOutcomes(projects[WorkDir(c)]) :
       LET revision == job[c].revision + 1
           step == [code |-> out.code, sql |-> Len(out.files) > job[c].before,
                    migrated |-> "not run"]
       IN  /\ projects' = [projects EXCEPT ![WorkDir(c)].files = out.files]
           /\ \/ Advance(c, [job[c] EXCEPT
                     !.task = IF c.apply /\ Generated(step) THEN "migrate"
                              ELSE NextTask(c, revision),
                     !.revision = revision, !.step = step])
              \/ TimesOut(c)
  /\ UNCHANGED databases

\* The database dbwarden goes to is the one the config in the directory names.
Migrate(c) ==
  LET project == projects[WorkDir(c)]
  IN  /\ job[c].task = "migrate"
      /\ \E out \in MigrateOutcomes(project, databases[project.config]) :
           /\ databases' = [databases EXCEPT ![project.config] = out.database]
           /\ \/ Advance(c, [job[c] EXCEPT
                               !.task = NextTask(c, job[c].revision),
                               !.step.migrated = IF out.code = 0 THEN "ok" ELSE "failed",
                               !.rejected = @ \/ out.code # 0])
              \/ TimesOut(c)
      /\ UNCHANGED projects

RollBack(c) ==
  LET config == projects[WorkDir(c)].config
  IN  /\ job[c].task = "rollback"
      /\ \E out \in RollbackOutcomes(databases[config], c.rollback) :
           /\ databases' = [databases EXCEPT ![config] = out.database]
           /\ Goto(c, Ending(c)) \/ TimesOut(c)
      /\ UNCHANGED projects

\* The diffs online and offline, and the live schema; nothing depends on them.
Capture(c) ==
  /\ job[c].task = "capture"
  /\ Goto(c, "done") \/ TimesOut(c)
  /\ UNCHANGED stores

CaseStep(c) ==
  \/ Take(c)          \/ MakeDirectory(c)  \/ DropDatabase(c)
  \/ CreateDatabase(c) \/ InitProject(c)   \/ WriteRevision(c)
  \/ MakeMigrations(c) \/ Migrate(c)       \/ RollBack(c)      \/ Capture(c)

\* run_all: every case is given to the executor.  The with statement ends, and
\* the list of results is there, when all threads have ended.
SubmitAll == job' = [c \in Cases |-> NewJob("queued")] /\ UNCHANGED stores

AllEnded == \A c \in Cases : job[c].task = "done"
-----------------------------------------------------------------------------
AtWork == {"write", "make", "migrate", "rollback", "capture"}

\* What the migrations of a case may lead to.
Targets(c) == {c.revisions[i] : i \in DOMAIN c.revisions} \cup {Wrong}

\* What app/models.py holds: make is run for the revision that is counted next.
Written(c) ==
  LET revision == IF job[c].task = "make" THEN job[c].revision + 1 ELSE job[c].revision
  IN  IF revision = 0 THEN NoModels ELSE c.revisions[revision]

RolledBack(c) == job[c].task \in {"capture", "done"} /\ c.rollback > 0

CaseTypeOK ==
  /\ job \in [Cases -> [task: Tasks, revision: Nat, before: Nat, rejected: BOOLEAN,
                        stale: BOOLEAN,
                        step: [code: {0, 1}, sql: BOOLEAN,
                               migrated: {"not run", "ok", "failed"}],
                        result: {"none", "recorded", "harness-error"}]]
  /\ Cardinality(Running) <= Workers
  /\ \A c \in Cases : job[c].revision <= Len(c.revisions)

\* No case disturbs another (case_runner.py:223: every case gets its own
\* database so the matrix can run in parallel): the directory a running case
\* works in has its own models and config and only migrations made from models
\* of its own, and its database, where it is not one that could not be dropped,
\* has been played from the files in that directory and from nothing else,
\* whatever the other threads do and whatever an earlier run left in it.
CasesAreIsolated ==
  \A c \in Running :
    LET project == projects[WorkDir(c)]
        database == databases[DatabaseOf(c)]
    IN  /\ job[c].task \in AtWork =>
             /\ project.config = DatabaseOf(c)
             /\ \A i \in DOMAIN project.files : project.files[i] \in Targets(c)
             /\ project.models = Written(c)
        /\ job[c].task \in AtWork \cup {"init"} /\ ~job[c].stale =>
             database = NoDatabase \/ IsPlayedFrom(database.history, project.files)

\* From when migrate has answered until the results are looked at, a step that is
\* "applied" has its schema in the database: the one its migrations lead to, of
\* which the last was made for this revision.  That is so whatever happens to the
\* other cases, and though make-migrations may have failed before, left a file
\* and gone on.  There are two ways to be wrong that nobody sees: a database of an
\* earlier session whose DROP failed, and a migration that failed before, after
\* which run() goes on (case_runner.py:242-261), while the verdict is that of the
\* last step alone (case_runner.py:126).
AppliedIsInTheDatabase ==
  \A c \in Cases :
    LET files == projects[WorkDir(c)].files
    IN  /\ \/ job[c].task \in AtWork /\ StepVerdict(job[c].step) = "applied"
           \/ job[c].task = "done" /\ Verdict(c) = "applied"
        /\ ~RolledBack(c)
        => \/ /\ databases[DatabaseOf(c)].schema = Reached(files)
              /\ Reached(files) \in {c.revisions[job[c].revision], Wrong}
           \/ job[c].stale
           \/ job[c].rejected
=============================================================================
