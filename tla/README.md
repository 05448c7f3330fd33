# dbwarden-harness in TLA+

The harness tests the migration tool `dbwarden` from outside: it starts real
databases, runs the installed command line, and compares what the databases
look like with what SQLAlchemy makes of the same models. Its core is an MCP
server (`mcp_server/`) that hands a client isolated *workspaces*, each with two
databases taken from a pool of warm Docker containers, and runs *two-track
tests* in them. Beside it, pytest suites drive `dbwarden` through the *drivers*
in `tools/`: a matrix of cases in parallel threads, a round trip through
generated models, a player of single commands. These modules specify both;
paths below are relative to the repository.

## Inventory

| Component | State | Operations | What makes it correct |
| --- | --- | --- | --- |
| Container pool, `mcp_server/pool.py` | a queue of idle providers per backend, `_stopped`, a lock, a daemon thread | `start`, `stop`, `claim`, `release`, `_top_up` | one owner for each container; lent reset, in the version asked for; nothing lost; queues topped up; nothing left at exit |
| Workspaces, `workspace.py` | `_workspaces`; for each its providers, network, sources, mutation log, `frozen` | `initialize`, `destroy`, `freeze`, `resolve_path` | isolated pairs of databases; a failed initialisation holds nothing; a frozen workspace never changes |
| Networks, `network.py` | a Docker network | `create`, `connect`, `disconnect`, `remove` | removed with the workspace; a container is on its tenant's network only |
| Server, `server.py` | none of its own | nine tools, `_cleanup` | the frozen flag tested by every tool that edits; shutdown in the right order, twice |
| Track A, `track_a.py` | the model file, dbwarden's migrations, a database | init, make-migrations and migrate, twice | the mutated source is what is migrated and dumped |
| Track B, `track_b.py` | a database | nuclear and incremental reference | the reference is the schema of the current models |
| Bundle, `bundle.py` | a directory | freeze, evidence, manifest, permissions | it describes the workspace, for ever; a partial one shows |
| Inspector, mutations, comparator, classifier, dumper | none | a query, an edit, a comparison, a label, a dump | they say what the databases and sources hold |
| Docker and SQLite providers, `infrastructure/providers/` | a container or a file | `start`, `stop`, `reset`, `version` | stopped means gone; ready means reachable |
| ClickHouse cluster, `clickhouse_cluster.py` | network, keeper, nodes, a directory | `start`, `stop` | a failed start leaves nothing behind |
| Case runner, `tools/case_runner.py` | a directory and a database for each case, an executor | `run`, `run_all` | no case disturbs another; every case has a result; "applied" is in the database |
| Round-trip driver, `round_trip_driver.py` | a directory, a database | `run`, `converged` | a failed command never counts as convergence |
| Migration player, schema runner, drift checker | a directory, a database, snapshots | commands, `capture`, `diff`, assertions | an assertion that passes is true |
| Suite fixtures, `suites/generative/conftest.py` | a provider for the session | set-up, tests, tear-down | the server answers while a test runs, and is stopped |
| Snapshots, offline integrity, probes, benchmarks, reports, matrix, plugins, provenance | files | straight-line scripts and look-ups | the judgement follows from the inputs |

How they interact. `mcp.run()` serves one tool call at a time, as the tools are
synchronous functions, so the main thread is sequential; it shares the queues
and `_stopped` with the pool's refill thread under one lock. A tool call on a
workspace goes to `WORKSPACES`, which calls `POOL` and the networks; a test run
calls Track A, Track B, the comparator and, when they differ, the bundle.
`_cleanup` destroys every workspace into the pool and then drains it, once in
`run_server`'s `finally` and once from `atexit`. The drivers do not use the
server. A session fixture gives them the URL of one ClickHouse server, its own
container or one that is running already; the threads of a matrix, the round
trip and later sessions all make databases on it, under names that come from
case ids, and `dbwarden` reads which one to use from the config in the
directory it is run in.

What is hard. The refill thread interleaves with claim, release and stop.
Every call of Docker, of a database, of `dbwarden` and of the file system may
fail, in the middle of an operation whose earlier steps are not undone.
Exceptions are swallowed in some places (`_safe_stop`, `disconnect`, `remove`,
`_refill_loop`) and end the call in others (`initialize`). State outlives a
call in five places at once: the file on disk, the workspace object, two
databases and dbwarden's migrations. The drivers ignore most errors on purpose
and judge afterwards from what they kept, so a step that failed must not look
like one that had nothing to do.

## Modules

| Module | What it is |
| --- | --- |
| `ContainerPool` | pool, workspaces, networks and shutdown with both threads |
| `ContainerLedger` | the abstract specification: who holds a container, is it dirty, which workspaces are open |
| `ContainerPoolRefinement` | the refinement mapping from the first to the second |
| `ContainerPoolProofs` | who holds which container: types and owners |
| `ContainerPoolTenancyProofs` | what state a container is in when it changes hands |
| `ContainerPoolCapacityProofs` | how many there are, and what no failing call loses |
| `ContainerPoolLedgerProofs` | the pool implements the ledger |
| `MCContainerPool` | constants for TLC |
| `TwoTrack` | one workspace: editing, test runs, freezing and the bundle |
| `TwoTrackProofs` | theorems about `TwoTrack` |
| `MCTwoTrack` | constants for TLC |
| `ClickHouseCluster` | start and stop of the two-node cluster |
| `ClickHouseClusterProofs` | theorems about `ClickHouseCluster` |
| `Reproduction` | the script of a proof bundle, run by whoever gets the bundle |
| `DbwardenProject` | what the drivers share: projects, databases, the outcomes of each command |
| `CaseRunner` | a matrix of cases in the threads of one executor |
| `RoundTripDriver` | one round trip through generated models |
| `DriftChecker` | captures of a schema and their comparison, as operators |
| `MigrationPlayer` | a test that chooses its commands and checks, with the schema runner |
| `DockerProvider` | the life of one provider object and its container |
| `SuiteSession` | a pytest session: the fixture, the tests in order, the four modules above composed |
| `CaseRunnerProofs`, `SuiteSessionProofs` | lemmas about the cases; theorems about the session |
| `MCSuiteSession` | constants for TLC |

Properties stand at the end of the module they are about. A definition whose
comment begins with "Mutant" is a wrong version of the one named beside it; no
specification uses it. It is there to show that a property can fail.

### ContainerPool

`container[p]` is the running container behind provider object `p`, with the
backend and version it was started for, whether it was reset since a tenant had
it, and the networks it is on. `queue`, `stopped`, `registered` are `_queues`,
`_stopped`, `_workspaces`; `lease[w]` is the pair of providers of `w`, in
`initialize`'s locals or in its `Workspace`. The main thread is `pc`, `phase`
(serving, in `finally`, in `atexit`, ending, exited), `current` and `track`; the
refill thread is `rpc`, `todo`, `rbackend`, `left`, `warming`.

A step of a thread is a stretch of code up to the next library call or lock
operation that the other thread may see. `claim` is the choice under the lock,
the cold start when nothing matches, then reset and connect; `initialize` claims
twice, then registers. `Raise` is the exception that leaves `initialize`: the
locals are gone, the containers and the network are not. `destroy` takes the
workspace out of `_workspaces` first, then disconnects, resets and appends each
provider, then removes the network. `stop()` sets the flag, then holds the lock
while it stops one idle provider after another (`pc = "drain"`, `LockFree`).
`_top_up` reads a queue's length under the lock (`RefillScan`), starts that
many containers without it and appends each under it.

Abstractions: a queue is a set, so `claim` takes any matching provider where the
code takes the first; the two-second sleep is a point where the thread may be
for any time; connection and reset in `claim` are one step, as nothing the other
thread reads changes between them. A reset clears what it looks at:
`PostgresProvider.reset` drops the schema `public` and no other, so objects a
client made elsewhere survive it; `clean` says nothing of those. `Providers`
bounds how many containers are ever running at once. A workspace id is used
again once nothing refers to it, as `uuid4` makes new ones. In `release`, `if
self._stopped` cannot be reached while the tool calls are serial (`_cleanup`
destroys before it stops, and the second pass finds no workspaces); the guard is
in the model all the same.

`Faults` names which library calls may fail: `launch` (the container does not
start), `ready` (it starts, but the database does not answer in 60 seconds),
`reset`, `connect`, `disconnect`, `stop`, `url`, `network`.

### TwoTrack

`disk` is `app/models.py`; `base`, `current`, `mutations`, `frozen` are the
fields of `Workspace`. A source, and a schema in `dbA` and `dbB`, is the order
of the columns of each table: the set of pairs of columns of one table the first
of which does not come after the second, so that a column added to a table is
the union of three sets (`Extended`), and the schemas the comparator gets are
equal when their columns and the order of these are (`comparator.py:98` keeps
it). `tracked` is the set of columns dbwarden's migrations so far lead to,
`pending` the migrations that are not recorded as applied, and `plan` is the
last plan file in `migrations/primary`, the one `_read_latest_plan` returns:
`make-migrations` writes none when nothing changed, so it may be the plan of the
base, of an earlier run or of a command that failed. `Classification` is what
`classify_divergence` makes of it, over the operations a source can cause here;
all columns have a standard type. `pc` is the step of `run_two_track_test`, each
step being one command or one file write, but `migrate`, which applies one
migration in a step; `Raise` is an exception nothing in it catches, so the call
ends and everything stays.

`dbwarden` and SQLAlchemy are not in the repository. They are modelled from how
they are used and marked external in the map: `make-migrations` records the
difference between the models on disk and the state its migrations lead to
(`ChangeTo`), or what of it is about some of the tables, when it overlooks the
others; `migrate` applies what is pending in its order, each migration if it
fits the database; `drop_all` and `create_all` act on the tables of the metadata
and no others. What `make-migrations` compares is columns, not their order, as
no `ALTER TABLE` changes that. A command that fails or is killed has done
nothing, a part, or all of its work (`Interrupted`).

`Faults`: a command fails (`cli`) or is killed (`timeout`); `make-migrations`
exits with 0 and has overlooked a change (`miss`); a migration is reported as
applied and was so in part (`defect`; both are what the harness is there to
find); the source cannot be executed (`load`), DDL is refused (`ddl`), a dump
fails (`dump`), the comparator does not understand the SQL (`parse`), a file of
the bundle cannot be written (`write`).

### Reproduction

`files` are the paths below the bundle as the writers of `bundle.py` leave them,
`cwd` the directory of the script, `line` the commands that have ended well,
`status` its exit status. Under `set -eu` a command that fails ends the script
with its status, and a name without a value with 1. `named` says whether what
the first `echo` expands has a value: the text after `dbwarden==` is a dollar
sign and the value of `DBWARDEN_UNDER_TEST`, by default `$latest`. `writable`
says whether the script's user may write to `input/`, which `_make_read_only`
forbids all but root. `dbwarden init` may make `app/` or not; the other
commands succeed or fail and leave the dumps alone. `diff` exits with 0, 1 or 2,
by its manual.

### ClickHouseCluster

`held` is what `_network`, `_keeper` and `_nodes` refer to; `exists` and
`attached` are what Docker has and which containers are on the network of their
`start()`. A thing is a name and the number of the `start()` that made it, so
what a failed start left is told from what the next one makes. `pc` and `at`
walk through `_start_keeper` and `_start_nodes`: launch, connect, wait, with the
Keeper waited for at once and the nodes after both run. The Keeper is in its
field once it is launched; a node is appended to `_nodes` when it is connected.
`StartFails` is the `except` of `start()`, followed by `stop()`, whose calls may
fail and are suppressed; the nodes go before the Keeper, the Keeper before the
network, which Docker removes only when nothing is on it (external).

Left out: the directory of the configuration files, whose finaliser removes it
in any case, and the order of the two nodes in `stop()`. `except Exception` does
not catch an interrupt from the keyboard; that is not modelled.

`Faults`: the network is not created (`create`), a container does not start
(`launch`), cannot be connected (`connect`) or does not answer in time
(`ready`), the mapped port of a node that is in `_nodes` cannot be read
(`port`), a container cannot be stopped (`stop`), the network not be removed
(`remove`).

### DbwardenProject

`projects[d]` is the project in a work directory: the models in `app/`, the
database its config names, its migration files in order. `databases[n]` is a
database by name: a schema and the history of applied migrations. A schema is
named by the models it is the schema of; `Torn` is one that belongs to none, and
`Wrong` one that a migration leads to that is not the one asked for. The
directory and database of a case are computed as the code computes them, and the
commands go to the database the config in the directory names, so that a
collision of names shows. Which outcomes a command may have is external and
stated once (`MakeOutcomes`, `MigrateOutcomes`, ...); every driver chooses among
them, and none is narrower than what the drivers rely on: `make-migrations` may
exit with 0 or 1, write a file that leads to the models, a wrong one or none,
and say that it created one or not; `migrate` may fail after some of what is
pending, half way through one of it; where it succeeds the schema is the one of
the last migration, unless a failed migration or rollback had left another than
the history says, in which case it may be torn after all; `diff` fails, or tells
whether models and schema differ, and, where the run says so, is wrong or prints
no JSON.

### CaseRunner

`job[c]` is the thread of a case and its `CaseResult`: the task it has reached,
the revision it is at, the number of files before `make-migrations`, the last
`StepResult`, whether one of its steps was refused by the server (`rejected`, in
the list of steps), and how the case ended. `stale` is not in the code; it
records that a database of that name was there and `DROP` did not remove it,
which the code does not look at. A step is one command, one query or the writes
to the case's own directory. A query may be executed without its answer
arriving, a command may be killed (`TimesOut`) before or after its work; an
exception is caught by `_run_guarded` (`Raise`). `DistinctIdsAssumption` is what
the suites provide: ids that differ on their backend, and for ClickHouse in what
`_slug` and `[:60]` leave of them. That cases with one id on two backends have
two directories is not assumed; it follows from how the directory is named. A
matrix here may have cases of both backends, where the tests give each backend a
runner of its own.

### RoundTripDriver, DriftChecker and MigrationPlayer

`trip` is what `run` of the round-trip driver has reached and its
`RoundTripResult`; `SetupOk` and `Converged` are the properties of those names,
over what was kept; `created` is what `make-migrations` said, not what it did.
`stale` is as in `CaseRunner`. `DriftChecker` has no state: `CaptureSql` and
`CaptureClickHouse` say which facets of a schema each capture keeps, `Drift` is
`diff`. `play` is a test with the player: it edits its project, runs the
commands in any order up to `MaxCommands`, captures and asserts; `restored` says
that `assert_equal` has just passed, until the next command. What history and a
plain `diff` print is not in the repository, and what a reference schema lists
(`References`) not derived from the models: the other assertions are actions
that decide whether a test goes on, and no property speaks of them.

### DockerProvider and SuiteSession

`server` is the container, whether `_container` refers to it, and which calls
have failed. `session` is where pytest is, the tests it still has to run and
whether the server is a foreign one. The fixture calls `start()` before its
`try`; some tests call it inside one; both are there. `EndTest` waits for the
driver (for `run_all`, for every thread: the executor is left through its `with`
statement) and forgets the directories and file databases of the test, which are
below a `tmp_path` no other test has. Databases on the server stay, and a
foreign server may have some of earlier sessions (`Leftovers`).

## Runs

| Run | Instance | Shows |
| --- | --- | --- |
| `pool_faults` | 4 providers, 2 workspace ids, limit 2, 2 versions, target 1, all faults | `SingleOwner`, `OwnedAreRunning`, `PooledAreReady`, `WorkspacesAreIsolated`, `LossesAreFailedCalls`; the pool implements `ContainerLedger` |
| `pool_serving` | 2 backends, targets 2 and 0, 6 providers, 2 workspace ids, limit 1, no faults; fairness; no symmetry | `NothingIsLost`, `PopulationBound`, `ExitLeavesOnlyWarm`, `Replenished`, `ShutdownEnds` |
| `pool_exit` | no faults | violation of `PoolIsShutDown` |
| `track_faults` | 2 tables, 1 more column, 3 edits, 1 of them a mutation, both modes, both paths, all faults, client SQL | `PassIsSound`, `BundleDescribesWorkspace`, `ManifestIsWhole`, `MisclassifiedIsExplained`, `FrozenIsImmutable` |
| `track_clean` | 1 table, 2 more columns, 1 write, 3 mutations, nuclear, no faults | `AlarmIsAboutOrder`, `DiskIsCurrent`, `LogExplainsCurrent` |
| `track_log` | the same in incremental mode, 2 mutations | violation of `LogExplainsCurrent` |
| `track_nuclear` | 2 tables, then one | violation of `NuclearReferenceIsCurrent` |
| `cluster_faults` | 3 calls of `start()`, all faults | `StartedIsWhole`, `LossesAreFailedCalls` |
| `cluster_dispose` | 1 call of `start()`, `connect` fails | violation of `FailureIsDisposed` |
| `suite` | a player and then a round trip, or a matrix of 3 cases in 2 threads, all faults; fairness | `CasesAreIsolated`, `AppliedIsInTheDatabase`, `EveryCaseIsAnswered`, `ConvergedIsFaithful`, `RestoredIsTheSame`, `ServerOutlivesTests`, `LeftRunningIsExplained`, `SessionEnds` |
| `round_trip` | one round trip; no fault, and no `diff` that is wrong | violation of `ConvergedMeansNoDrift` |
| `reproduction` | one bundle with two different dumps, with and without the name and the permission | violation of `ExitTellsTheBug` |

Every passing run also checks the `TypeOK` of its module, but `pool_serving` and
`track_clean`, whose modules have it in another run. `track_faults` has 3.4
million states, `pool_serving` 1.2 million, `suite` and `pool_faults` about half
a million each; each takes about two minutes.

Bounds. Two workspaces with two tracks, a queue and the refill thread are all
the kinds of owner a container can have, and two of the kind that comes in
numbers. Four providers are what two workspaces need, so the refill thread and a
claim also meet when none is left; the one that is refilled while the workspaces
hold theirs is in `pool_serving`. There the bound on containers is 4 for the
warmed backend and 6 providers could exceed it, one workspace is allowed and two
ask; the race it is about is that of a length read earlier, and needs no fault.
With faults it is a theorem. Two versions let a container be in the queue and
not match. Two backends matter to the loop over backends and the drain only, so
they are in the run that is about them. In `TwoTrack` three edits give a base, a
different current source and one that goes back, a table that comes and goes,
and a mutation before or after any of them (`MaxEdits`); the three mutations of
`track_clean` drop a column, add another and add the first again, which is what
it takes for the order to differ. The number of test runs is not bounded, since
the state they leave is finite. `Permutations` of providers and of workspace ids
is sound as no definition chooses among them; the liveness run does without.
Three calls of `start()` give a cluster that failed, one started after it and
one after a `stop()`, with what the earlier ones lost still there.

In `suite`, the three cases are two of one id on two backends, which would share
a directory named by the id alone, and one beside them without revisions. The
ClickHouse case has two revisions, the second of which may be applied over what
a refused first one left; a file case is rolled back and captured. Two workers
are the fewest that interleave, and leave a third case queued when one raises.
One case only has a database on the server, which an earlier session may have
left with two migrations applied; that two cases on one server keep apart is the
theorem `Isolation`. The round trip has the id of a case, so it finds such a
database too. Four commands let a test of the player capture, migrate, roll back
and compare. The session takes one collection or the other: the player has a
file of its own, and of a matrix and a round trip in one session each makes its
database afresh, as it does over what an earlier session left.

Fairness. `FairSpec` is weak fairness of `Proceed`, the main thread between two
tool calls, and of `Refill`. The code justifies both: every library call
returns (Docker, HTTP and SQL clients have timeouts, `wait_for_connection` has
one of 60 seconds), both threads are runnable whenever they are not in one, and
the lock is held for one step of a runnable thread, or by `stop()`, which only
makes calls of that kind. No fairness is assumed of the client: it need never
call, and never stop the server. `Replenished` is checked in a run whose starts
do not fail, as a daemon that refuses every start cannot be topped up.

The session's `FairSpec` is weak fairness of `Progress` as a whole: of all that
pytest and the threads of the executor can do next, something is done. That is
justified as every command has a timeout of 120 seconds, every query one of its
own, and `wait_for_connection` one of 60; it is enough because each case, round
trip and test has finitely many steps. Nothing is assumed of the container,
which may boot for ever.

What the violations say. `PoolExit`: `stop()` neither joins the refill thread
nor makes it look at `_stopped` before it appends, so a container that is being
started during shutdown is one that nothing in the harness stops any more, where
`docs/mcp-server.md` says the pool is shut down on exit (the reaper of the
testcontainers library, outside the repository, may remove it);
`ExitLeavesOnlyWarm` bounds the damage. `TrackLog`: the incremental path loads
the base models last, and loading writes them to `app/models.py`; the next
mutation edits that file. `TrackNuclear`: `drop_all` drops the tables of the
current metadata, so Track B keeps a table that has left the models and reports
a difference that is none of dbwarden's doing. `ClusterDispose`: a node is
connected before it is in `_nodes`, so when the connection fails `stop()` does
not know the node. `round_trip`: `converged` looks at the return codes of the
declared phase only; a second diff that fails, or whose JSON is followed by
something from stderr, reads as "no difference", and with a second
`make-migrations` that writes nothing a round trip that drifted is called
converged. `ConvergedIsFaithful` says what converged does mean whatever the last
commands report: every declared migration is in the database that was compared,
and the generated models alone were compared with it. `reproduction`: the
script's first command expands a name that by default has no value, which ends
it with 1, and the script says 1 means that the report was spurious; with a name
that has one, its commands need to write to `input/`, which is read-only; as
root it gets to compare the dumps from inside `input/`, where they are not, and
`diff` exits with 2; and had it found them, status 0 would need dumps that do
not differ, while the script says 0 means that the bug is reproducible.

What the properties leave open, where the code does. A bundle may be classified
by a plan that is about something else in two cases
(`MisclassifiedIsExplained`): `dbwarden` overlooks a change, which is what the
harness is there to find, or the mutation changes no column. An alarm may be
about the order of columns (`AlarmIsAboutOrder`): drop `c`, add `d`, add `c`
again, and Track A, where `d` was added to a table that had `c`, differs from
what `create_all` makes. A case may be called applied though an earlier
migration of it was refused, or on top of a database whose `DROP` failed
(`AppliedIsInTheDatabase`), and a round trip converged on one
(`ConvergedIsFaithful`). Each of these is named in the property, and the
property says that there is no other.

`PassIsSound` is stated for the nuclear path. On the incremental path it is
false: when the model file was rewritten after a mutation was recorded, the
reference is the base plus the log, and a defect can agree with that. The code
calls this path best effort.

## Proofs

`ContainerPoolProofs` proves, for all values of the constants that satisfy
`ConstantsAssumption` and `NullsAssumption` (the null values are none of the
real ones; targets and limits are natural numbers; sets of providers and
workspaces are finite):

* `TypeCorrect`: `Spec => []TypeOK`;
* `ExclusiveOwnership`: `Spec => []SingleOwner`;
* `OwnersHoldRunningContainers`: `Spec => []OwnedAreRunning`.

None of the three is inductive alone. The invariant `IInv` adds `Control`, which
says what a program counter tells about the leases: in `prepare` and during
release the track of `current` has a container, a registered workspace has both
of its own, and the refill thread holds one exactly while it is about to append.
A step that appends a provider keeps `SingleOwner` because `Control` says it was
leased to the track that gives it up, and `SingleOwner` before the step that
nobody else had it; a step that stops one keeps `OwnedAreRunning` because
`SingleOwner` says nobody else holds it; a step that launches one takes it from
`Unused`, and by `OwnedAreRunning` nobody owns a provider that is not running.
`TypeStep` and `ControlStep` go through the actions one by one. For the other
two parts `OtherSteps` first shows that an action leaves the owners as they are
and stops nothing, or is one of the nine in which a container changes hands;
`RunningStep` and `OwnerStep` are then about those nine. `Invariance` joins the
four.

`ContainerPoolTenancyProofs` proves, for every set of faults:

* `PoolHandsOutReadyContainers`: `Spec => []PooledAreReady`;
* `TenantsAreIsolated`: `Spec => []WorkspacesAreIsolated`;
* `ContainerLossesAreListed`: `Spec => LossesAreFailedCalls`.

What is in a queue came out of a track, and what a workspace holds came out of a
queue, so neither invariant is inductive without what is between. Both hold
where `disconnect` fails too, when a container keeps a network behind: no
registered workspace has it, as an id is not used again while a network of that
name is there (`Membership`). `Tenancy` is `IInv` with `Slots`, which tracks can
hold anything at each step of `initialize` and `release`, and `Ready`: the two
properties, with `Building` (what a claimed container is before its workspace is
registered), `Leaving` (what a released one has undone) and `WarmingIsFresh`.
`Slots` is what keeps a container a track still has from being forgotten when
its workspace is gone. For the losses, either a container has just been started
and nobody took it, or it had an owner and the step left it none
(`LostByOwner`); `LossStep` finds each of these steps on the list.

`ContainerPoolCapacityProofs` proves `PopulationIsBounded` (`Spec =>
[]PopulationBound`) for every set of faults, and under `Faults = {}`
`NothingIsLostWithoutFaults` (`Spec => []NothingIsLost`) and
`ExitLeavesOnlyWarmWithoutFaults` (`Spec => []ExitLeavesOnlyWarm`). Without that
hypothesis the last two are false: `LossesAreFailedCalls` lists how. The bound
needs `Capacity`. A refill reads the length of a queue and appends later, so
what has to stay below the bound is not the containers in use but those and what
the loop will still add (`Limits`, with `Pledged`); a claim adds a container
only when no idle one matches and the workspaces in use, the one being built
among them, are within the limit (`Seats`). For a server without faults `NoLoss`
says that no container is nobody's and each network somebody's; `Closing` gives
the order of the phases; `OnlyWarm` says that after the first drain the queues
hold fresh containers of the default version and, with what is pledged, no more
than the target. The counts rest on the library's theorems about `Cardinality`;
`KindStays` and the lemmas after it say how each step changes what is held.

`ContainerPoolLedgerProofs` proves `PoolImplementsLedger`: `Spec =>
ImplementsLedger`, the refinement of `ContainerLedger`, with no hypothesis on
faults. `AnswersAre` shows that the ledger's holder of a container is determined
by which of five it is: absent, pooled, warming, lost, or held by one track.
Each action then moves one container, cleans or soils one, gives up those of one
workspace, opens or closes a workspace, or changes nothing the ledger sees:
`CallIsLedger`, `ClaimIsLedger`, `ReleaseIsLedger` and `RefillIsLedger`. It
needs `Tenancy` before the step and after it: a workspace opens on two clean
containers because of `Building`, and a container in the pool is clean because
of `Ready`.

`TwoTrackProofs` proves, for all tables, columns, contents, modes, faults and
bounds that satisfy `TwoTrackAssumption` (the key is no other column, a client
writes sources SQLAlchemy accepts or blank ones, the null values are no
sources):

* `TypeCorrect`: `Spec => []TypeOK`;
* `PassesAreSound`: `Spec => []PassIsSound`;
* `BundlesStayTrue`: `Spec => []BundleDescribesWorkspace`;
* `ManifestsAreWhole`: `Spec => []ManifestIsWhole`;
* `FrozenStaysFrozen`: `Spec => FrozenIsImmutable`;
* `MisclassificationsAreExplained`: `Spec => []MisclassifiedIsExplained`;
* and, in an undisturbed workspace, `DiskStaysCurrent` (`Spec =>
  []DiskIsCurrent`), `LogStaysTrue` (`Spec => []LogExplainsCurrent`) and
  `AlarmsAreAboutOrder` (`Spec => []AlarmIsAboutOrder`).

Its `IInv` has, beside the types, a part for each thing that must be known in
the middle of a run: `Loaded` (a run has sources and, past `dbwarden init`, a
file), `FrozenAt` (frozen only between two calls or at the bundle, which is
reached with two databases that differ), `ManifestAt` (the manifest is whole
before the files are made read-only), `SoundAt` (on the nuclear path Track B
agrees with the declared tables when the comparison starts) and `PlanAt`, what
is known of `tracked` and `plan` at each step: unless a change was overlooked in
this run, `tracked` is the base after the first `make-migrations`, and after the
second the plan drops the tables the base had and the current source has not,
whenever the two have different columns, whatever plan was there before.
`SoundAt` rests on `RecreatedAsDeclared`: whatever Track B held, `drop_all` and
`create_all` leave the declared tables as they are declared, as a source maps no
table without its key; so a run passes only when Track A has them too. Each part
has a lemma that every action keeps it. That mutations and migrations take
orders to orders is `MutatedIsModel` and `MigratedIsSchema`.

The last three are false in general, as `track_log`, `track_nuclear` and any
fault show. Their hypotheses are what `track_clean` has: `Undisturbed` (no
faults, no SQL of the client, the nuclear path only) and, for the first two,
that the client writes `app/models.py` and not a file elsewhere that ends in
that name; for the third, that all sources it writes declare the same tables.
They hold for every number of writes and mutations. `Followed` says that Track
A's database has the columns dbwarden believes it has, or will once the one
pending migration is applied, so every migration fits and no run fails half-way
but on an empty source (`RunsSucceed`); `Restored` that the base
source is on disk only until Track A has migrated to it; `Agreed` that
the reference never holds a table the source has not, so `Recreated` is exactly
the declared schema (`RecreatedExactly`), and has the columns of Track A: what
is left to differ is their order. `Logged` carries the log:
`ReplayedAppend` says that one more mutation in the log is one more mutation of
the replayed source. `LogExplainsCurrent` says what a log amounts to by the last
mutation of each column, not by folding over the log, so that this lemma needs
no induction.

`ClickHouseClusterProofs` proves, for any set of faults and any number of starts
(`ClusterAssumption`), `TypeCorrect` (`Spec => []TypeOK`), `StartIsAllOrNothing`
(`Spec => []StartedIsWhole`) and `LossesAreListed` (`Spec =>
LossesAreFailedCalls`). Its `IInv` adds to the types and `StartedIsWhole` what
is held (`HeldAt`) and on the network (`AttachedAt`) at each step of a start, so
that the last step leaves the whole cluster.

`SuiteSessionProofs` proves eight properties of the session for every finite set
of cases, every number of workers, every collection of tests, every shape of the
schemas and every set of faults: `TypesHold`, `Isolation` (`CasesAreIsolated`),
`Applied` (`AppliedIsInTheDatabase`), `EveryAnswer` (`EveryCaseIsAnswered`),
`Faithful` (`ConvergedIsFaithful`), `Restored` (`RestoredIsTheSame`), `Served`
(`ServerOutlivesTests`) and `LeftRunning` (`LeftRunningIsExplained`). They rest
on the modules' assumptions: `SchemasAssumption` and the types of the constants
(`CasesAssumption`, `TripAssumption`, `PlayerAssumption`, `SessionAssumption`),
and on `DistinctIdsAssumption`, without which `Isolation` is false.

The argument has two layers. `CaseRunnerProofs` is about one case against the
others. `CaseInv` says of each case what its task tells (`TaskAt`), that its
project is its own and the last file leads to its revision, or astray, when
`migrate` is due (`ProjectAt`), that a database that is not stale has been
played from its files and has the schema of its history as long as nothing was
refused or rolled back (`DatabaseAt`, with `PlayedFor` and `OnTrack`), and that
a migration that was applied is in it, up to the returned result (`AppliedAt`).
`Distinct` shows that two cases have neither directory nor database in common;
so a step of one, which touches only its own (`Kept`), leaves `CaseAt` of the
others. The lemmas about `make-migrations`, `migrate` and `rollback`
(`MakeKeeps`, `MigrateKeeps`, `RollbackKeeps`) say what every outcome of a
command preserves of "played from these files". `SuiteSessionProofs` adds the
round trip (`TripAt`: from `Adopt` on the models in `app/` are the generated
ones, and after a `migrate` that ended well the database has the schema of the
files: `MigratedTo`), the player (`PlayAt`), the fixture (`ServerAt`: a
container that answers while tests run) and `Resting`: a driver whose test is
not running has no state, which is what keeps the three drivers, who share
projects and databases, apart in time. `StepIInv` goes through the actions of
the session.

All invariants above hold in TLC on instances of the size of the runs'. With the
theorems, every safety property of the passing runs is proved; the runs remain
as the check that the definitions mean what they should.

Only model-checked is what no proof here can reach: liveness under fairness
(`Replenished`, `ShutdownEnds`, `SessionEnds`) and `ENABLED`. The violations are
behaviours TLC found and need no proof.

## Not modelled

The `components` of `PROJECT.json` list every part with its status. Left out on
purpose: dumps, reports and other pure input and output; formatting; the
schemas, suites and tests, which use the harness; snapshots and offline
integrity, each call of which compares one file and keeps nothing; probes and
benchmarks, which are straight-line scripts; the text normalisation and the
summary of the schema comparator (`TwoTrack` has its equality); the mutations
that change attributes of a column; the SQLite provider that owns its directory.
Not modelled although it would be of interest: several pytest processes on one
foreign server, whose cases have the same database names; the repository runs
none and `DistinctIdsAssumption` would be false of them.

## Plan

1. Done: `ContainerPool`, its ledger, refinement and first theorems;
   `TwoTrack` and its theorems; `ClickHouseCluster` and its theorems.
2. Done: the drivers and the session that composes them, with theorems for all
   safety properties of the `suite` run; the stale plan and the classifier in
   `TwoTrack`; the reproduction script.
3. Open: `compare_schemas`'s summary as an operator against a reference
   definition; the mutations that change attributes of a column.
4. Done: the other safety properties of the pool, the refinement of the ledger
   and the properties of an undisturbed workspace, proved.
5. Open: a theorem that the incremental path keeps the log true when no
   mutation follows a run; the safety half of the liveness properties, a measure
   of a shutdown or a session that no step lets grow.
