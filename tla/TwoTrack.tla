------------------------------ MODULE TwoTrack ------------------------------
(***************************************************************************)
(* One workspace of the MCP server: its model file, what the server        *)
(* remembers of it, its two databases and the tools that work on them      *)
(* (server.py, track_a.py, track_b.py, bundle.py, inspector.py).  The      *)
(* server serves one call at a time, so a run of the two tracks is a       *)
(* sequence of steps nothing interleaves with, any of which may end it.    *)
(*                                                                         *)
(* A models source is the order of the columns it declares: the pairs of   *)
(* columns of one table of which the first does not come after the second. *)
(* A table exists in it when its key column does.  A database's schema is  *)
(* such an order too.  dbwarden's own tables are left out: the comparator  *)
(* skips them.                                                             *)
(***************************************************************************)
EXTENDS Naturals, Sequences

CONSTANTS
  Tables, Columns,  \* table names, names of columns other than the key
  Key,              \* the key column of every table
  Contents,         \* the sources a client writes with write_model_file
  Paths,            \* where it writes them: a subset of ModelPaths
  Modes,            \* reference modes it asks for: a subset of ReferenceModes
  Touched,          \* the tables it creates or drops with query_database
  Faults,           \* what may go wrong: a subset of FaultKinds
  MaxWrites,        \* bound on calls of write_model_file
  MaxMutations,     \* bound on calls of apply_mutation
  MaxEdits,         \* bound on calls of either
  Blank,            \* the empty source: it declares no Base
  NoSource,         \* no such file, no such source
  NoPlan            \* no plan file

(*   cli      a dbwarden command exits with an error                       *)
(*   timeout  a dbwarden command is killed after its timeout               *)
(*   miss     make-migrations overlooks what has changed in some tables    *)
(*   defect   of a migration reported as applied, some tables are left out *)
(*   load     executing the model source raises                            *)
(*   ddl      SQLAlchemy's DDL is refused                                  *)
(*   dump     dumping a schema fails                                       *)
(*   parse    the comparator meets SQL it does not support                 *)
(*   write    a file of the proof bundle cannot be written                 *)
FaultKinds ==
  {"cli", "timeout", "miss", "defect", "load", "ddl", "dump", "parse", "write"}

ModelPaths == {"app/models.py", "nested/app/models.py"}
ReferenceModes == {"nuclear", "incremental"}

Cells == Tables \X (Columns \cup {Key})

Pairs == {p \in Cells \X Cells : p[1][1] = p[2][1]}

CellsIn(schema) == {cell \in Cells : <<cell, cell>> \in schema}

\* Each table's columns are in a line.
Ordered(s) ==
  /\ \A p \in s : p[1] \in CellsIn(s) /\ p[2] \in CellsIn(s)
  /\ \A p \in Pairs :
       p[1] \in CellsIn(s) /\ p[2] \in CellsIn(s) => p \in s \/ <<p[2], p[1]>> \in s
  /\ \A p \in s : <<p[2], p[1]>> \in s => p[1] = p[2]
  /\ \A p, q \in s : p[2] = q[1] => <<p[1], q[2]>> \in s

\* SQLAlchemy maps no table without a primary key.
Models == {s \in SUBSET Pairs :
             Ordered(s) /\ \A cell \in CellsIn(s) : <<cell[1], Key>> \in CellsIn(s)}

\* A migration: the tables it drops, the columns it drops from others, and the
\* columns it adds, those of a new table included, in their order.
Change == [tables : SUBSET Tables, drop : SUBSET Cells, add : SUBSET Pairs]

ASSUME TwoTrackAssumption ==
  /\ Key \notin Columns
  /\ \A source \in Contents : source = Blank \/ source \in Models
  /\ Paths \subseteq ModelPaths
  /\ Modes \subseteq ReferenceModes
  /\ Touched \subseteq Tables
  /\ Faults \subseteq FaultKinds
  /\ MaxWrites \in Nat /\ MaxMutations \in Nat /\ MaxEdits \in Nat
  /\ Blank # NoSource
  /\ \A source \in SUBSET Pairs : source \notin {Blank, NoSource}
  /\ \A change \in Change : change # NoPlan

VARIABLES
  disk,      \* app/models.py in the workspace directory
  base,      \* Workspace.base_models_source
  current,   \* Workspace.current_models_source
  mutations, \* Workspace.mutations
  frozen,    \* Workspace.frozen
  dbA, dbB,  \* the schemas of the two databases
  tracked,   \* dbwarden: the columns its migrations so far lead to
  pending,   \* dbwarden: its migrations that are not recorded as applied
  plan,      \* dbwarden: the plan file of its last migration
  missed,    \* dbwarden has overlooked a change in this run
  pc,        \* the step of run_two_track_test, "idle" between calls
  mode,      \* its reference_mode
  verdict,   \* how the last run ended
  written,   \* how many parts of the evidence are in the bundle
  manifest,  \* how many of them manifest.json lists
  readOnly,  \* the bundle's files are read-only
  writes     \* calls of write_model_file so far

modelVars  == <<disk, base, current, mutations>>
databases  == <<dbA, dbB>>
dbwarden   == <<tracked, pending, plan, missed>>
bundleVars == <<written, manifest, readOnly>>
vars == <<disk, base, current, mutations, frozen, dbA, dbB, tracked, pending,
          plan, missed, pc, mode, verdict, written, manifest, readOnly, writes>>

May(fault) == fault \in Faults

-----------------------------------------------------------------------------
(* Sources and schemas                                                     *)

\* What SQLAlchemy's metadata holds once the source is executed.
Declared(source) == IF source = Blank THEN {} ELSE source

TablesOf(cells) == {t \in Tables : <<t, Key>> \in cells}

TablesIn(schema) == TablesOf(CellsIn(schema))

CellsOf(tables) == tables \X (Columns \cup {Key})

Without(schema, cells) == {p \in schema : p[1] \notin cells /\ p[2] \notin cells}

\* The added columns come after those a table has.
Extended(schema, added) ==
  schema \cup added
  \cup {p \in Pairs : p[1] \in CellsIn(schema) /\ p[2] \in CellsIn(added)}

Mutation == [type : {"add_column", "drop_column"}, table : Tables, column : Columns]

Cell(m) == <<m.table, m.column>>

\* mutations.py:apply_mutation finds the class of the table, and the column
\* is new, or there to drop.
Applicable(m, source) ==
  /\ source \notin {Blank, NoSource}
  /\ m.table \in TablesIn(source)
  /\ (m.type = "add_column") <=> (Cell(m) \notin CellsIn(source))

\* A new column goes to the end of its class.
Mutated(source, m) ==
  IF m.type = "add_column" THEN Extended(source, {<<Cell(m), Cell(m)>>})
                           ELSE Without(source, {Cell(m)})

\* metadata.drop_all and create_all: only tables the metadata knows.
Recreated(schema, declared) ==
  Without(schema, CellsOf(TablesIn(declared))) \cup declared

-----------------------------------------------------------------------------
Init ==
  /\ disk = NoSource /\ base = NoSource /\ current = NoSource
  /\ mutations = <<>>
  /\ frozen = FALSE
  /\ dbA = {} /\ dbB = {}
  /\ tracked = {} /\ pending = <<>> /\ plan = NoPlan /\ missed = FALSE
  /\ pc = "idle"
  /\ mode = "nuclear"
  /\ verdict = "none"
  /\ written = 0 /\ manifest = 0 /\ readOnly = FALSE
  /\ writes = 0

-----------------------------------------------------------------------------
(* The tools that edit                                                     *)

\* Mutant: the frozen flag is not looked at.
EditableWhenFrozen == pc = "idle"

Editable == pc = "idle" /\ ~frozen

EditsLeft == writes + Len(mutations) < MaxEdits

\* Mutant: the first write sets the base source only.
WriteModelFileBaseOnly(path, content) ==
  /\ Editable
  /\ writes < MaxWrites /\ EditsLeft
  /\ writes' = writes + 1
  /\ disk' = (IF path = "app/models.py" THEN content ELSE disk)
  /\ IF base = NoSource THEN base' = content /\ UNCHANGED current
                        ELSE current' = content /\ UNCHANGED base
  /\ UNCHANGED <<mutations, frozen, databases, dbwarden, pc, mode, verdict,
                 bundleVars>>

\* write_model_file; the state follows every path that ends in app/models.py.
WriteModelFile(path, content) ==
  /\ Editable
  /\ writes < MaxWrites /\ EditsLeft
  /\ writes' = writes + 1
  /\ disk' = (IF path = "app/models.py" THEN content ELSE disk)
  /\ base' = (IF base = NoSource THEN content ELSE base)
  /\ current' = content
  /\ UNCHANGED <<mutations, frozen, databases, dbwarden, pc, mode, verdict,
                 bundleVars>>

\* Mutant: every mutation edits the base source.
ApplyMutationToBase(m) ==
  /\ Editable
  /\ Len(mutations) < MaxMutations /\ EditsLeft
  /\ Applicable(m, base)
  /\ disk' = Mutated(base, m)
  /\ current' = disk'
  /\ mutations' = Append(mutations, m)
  /\ UNCHANGED <<base, frozen, databases, dbwarden, pc, mode, verdict,
                 bundleVars, writes>>

\* apply_mutation edits the file it finds on disk.
ApplyMutation(m) ==
  /\ Editable
  /\ Len(mutations) < MaxMutations /\ EditsLeft
  /\ Applicable(m, disk)
  /\ disk' = Mutated(disk, m)
  /\ base' = (IF base = NoSource THEN disk' ELSE base)
  /\ current' = disk'
  /\ mutations' = Append(mutations, m)
  /\ UNCHANGED <<frozen, databases, dbwarden, pc, mode, verdict,
                 bundleVars, writes>>

\* Mutant: a frozen workspace is not protected from queries that write.
QueryWriteWhenFrozen(t) ==
  /\ pc = "idle"
  /\ dbA' = (IF t \in TablesIn(dbA) THEN Without(dbA, CellsOf({t}))
                                    ELSE dbA \cup {<<<<t, Key>>, <<t, Key>>>>})
  /\ UNCHANGED <<modelVars, frozen, dbB, dbwarden, pc, mode, verdict,
                 bundleVars, writes>>

\* query_database with read_only false: a client creates or drops a table of
\* Track A behind dbwarden's back.
QueryWrite(t) ==
  /\ Editable
  /\ dbA' = (IF t \in TablesIn(dbA) THEN Without(dbA, CellsOf({t}))
                                    ELSE dbA \cup {<<<<t, Key>>, <<t, Key>>>>})
  /\ UNCHANGED <<modelVars, frozen, dbB, dbwarden, pc, mode, verdict,
                 bundleVars, writes>>

-----------------------------------------------------------------------------
(* run_two_track_test, Track A                                             *)

\* `workspace.base_models_source or current`: an empty base does not count.
BaseSource == IF base \in {NoSource, Blank} THEN current ELSE base

RunTwoTrackTest(m) ==
  /\ Editable
  /\ current # NoSource
  /\ pc' = "init"
  /\ mode' = m
  /\ verdict' = "none"
  /\ missed' = FALSE
  /\ UNCHANGED <<modelVars, frozen, databases, tracked, pending, plan, bundleVars,
                 writes>>

\* dbwarden init; then the base source is put on disk.
TrackAInit ==
  /\ pc = "init"
  /\ disk' = BaseSource
  /\ pc' = "make-base"
  /\ UNCHANGED <<base, current, mutations, frozen, databases, dbwarden, mode,
                 verdict, bundleVars, writes>>

\* From what dbwarden's migrations lead to, to the columns of the target.  Of a
\* table they both have, the order is not compared.
ChangeTo(target) ==
  LET gone == TablesOf(tracked) \ TablesIn(target) IN
  [tables |-> gone,
   drop   |-> (tracked \ CellsIn(target)) \ CellsOf(gone),
   add    |-> {p \in target : p[1] \notin tracked /\ p[2] \notin tracked}]

\* What a change is about some tables only.
Part(change, tables) ==
  [tables |-> change.tables \cap tables,
   drop   |-> change.drop \cap CellsOf(tables),
   add    |-> {p \in change.add : p[1][1] \in tables}]

NoChange(change) == change.tables = {} /\ change.drop = {} /\ change.add = {}

Dropped(change) == CellsOf(change.tables) \cup change.drop

\* Mutant of PlanFor: the first plan is kept, as the one sorted first.
PlanForFirst(change) == IF plan # NoPlan THEN plan ELSE change

\* The plan written beside a migration; _read_latest_plan reads the last one.
PlanFor(change) == change

\* A migration file is written, unless there is nothing to migrate.
Record(change) ==
  IF NoChange(change) THEN UNCHANGED <<tracked, pending>>
  ELSE /\ tracked' = (tracked \ Dropped(change)) \cup CellsIn(change.add)
       /\ pending' = Append(pending, change)

\* dbwarden make-migrations: a migration from its last state to the models,
\* with a plan beside it.
MakeMigrations(from, to) ==
  /\ pc = from
  /\ \E tables \in SUBSET Tables :
       LET whole  == ChangeTo(Declared(disk))
           change == Part(whole, tables) IN
       /\ tables = Tables \/ May("miss")
       /\ Record(change)
       /\ plan' = (IF NoChange(change) THEN plan ELSE PlanFor(change))
       /\ missed' = (missed \/ change # whole)
  /\ pc' = to
  /\ UNCHANGED <<modelVars, frozen, databases, mode, verdict, bundleVars, writes>>

Migrated(schema, change) == Extended(Without(schema, Dropped(change)), change.add)

\* A database refuses to drop what it does not have, and to add what it has
\* or has no table for.
Fits(schema, change) ==
  /\ change.tables \subseteq TablesIn(schema)
  /\ change.drop \subseteq CellsIn(schema)
  /\ \A cell \in CellsIn(change.add) :
       /\ cell \notin CellsIn(schema)
       /\ <<cell[1], Key>> \in CellsIn(schema) \cup CellsIn(change.add)

Making    == pc \in {"make-base", "make"}
Migrating == pc \in {"migrate-base", "migrate"}

\* dbwarden migrate applies the pending migrations in their order, and records
\* each of them.
ApplyMigration ==
  /\ Migrating
  /\ pending # <<>>
  /\ \E tables \in SUBSET Tables :
       LET change == Part(Head(pending), tables) IN
       /\ tables = Tables \/ May("defect")
       /\ Fits(dbA, change)
       /\ dbA' = Migrated(dbA, change)
  /\ pending' = Tail(pending)
  /\ UNCHANGED <<modelVars, frozen, dbB, tracked, plan, missed, pc, mode, verdict,
                 bundleVars, writes>>

\* Mutant: the mutated source is not put on disk.
TrackAMigrateBaseOnly ==
  /\ pc = "migrate-base"
  /\ pending = <<>>
  /\ pc' = "make"
  /\ UNCHANGED <<modelVars, frozen, databases, dbwarden, mode, verdict,
                 bundleVars, writes>>

\* The base is in; the mutated source is put on disk.
TrackAMigrateBase ==
  /\ pc = "migrate-base"
  /\ pending = <<>>
  /\ disk' = current
  /\ pc' = "make"
  /\ UNCHANGED <<base, current, mutations, frozen, databases, dbwarden, mode,
                 verdict, bundleVars, writes>>

TrackAMigrate ==
  /\ pc = "migrate"
  /\ pending = <<>>
  /\ pc' = "load"
  /\ UNCHANGED <<modelVars, frozen, databases, dbwarden, mode, verdict,
                 bundleVars, writes>>

\* What of a migration is done when it is refused half-way.
PartlyApplied ==
  /\ \E tables \in SUBSET Tables :
       LET change == Part(Head(pending), tables) IN
       Fits(dbA, change) /\ dbA' = Migrated(dbA, change)
  /\ UNCHANGED dbwarden

\* What a dbwarden command that did not end well leaves: its work is not done,
\* is done in part, or is done.
Interrupted ==
  \/ UNCHANGED <<dbA, dbwarden>>
  \/ /\ Making
     /\ \E tables \in SUBSET Tables :
          LET change == Part(ChangeTo(Declared(disk)), tables) IN
          /\ Record(change)
          /\ plan' \in (IF NoChange(change) THEN {plan} ELSE {plan, PlanFor(change)})
     /\ UNCHANGED <<dbA, missed>>
  \/ Migrating /\ pending # <<>> /\ PartlyApplied

\* A command of Track A fails, or the dump after the last one does.
TrackAFails ==
  /\ \/ May("cli") /\ (pc = "init" \/ Making \/ Migrating) /\ Interrupted
     \/ Migrating /\ pending # <<>> /\ ~Fits(dbA, Head(pending)) /\ PartlyApplied
     \/ May("dump") /\ pc = "load" /\ UNCHANGED <<dbA, dbwarden>>
  /\ verdict' = "track-a-failed"
  /\ pc' = "return"
  /\ UNCHANGED <<modelVars, frozen, dbB, mode, bundleVars, writes>>

-----------------------------------------------------------------------------
(* run_two_track_test, Track B                                             *)

\* run_track_b_incremental falls back on the nuclear path.
NuclearPath ==
  \/ mode = "nuclear"
  \/ mutations = <<>>
  \/ \E i \in DOMAIN mutations : mutations[i].type # "add_column"

\* Mutant: the base source is loaded last on both paths.
TrackBLoadBaseLast ==
  /\ pc = "load"
  /\ disk' = BaseSource
  /\ IF Blank \in {current, BaseSource}
     THEN verdict' = "track-b-failed" /\ pc' = "return"
     ELSE pc' = "reference-ddl" /\ UNCHANGED verdict
  /\ UNCHANGED <<base, current, mutations, frozen, databases, dbwarden, mode,
                 bundleVars, writes>>

\* _load_models_module writes each source it loads to app/models.py: the
\* current one and, for the incremental path, the base after it.
TrackBLoad ==
  /\ pc = "load"
  /\ disk' = (IF NuclearPath THEN current ELSE BaseSource)
  /\ IF current = Blank \/ (~NuclearPath /\ BaseSource = Blank)
     THEN verdict' = "track-b-failed" /\ pc' = "return"
     ELSE pc' = "reference-ddl" /\ UNCHANGED verdict
  /\ UNCHANGED <<base, current, mutations, frozen, databases, dbwarden, mode,
                 bundleVars, writes>>

\* Mutant: create_all without drop_all, which leaves the tables there are.
TrackBNuclearCreateOnly ==
  /\ pc = "reference-ddl"
  /\ NuclearPath
  /\ dbB' = dbB \cup Without(Declared(current), CellsOf(TablesIn(dbB)))
  /\ pc' = "compare"
  /\ UNCHANGED <<modelVars, frozen, dbA, dbwarden, mode, verdict,
                 bundleVars, writes>>

TrackBNuclear ==
  /\ pc = "reference-ddl"
  /\ NuclearPath
  /\ dbB' = Recreated(dbB, Declared(current))
  /\ pc' = "compare"
  /\ UNCHANGED <<modelVars, frozen, dbA, dbwarden, mode, verdict,
                 bundleVars, writes>>

Seeded == Recreated(dbB, Declared(BaseSource))

\* The first n recorded mutations are columns of the mutated metadata, and new
\* ones of tables Track B has, each recorded once.
Addable(n) ==
  /\ \A i \in 1..n : /\ Cell(mutations[i]) \in CellsIn(Declared(current)) \ CellsIn(Seeded)
                     /\ mutations[i].table \in TablesIn(Seeded)
  /\ \A i, j \in 1..n : Cell(mutations[i]) = Cell(mutations[j]) => i = j

AddedBy(n) ==
  {p \in Pairs :
     \E i, j \in 1..n : i <= j /\ p = <<Cell(mutations[i]), Cell(mutations[j])>>}

\* Track B once the first n recorded mutations are applied.
Altered(n) == Extended(Seeded, AddedBy(n))

TrackBIncremental ==
  /\ pc = "reference-ddl"
  /\ ~NuclearPath
  /\ Addable(Len(mutations))
  /\ dbB' = Altered(Len(mutations))
  /\ pc' = "compare"
  /\ UNCHANGED <<modelVars, frozen, dbA, dbwarden, mode, verdict,
                 bundleVars, writes>>

\* A statement of the DDL, or the dump after it, fails.  What was altered
\* before is rolled back, or not where DDL commits at once.
TrackBFails ==
  /\ \/ May("ddl") /\ pc = "reference-ddl"
        /\ dbB' \in {dbB, IF NuclearPath THEN Recreated(dbB, Declared(current)) ELSE Seeded}
     \/ /\ pc = "reference-ddl" /\ ~NuclearPath /\ ~Addable(Len(mutations))
        /\ \E n \in 0..Len(mutations) : Addable(n) /\ dbB' = Altered(n)
     \/ May("dump") /\ pc = "compare" /\ UNCHANGED dbB
  /\ verdict' = "track-b-failed"
  /\ pc' = "return"
  /\ UNCHANGED <<modelVars, frozen, dbA, dbwarden, mode, bundleVars, writes>>

-----------------------------------------------------------------------------
(* run_two_track_test, the comparison and the proof bundle                 *)

\* The comparator sorts the tables, and keeps the order of their columns.
CompareIdentical ==
  /\ pc = "compare"
  /\ dbA = dbB
  /\ verdict' = "passed"
  /\ pc' = "return"
  /\ UNCHANGED <<modelVars, frozen, databases, dbwarden, mode, bundleVars,
                 writes>>

\* assemble_proof_bundle freezes the workspace before it writes anything.
CompareDiverged ==
  /\ pc = "compare"
  /\ dbA # dbB
  /\ frozen' = TRUE
  /\ verdict' = "diverged"
  /\ pc' = "evidence"
  /\ UNCHANGED <<modelVars, databases, dbwarden, mode, bundleVars, writes>>

\* classify_divergence: "95" without a plan, or when all its operations are
\* standard.  That is so of tables and columns that are created and of columns
\* that are dropped; dropping a table is not a standard operation.
Classification == IF plan = NoPlan \/ plan.tables = {} THEN "95" ELSE "5"

Evidence == <<"input", "track_a", "track_b", "comparator", "classification",
              "reproduction">>

WriteEvidence ==
  /\ pc = "evidence"
  /\ written < Len(Evidence)
  /\ written' = written + 1
  /\ UNCHANGED <<modelVars, frozen, databases, dbwarden, pc, mode, verdict,
                 manifest, readOnly, writes>>

\* Mutant: the manifest may be written before the last part.
WriteManifestEarly ==
  /\ pc = "evidence"
  /\ manifest' = written
  /\ pc' = "read-only"
  /\ UNCHANGED <<modelVars, frozen, databases, dbwarden, mode, verdict,
                 written, readOnly, writes>>

WriteManifest ==
  /\ pc = "evidence"
  /\ written = Len(Evidence)
  /\ manifest' = written
  /\ pc' = "read-only"
  /\ UNCHANGED <<modelVars, frozen, databases, dbwarden, mode, verdict,
                 written, readOnly, writes>>

MakeReadOnly ==
  /\ pc = "read-only"
  /\ readOnly' = TRUE
  /\ pc' = "return"
  /\ UNCHANGED <<modelVars, frozen, databases, dbwarden, mode, verdict,
                 written, manifest, writes>>

-----------------------------------------------------------------------------
Return ==
  /\ pc = "return"
  /\ pc' = "idle"
  /\ UNCHANGED <<modelVars, frozen, databases, dbwarden, mode, verdict,
                 bundleVars, writes>>

\* An exception nothing in run_two_track_test catches ends the call: what is
\* on disk, in the databases and in the bundle stays.
Raise ==
  /\ \/ /\ May("timeout") /\ (pc = "init" \/ Making \/ Migrating)
        /\ Interrupted /\ UNCHANGED disk
     \/ /\ May("load") /\ pc = "load"
        /\ disk' \in {current} \cup (IF NuclearPath THEN {} ELSE {BaseSource})
        /\ UNCHANGED <<dbA, dbwarden>>
     \/ /\ \/ May("parse") /\ pc = "compare"
           \/ May("write") /\ pc \in {"evidence", "read-only"}
        /\ UNCHANGED <<disk, dbA, dbwarden>>
  /\ verdict' = "raised"
  /\ pc' = "idle"
  /\ UNCHANGED <<base, current, mutations, frozen, dbB, mode,
                 bundleVars, writes>>

Edit ==
  \/ \E path \in Paths, content \in Contents : WriteModelFile(path, content)
  \/ \E m \in Mutation : ApplyMutation(m)
  \/ \E t \in Touched : QueryWrite(t)

TrackA ==
  \/ TrackAInit \/ ApplyMigration \/ TrackAMigrateBase \/ TrackAMigrate
  \/ TrackAFails
  \/ MakeMigrations("make-base", "migrate-base")
  \/ MakeMigrations("make", "migrate")

TrackB == TrackBLoad \/ TrackBNuclear \/ TrackBIncremental \/ TrackBFails

Conclude ==
  \/ CompareIdentical \/ CompareDiverged
  \/ WriteEvidence \/ WriteManifest \/ MakeReadOnly \/ Return

\* Between two calls of a frozen workspace only reads are left.
Frozen == pc = "idle" /\ frozen /\ UNCHANGED vars

Next ==
  \/ Edit \/ TrackA \/ TrackB \/ Conclude \/ Raise \/ Frozen
  \/ \E m \in Modes : RunTwoTrackTest(m)

Spec == Init /\ [][Next]_vars

-----------------------------------------------------------------------------
(* Properties                                                              *)

Sources == {Blank, NoSource} \cup Models

\* Every variable keeps its kind of value; the server's two sources are set
\* together (server.py:_write_model_file_internal), and a bundle never says
\* more than it holds.
TypeOK ==
  /\ disk \in Sources /\ base \in Sources /\ current \in Sources
  /\ mutations \in Seq(Mutation) /\ Len(mutations) <= MaxMutations
  /\ frozen \in BOOLEAN /\ readOnly \in BOOLEAN
  /\ dbA \subseteq Pairs /\ dbB \subseteq Pairs
  /\ tracked \subseteq Cells /\ pending \in Seq(Change)
  /\ plan \in Change \cup {NoPlan} /\ missed \in BOOLEAN
  /\ pc \in {"idle", "init", "make-base", "migrate-base", "make", "migrate", "load",
             "reference-ddl", "compare", "evidence", "read-only", "return"}
  /\ mode \in Modes \cup {"nuclear"}
  /\ verdict \in {"none", "passed", "diverged", "track-a-failed",
                  "track-b-failed", "raised"}
  /\ written \in 0..Len(Evidence) /\ manifest \in 0..written
  /\ writes \in 0..MaxWrites
  /\ base = NoSource <=> current = NoSource

\* What a schema says of some tables.
About(schema, tables) == {p \in schema : p[1][1] \in tables}

\* A run that reports "passed" on the nuclear path is right about the tables
\* the current source declares: Track A's database has exactly their columns in
\* their order, whatever earlier runs, failures and defects of dbwarden left
\* behind.
PassIsSound ==
  pc = "return" /\ verdict = "passed" /\ NuclearPath =>
    About(dbA, TablesIn(Declared(current))) = Declared(current)

\* What is in a proof bundle stays true of the live workspace: once the first
\* part is written, and for as long as the workspace exists, the two databases
\* differ as the bundle says and the workspace takes no more edits.
BundleDescribesWorkspace == written > 0 => frozen /\ dbA # dbB

\* A bundle is classified as not standard exactly when a table leaves the models,
\* whatever plans earlier runs, failed commands or the base have left in
\* migrations/primary.  Two things make it wrong, and no third: dbwarden overlooks
\* a change, or the mutation changes no column; then the run's last command
\* may write no plan, and the one found there is about something else.
MisclassifiedIsExplained ==
  LET lost == TablesIn(Declared(BaseSource)) \ TablesIn(Declared(current)) IN
  pc = "evidence" /\ ~(Classification = "95" <=> lost = {}) =>
    missed \/ CellsIn(Declared(current)) = CellsIn(Declared(BaseSource))

\* A bundle left half-written by an error cannot be taken for a whole one: a
\* manifest lists every part of the evidence, and only a bundle with a manifest
\* is made read-only.
ManifestIsWhole ==
  /\ manifest > 0 => manifest = Len(Evidence)
  /\ readOnly => manifest > 0

\* Nothing a client or a run does changes a frozen workspace: its sources, its
\* mutation log, its databases and dbwarden's state are what they were.
FrozenIsImmutable ==
  [][frozen => UNCHANGED <<modelVars, databases, dbwarden>> /\ frozen']_vars

\* Where nothing fails, nobody touches Track A and the declared tables stay the
\* same, the nuclear path blames dbwarden for no missing and no extra column,
\* however often the client edits and reruns: a run that ends in a divergence
\* found the same columns in another order.
AlarmIsAboutOrder == verdict = "diverged" => CellsIn(dbA) = CellsIn(dbB)

\* Between two calls the file on disk is the source the server remembers, so
\* that the next mutation edits what the last run tested.
DiskIsCurrent == pc = "idle" => disk = current

\* The columns there are after the mutations of a log: the last mutation of a
\* column decides.
Decides(log, i, cell) ==
  Cell(log[i]) = cell /\ \A j \in DOMAIN log : j > i => Cell(log[j]) # cell

Replayed(log, cells) ==
  {cell \in Cells :
     \/ \E i \in DOMAIN log : Decides(log, i, cell) /\ log[i].type = "add_column"
     \/ cell \in cells /\ \A i \in DOMAIN log : Cell(log[i]) # cell}

\* Violated by the incremental path.  With one model file written, the current
\* source has the columns of that file with the recorded mutations applied
\* (docs/mcp-server.md: apply_mutation "edits current model source and records
\* mutation").
LogExplainsCurrent ==
  writes = 1 =>
    CellsIn(Declared(current)) = Replayed(mutations, CellsIn(Declared(base)))

\* Violated when a table leaves the model.  When the comparison starts, the
\* reference of the nuclear path is the schema of the current metadata
\* (docs/mcp-server.md: "`nuclear` recreates reference schema from current
\* SQLAlchemy metadata").
NuclearReferenceIsCurrent ==
  pc = "compare" /\ NuclearPath => dbB = Declared(current)
=============================================================================
