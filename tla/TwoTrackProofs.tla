--------------------------- MODULE TwoTrackProofs ---------------------------
(***************************************************************************)
(* What TwoTrack keeps for every set of tables, columns, sources, modes    *)
(* and faults: its types, a frozen workspace, a bundle that describes it,  *)
(* and a verdict on the nuclear path that is right.                        *)
(***************************************************************************)
EXTENDS TwoTrack, TLAPS

-----------------------------------------------------------------------------
(* Sources and schemas                                                     *)

\* Executing a source gives tables with keys, or none.
LEMMA DeclaredIsModel ==
  ASSUME NEW source \in Sources, source # NoSource
  PROVE  Declared(source) \in Models
<1>1. CASE source = Blank
  <2>1. CellsIn({}) = {}
    BY DEF CellsIn
  <2>2. {} \in Models
    BY <2>1 DEF Models, Ordered
  <2> QED
    BY <1>1, <2>2 DEF Declared
<1>2. CASE source # Blank
  BY <1>2 DEF Declared, Sources
<1> QED BY <1>1, <1>2

\* A source of tables is not the empty one.
LEMMA ModelIsDeclared ==
  ASSUME NEW model \in Models
  PROVE  Declared(model) = model /\ model # NoSource
BY TwoTrackAssumption DEF Declared, Models

\* A model is an order of its columns.
LEMMA ModelIsOrder ==
  ASSUME NEW model \in Models
  PROVE  /\ model \subseteq Pairs
         /\ \A p \in model : p[1] \in CellsIn(model) /\ p[2] \in CellsIn(model)
         /\ \A cell \in CellsIn(model) : <<cell[1], Key>> \in CellsIn(model)
  BY DEF Models, Ordered

\* A pair is of two columns of one table.
LEMMA PairCells ==
  ASSUME NEW p \in Pairs
  PROVE  /\ p = <<p[1], p[2]>> /\ p[1][1] = p[2][1]
         /\ p[1] \in Cells /\ p[1][1] \in Tables /\ p[1][2] \in Columns \cup {Key}
         /\ p[2] \in Cells /\ p[2][1] \in Tables /\ p[2][2] \in Columns \cup {Key}
  BY DEF Pairs, Cells

\* The cells of some tables.
LEMMA CellOfTable ==
  ASSUME NEW cell \in Cells, NEW T
  PROVE  cell \in CellsOf(T) <=> cell[1] \in T
  BY DEF Cells, CellsOf

\* Every column a model declares is in a table it declares.
LEMMA ModelInItsTables ==
  ASSUME NEW model \in Models
  PROVE  \A cell \in CellsIn(model) : cell[1] \in TablesIn(model)
  BY ModelIsOrder DEF CellsIn, Cells, TablesIn, TablesOf

\* What is left without some columns, and what there is with some more.
LEMMA CellsWithout ==
  ASSUME NEW schema \in SUBSET Pairs, NEW cells
  PROVE  /\ Without(schema, cells) \subseteq Pairs
         /\ CellsIn(Without(schema, cells)) = CellsIn(schema) \ cells
  BY DEF Without, CellsIn

LEMMA CellsExtended ==
  ASSUME NEW schema \in SUBSET Pairs, NEW added \in SUBSET Pairs
  PROVE  /\ Extended(schema, added) \subseteq Pairs
         /\ CellsIn(Extended(schema, added)) = CellsIn(schema) \cup CellsIn(added)
<1>1. \A cell \in Cells : <<cell, cell>> \in Pairs
  BY DEF Pairs
<1> QED
  BY <1>1 DEF Extended, CellsIn

\* drop_all and create_all leave tables and columns, the declared ones as they
\* are declared.
LEMMA RecreatedAsDeclared ==
  ASSUME NEW schema \in SUBSET Pairs, NEW model \in Models
  PROVE  /\ Recreated(schema, model) \subseteq Pairs
         /\ About(Recreated(schema, model), TablesIn(model)) = model
<1>1. ASSUME NEW p \in Without(schema, CellsOf(TablesIn(model)))
      PROVE  p[1][1] \notin TablesIn(model)
  BY <1>1, PairCells, CellOfTable DEF Without
<1>2. ASSUME NEW p \in model
      PROVE  p[1][1] \in TablesIn(model)
  BY <1>2, ModelIsOrder, ModelInItsTables
<1> QED
  BY <1>1, <1>2, ModelIsOrder, CellsWithout DEF Recreated, About

\* A mutation is about one column of one table, never about a key.
LEMMA MutationCell ==
  ASSUME NEW m \in Mutation
  PROVE  /\ Cell(m) \in Cells /\ Cell(m)[1] = m.table /\ Cell(m)[2] # Key
         /\ {<<Cell(m), Cell(m)>>} \subseteq Pairs
         /\ CellsIn({<<Cell(m), Cell(m)>>}) = {Cell(m)}
<1>1. Cell(m) \in Cells /\ Cell(m)[1] = m.table /\ Cell(m)[2] # Key
  BY TwoTrackAssumption DEF Mutation, Cell, Cells
<1> QED
  BY <1>1 DEF Pairs, CellsIn

\* The order with one more column at the end.
LEMMA ExtendedByOne ==
  ASSUME NEW schema \in SUBSET Pairs, NEW cell \in Cells
  PROVE  \A p : p \in Extended(schema, {<<cell, cell>>}) <=>
                  \/ p \in schema
                  \/ p = <<cell, cell>>
                  \/ p \in Pairs /\ p[1] \in CellsIn(schema) /\ p[2] = cell
<1>1. \A x : x \in CellsIn({<<cell, cell>>}) <=> x = cell
  BY DEF CellsIn
<1>2. \A p : p \in Extended(schema, {<<cell, cell>>}) <=>
                  \/ p \in schema
                  \/ p = <<cell, cell>>
                  \/ p \in Pairs /\ p[1] \in CellsIn(schema)
                                /\ p[2] \in CellsIn({<<cell, cell>>})
  BY DEF Extended
<1> QED
  BY <1>1, <1>2

\* A mutation adds its column or drops it.
LEMMA MutatedCells ==
  ASSUME NEW source \in SUBSET Pairs, NEW m \in Mutation
  PROVE  /\ Mutated(source, m) \subseteq Pairs
         /\ CellsIn(Mutated(source, m)) =
              IF m.type = "add_column" THEN CellsIn(source) \cup {Cell(m)}
                                       ELSE CellsIn(source) \ {Cell(m)}
<1>1. CASE m.type = "add_column"
  BY <1>1, MutationCell, CellsExtended DEF Mutated
<1>2. CASE m.type # "add_column"
  BY <1>2, CellsWithout DEF Mutated
<1> QED BY <1>1, <1>2

\* A mutation that applies keeps the columns in order, and every table's key.
LEMMA MutatedIsModel ==
  ASSUME NEW source \in Sources, NEW m \in Mutation, Applicable(m, source)
  PROVE  Mutated(source, m) \in Models /\ source \in Models
<1> DEFINE new == Mutated(source, m)
<1>1. source \in Models /\ source \subseteq Pairs /\ <<m.table, Key>> \in CellsIn(source)
  BY ModelIsOrder DEF Applicable, Sources, TablesIn, TablesOf
<1>2. new \subseteq Pairs
  BY <1>1, MutatedCells
<1>3. ASSUME NEW cell \in CellsIn(new)
      PROVE  <<cell[1], Key>> \in CellsIn(new)
  <2>1. cell \in CellsIn(source) \/ cell = Cell(m)
    BY <1>1, <1>3, MutatedCells
  <2>3. <<cell[1], Key>> \in CellsIn(source)
    BY <1>1, <2>1, MutationCell, ModelIsOrder
  <2>2. <<cell[1], Key>> # Cell(m)
    BY TwoTrackAssumption DEF Cell, Mutation
  <2> QED BY <1>1, <2>2, <2>3, MutatedCells
<1>4. Ordered(new)
  <2>1. CASE m.type = "add_column"
    <3>1. Cell(m) \in Cells /\ Cell(m) \notin CellsIn(source)
      BY <2>1, MutationCell DEF Applicable
    <3>2. \A p : p \in new <=>
                 \/ p \in source
                 \/ p = <<Cell(m), Cell(m)>>
                 \/ p \in Pairs /\ p[1] \in CellsIn(source) /\ p[2] = Cell(m)
      BY <1>1, <2>1, <3>1, ExtendedByOne DEF Mutated
    <3>3. CellsIn(new) = CellsIn(source) \cup {Cell(m)}
      BY <1>1, <2>1, MutatedCells
    <3>4. Ordered(source)
      BY <1>1 DEF Models
    <3> HIDE DEF new
    <3>5. \A p \in new : p[1] \in CellsIn(new) /\ p[2] \in CellsIn(new)
      BY <3>2, <3>3, <3>4 DEF Ordered
    <3>6. ASSUME NEW p \in Pairs, p[1] \in CellsIn(new), p[2] \in CellsIn(new)
          PROVE  p \in new \/ <<p[2], p[1]>> \in new
      <4>1. <<p[2], p[1]>> \in Pairs /\ p = <<p[1], p[2]>>
        BY PairCells DEF Pairs
      <4>2. CASE p[1] \in CellsIn(source) /\ p[2] \in CellsIn(source)
        <5>1. p \in source \/ <<p[2], p[1]>> \in source
          BY <3>4, <3>6, <4>2 DEF Ordered
        <5> QED BY <3>2, <5>1
      <4>3. CASE p[1] \in CellsIn(source) /\ p[2] = Cell(m)
        BY <3>2, <4>3
      <4>4. CASE p[1] = Cell(m) /\ p[2] \in CellsIn(source)
        BY <3>2, <4>1, <4>4
      <4>5. CASE p[1] = Cell(m) /\ p[2] = Cell(m)
        <5>1. p = <<Cell(m), Cell(m)>>
          BY <4>1, <4>5
        <5>2. <<Cell(m), Cell(m)>> \in new
          BY <3>2
        <5> QED BY <5>1, <5>2
      <4> QED
        BY <3>3, <3>6, <4>2, <4>3, <4>4, <4>5
    <3>7. \A p \in new : <<p[2], p[1]>> \in new => p[1] = p[2]
      BY <3>1, <3>2, <3>4 DEF Ordered
    <3>8. ASSUME NEW p \in new, NEW q \in new, p[2] = q[1]
          PROVE  <<p[1], q[2]>> \in new
      <4>1. CASE q \in source
        BY <3>1, <3>2, <3>4, <3>8, <4>1 DEF Ordered
      <4>2. CASE q \notin source
        <5>1. q[2] = Cell(m)
          BY <3>2, <4>2
        <5>2. p[1] \in CellsIn(source) \/ p[1] = Cell(m)
          BY <3>3, <3>5
        <5>3. <<p[1], q[2]>> \in Pairs
          BY <1>2, <3>8, PairCells DEF Pairs, new
        <5> QED
          BY <3>2, <5>1, <5>2, <5>3
      <4> QED BY <4>1, <4>2
    <3> QED
      BY <3>5, <3>6, <3>7, <3>8 DEF Ordered
  <2>2. CASE m.type # "add_column"
    <3>1. \A p : p \in new <=> p \in source /\ p[1] # Cell(m) /\ p[2] # Cell(m)
      BY <2>2 DEF Mutated, Without
    <3>2. CellsIn(new) = CellsIn(source) \ {Cell(m)}
      BY <1>1, <2>2, MutatedCells
    <3>3. Ordered(source)
      BY <1>1 DEF Models
    <3> HIDE DEF new
    <3> QED
      BY <3>1, <3>2, <3>3 DEF Ordered
  <2> QED BY <2>1, <2>2
<1> QED BY <1>1, <1>2, <1>3, <1>4 DEF Models

-----------------------------------------------------------------------------
(* Migrations                                                              *)

\* A part of a change is a change, and the part about all tables is all of it.
LEMMA PartIsChange ==
  ASSUME NEW change \in Change, NEW tables
  PROVE  Part(change, tables) \in Change
  BY DEF Part, Change

LEMMA WholePart ==
  ASSUME NEW change \in Change
  PROVE  Part(change, Tables) = change
<1>1. change.tables \cap Tables = change.tables
  BY DEF Change
<1>2. change.drop \cap CellsOf(Tables) = change.drop
  BY DEF Change, Cells, CellsOf
<1>3. {p \in change.add : p[1][1] \in Tables} = change.add
  BY PairCells DEF Change
<1> QED
  BY <1>1, <1>2, <1>3 DEF Part, Change

\* What the difference to a model is, and that it leads there.
LEMMA ChangeIsDifference ==
  ASSUME tracked \subseteq Cells, NEW target \in Models
  PROVE  /\ ChangeTo(target) \in Change
         /\ ChangeTo(target).tables = TablesOf(tracked) \ TablesIn(target)
         /\ Dropped(ChangeTo(target)) \cap CellsIn(target) = {}
         /\ (tracked \ Dropped(ChangeTo(target))) \cup CellsIn(ChangeTo(target).add)
               = CellsIn(target)
<1> DEFINE change == ChangeTo(target)
           gone   == TablesOf(tracked) \ TablesIn(target)
<1>1. /\ change.tables = gone
      /\ change.drop = (tracked \ CellsIn(target)) \ CellsOf(gone)
      /\ change.add = {p \in target : p[1] \notin tracked /\ p[2] \notin tracked}
  BY DEF ChangeTo
<1>2. change \in Change
  BY ModelIsOrder DEF Change, ChangeTo, TablesOf
<1>3. CellsIn(change.add) = CellsIn(target) \ tracked
  BY <1>1 DEF CellsIn
<1>4. CellsOf(gone) \cap CellsIn(target) = {}
  BY ModelInItsTables, CellOfTable DEF CellsIn
<1>5. Dropped(change) = CellsOf(gone) \cup (tracked \ CellsIn(target))
  BY <1>1 DEF Dropped
<1> QED
  BY <1>1, <1>2, <1>3, <1>4, <1>5

\* Where there is no difference, there is nothing to migrate.
LEMMA NoDifference ==
  ASSUME tracked \subseteq Cells, NEW target \in Models, NoChange(ChangeTo(target))
  PROVE  tracked = CellsIn(target)
<1>1. Dropped(ChangeTo(target)) = {}
  BY DEF NoChange, Dropped, CellsOf
<1>2. CellsIn(ChangeTo(target).add) = {}
  BY DEF NoChange, CellsIn
<1>3. (tracked \ Dropped(ChangeTo(target))) \cup CellsIn(ChangeTo(target).add)
        = CellsIn(target)
  BY ChangeIsDifference
<1> QED
  BY <1>1, <1>2, <1>3

\* A migration turns a schema into a schema.
LEMMA MigratedIsSchema ==
  ASSUME NEW schema \in SUBSET Pairs, NEW change \in Change
  PROVE  /\ Migrated(schema, change) \subseteq Pairs
         /\ CellsIn(Migrated(schema, change)) =
              (CellsIn(schema) \ Dropped(change)) \cup CellsIn(change.add)
<1>1. change.add \in SUBSET Pairs
  BY DEF Change
<1> QED
  BY <1>1, CellsWithout, CellsExtended DEF Migrated

-----------------------------------------------------------------------------
(* The inductive invariant                                                 *)

\* A run has sources, and a file on disk once Track A is initialised.
Loaded ==
  /\ pc # "idle" => current # NoSource
  /\ pc \notin {"idle", "init", "return"} => disk # NoSource

\* A frozen workspace is between two calls or at its bundle, and a bundle is
\* written of two databases that differ.
FrozenAt ==
  /\ frozen => pc \in {"idle", "evidence", "read-only", "return"}
  /\ pc \in {"evidence", "read-only"} => frozen /\ dbA # dbB /\ verdict = "diverged"
  /\ BundleDescribesWorkspace

\* The manifest is there before the files are made read-only.
ManifestAt ==
  /\ pc = "read-only" => manifest = Len(Evidence)
  /\ ManifestIsWhole

\* A schema that is as the current source declares, other tables aside.
AsDeclared(schema) ==
  About(schema, TablesIn(Declared(current))) = Declared(current)

\* Nuclear Track B is as declared when the comparison starts.
SoundAt ==
  /\ pc = "compare" /\ NuclearPath => AsDeclared(dbB)
  /\ PassIsSound

\* Unless dbwarden overlooks a change, each of the two migrations of a run
\* starts where its sources say, and its plan stays the last one until the
\* bundle is written.
PlanAt ==
  /\ pc = "make-base" => disk = BaseSource
  /\ pc = "make" => disk = current
  /\ pc \in {"migrate-base", "make"} /\ ~missed =>
       tracked = CellsIn(Declared(BaseSource))
  /\ /\ pc \in {"migrate", "load", "reference-ddl", "compare", "evidence"}
     /\ ~missed /\ CellsIn(Declared(current)) # CellsIn(Declared(BaseSource))
     => /\ plan # NoPlan
        /\ plan.tables = TablesIn(Declared(BaseSource)) \ TablesIn(Declared(current))

IInv == TypeOK /\ Loaded /\ FrozenAt /\ ManifestAt /\ SoundAt /\ PlanAt

\* The bundle's evidence has six parts.
LEMMA EvidenceLength == Len(Evidence) = 6
  BY DEF Evidence

\* A new workspace satisfies the invariant.
LEMMA InitIInv == Init => IInv
<1> SUFFICES ASSUME Init PROVE IInv
  OBVIOUS
<1>1. TypeOK
  <2>1. /\ disk \in Sources /\ base \in Sources /\ current \in Sources
        /\ base = NoSource <=> current = NoSource
    BY DEF Init, Sources
  <2>2. mutations \in Seq(Mutation) /\ Len(mutations) <= MaxMutations
    BY TwoTrackAssumption DEF Init
  <2>3. /\ written \in 0..Len(Evidence) /\ manifest \in 0..written
        /\ writes \in 0..MaxWrites
    BY TwoTrackAssumption, EvidenceLength DEF Init
  <2>4. /\ dbA \subseteq Pairs /\ dbB \subseteq Pairs
        /\ tracked \subseteq Cells /\ pending \in Seq(Change)
        /\ plan \in Change \cup {NoPlan} /\ missed \in BOOLEAN
    <3>1. <<>> \in Seq(Change)
      OBVIOUS
    <3> QED
      BY <3>1 DEF Init
  <2> QED
    BY <2>1, <2>2, <2>3, <2>4 DEF Init, TypeOK
<1>2. Loaded /\ FrozenAt
  BY DEF Init, Loaded, FrozenAt, BundleDescribesWorkspace
<1>3. ManifestAt /\ SoundAt /\ PlanAt
  BY DEF Init, ManifestAt, ManifestIsWhole, SoundAt, PassIsSound, PlanAt
<1> QED BY <1>1, <1>2, <1>3 DEF IInv

-----------------------------------------------------------------------------
(* Sources and schemas in a reachable state                                *)

\* While a run has its sources, each of them declares tables with keys.
LEMMA RunSources ==
  ASSUME IInv, current # NoSource
  PROVE  /\ BaseSource \in Sources /\ BaseSource # NoSource
         /\ Declared(BaseSource) \in Models
         /\ Declared(current) \in Models
<1>1. base # NoSource /\ BaseSource \in Sources /\ BaseSource # NoSource
  BY DEF IInv, TypeOK, BaseSource
<1> QED BY <1>1, DeclaredIsModel DEF IInv, TypeOK

\* Whatever of the incremental path is done, Track B holds columns in order.
LEMMA AlteredIsSchema ==
  ASSUME IInv, current # NoSource
  PROVE  Seeded \subseteq Pairs /\ \A n : Altered(n) \subseteq Pairs
<1>1. Seeded \subseteq Pairs
  BY RunSources, RecreatedAsDeclared DEF Seeded, IInv, TypeOK
<1>2. \A n : AddedBy(n) \subseteq Pairs
  BY DEF AddedBy
<1> QED BY <1>1, <1>2, CellsExtended DEF Altered

\* What make-migrations finds to do.
LEMMA DifferenceIsChange ==
  ASSUME IInv, disk # NoSource
  PROVE  ChangeTo(Declared(disk)) \in Change /\ Declared(disk) \in Models
<1>1. Declared(disk) \in Models
  BY DeclaredIsModel DEF IInv, TypeOK
<1> QED
  BY <1>1, ChangeIsDifference DEF IInv, TypeOK

\* Recording a change, or none, keeps dbwarden's state in its types.
LEMMA RecordTypes ==
  ASSUME IInv, NEW change \in Change, Record(change)
  PROVE  tracked' \subseteq Cells /\ pending' \in Seq(Change)
<1>1. CellsIn(change.add) \subseteq Cells
  BY DEF CellsIn
<1> QED
  BY <1>1 DEF Record, IInv, TypeOK

\* A failed command of dbwarden leaves columns, migrations and a plan behind.
LEMMA InterruptedTypes ==
  ASSUME IInv, Making => disk # NoSource,
         Interrupted \/ (pending # <<>> /\ PartlyApplied)
  PROVE  /\ dbA' \subseteq Pairs /\ tracked' \subseteq Cells /\ pending' \in Seq(Change)
         /\ plan' \in Change \cup {NoPlan} /\ missed' \in BOOLEAN
<1> USE DEF dbwarden
<1>1. CASE UNCHANGED <<dbA, dbwarden>>
  BY <1>1 DEF IInv, TypeOK
<1>2. CASE pending # <<>> /\ PartlyApplied
  <2>1. PICK tables \in SUBSET Tables : dbA' = Migrated(dbA, Part(Head(pending), tables))
    BY <1>2 DEF PartlyApplied
  <2>2. Head(pending) \in Change
    BY <1>2 DEF IInv, TypeOK
  <2>3. dbA' \subseteq Pairs
    BY <2>1, <2>2, PartIsChange, MigratedIsSchema DEF IInv, TypeOK
  <2> QED
    BY <1>2, <2>3 DEF PartlyApplied, IInv, TypeOK
<1>3. CASE /\ Making /\ UNCHANGED <<dbA, missed>>
           /\ \E tables \in SUBSET Tables :
                LET change == Part(ChangeTo(Declared(disk)), tables) IN
                /\ Record(change)
                /\ plan' \in (IF NoChange(change) THEN {plan} ELSE {plan, PlanFor(change)})
  <2>1. PICK tables \in SUBSET Tables :
               /\ Record(Part(ChangeTo(Declared(disk)), tables))
               /\ plan' \in {plan, Part(ChangeTo(Declared(disk)), tables)}
    BY <1>3 DEF PlanFor
  <2>2. Part(ChangeTo(Declared(disk)), tables) \in Change
    BY <1>3, DifferenceIsChange, PartIsChange
  <2> QED
    BY <1>3, <2>1, <2>2, RecordTypes DEF IInv, TypeOK
<1> QED BY <1>1, <1>2, <1>3 DEF Interrupted

\* What make-migrations does, in one step.
LEMMA MakeMigrationsTypes ==
  ASSUME IInv, disk # NoSource, NEW from, NEW to, MakeMigrations(from, to)
  PROVE  /\ tracked' \subseteq Cells /\ pending' \in Seq(Change)
         /\ plan' \in Change \cup {NoPlan} /\ missed' \in BOOLEAN
<1>1. PICK tables \in SUBSET Tables :
             LET change == Part(ChangeTo(Declared(disk)), tables) IN
             /\ Record(change)
             /\ plan' = (IF NoChange(change) THEN plan ELSE PlanFor(change))
             /\ missed' = (missed \/ change # ChangeTo(Declared(disk)))
  BY DEF MakeMigrations
<1>2. Part(ChangeTo(Declared(disk)), tables) \in Change
  BY DifferenceIsChange, PartIsChange
<1>3. plan' \in Change \cup {NoPlan} /\ missed' \in BOOLEAN
  BY <1>1, <1>2 DEF PlanFor, IInv, TypeOK
<1> QED
  BY <1>1, <1>2, <1>3, RecordTypes

\* A make-migrations that overlooks nothing, in this command or before in this
\* run, leads to the models on disk; a plan it writes is of that difference.
LEMMA MakeMigrationsExact ==
  ASSUME IInv, disk # NoSource, NEW from, NEW to, MakeMigrations(from, to), ~missed'
  PROVE  /\ ~missed
         /\ tracked' = CellsIn(Declared(disk))
         /\ tracked # CellsIn(Declared(disk)) =>
              plan' # NoPlan /\ plan'.tables = TablesOf(tracked) \ TablesIn(Declared(disk))
<1> DEFINE whole == ChangeTo(Declared(disk))
<1>1. whole \in Change /\ Declared(disk) \in Models /\ tracked \subseteq Cells
  BY DifferenceIsChange DEF IInv, TypeOK
<1>2. /\ Record(whole) /\ ~missed
      /\ plan' = (IF NoChange(whole) THEN plan ELSE whole)
  <2>1. PICK tables \in SUBSET Tables :
               LET change == Part(whole, tables) IN
               /\ Record(change)
               /\ plan' = (IF NoChange(change) THEN plan ELSE PlanFor(change))
               /\ missed' = (missed \/ change # whole)
    BY DEF MakeMigrations
  <2>2. Part(whole, tables) = whole /\ ~missed
    BY <2>1
  <2> QED
    BY <2>1, <2>2 DEF PlanFor
<1>3. CASE NoChange(whole)
  BY <1>1, <1>2, <1>3, NoDifference DEF Record
<1>4. CASE ~NoChange(whole)
  <2>1. tracked' = (tracked \ Dropped(whole)) \cup CellsIn(whole.add) /\ plan' = whole
    BY <1>2, <1>4 DEF Record
  <2> QED
    BY <1>1, <1>2, <2>1, ChangeIsDifference, TwoTrackAssumption
<1> QED BY <1>3, <1>4

-----------------------------------------------------------------------------
(* A step keeps the invariant                                              *)

\* A step keeps every variable in its type.
LEMMA TypeStep == ASSUME IInv, [Next]_vars PROVE TypeOK'
<1> USE DEF modelVars, databases, dbwarden, bundleVars
<1>1. ASSUME NEW path \in Paths, NEW content \in Contents, WriteModelFile(path, content)
      PROVE  TypeOK'
  <2>1. content \in Sources /\ content # NoSource
    BY TwoTrackAssumption DEF Sources, Models
  <2>2. /\ disk' \in Sources /\ base' \in Sources /\ current' \in Sources
        /\ base' # NoSource /\ current' # NoSource
    BY <1>1, <2>1 DEF WriteModelFile, IInv, TypeOK
  <2>3. writes' \in 0..MaxWrites
    BY <1>1, TwoTrackAssumption DEF WriteModelFile, IInv, TypeOK
  <2> QED
    BY <1>1, <2>2, <2>3 DEF WriteModelFile, IInv, TypeOK
<1>2. ASSUME NEW m \in Mutation, ApplyMutation(m)
      PROVE  TypeOK'
  <2>1. Mutated(disk, m) \in Sources /\ Mutated(disk, m) # NoSource
    BY <1>2, MutatedIsModel, TwoTrackAssumption
       DEF ApplyMutation, IInv, TypeOK, Sources, Models
  <2>2. /\ disk' \in Sources /\ base' \in Sources /\ current' \in Sources
        /\ base' # NoSource /\ current' # NoSource
    BY <1>2, <2>1 DEF ApplyMutation, IInv, TypeOK
  <2>3. mutations' \in Seq(Mutation) /\ Len(mutations') <= MaxMutations
    BY <1>2, TwoTrackAssumption DEF ApplyMutation, IInv, TypeOK
  <2> QED
    BY <1>2, <2>2, <2>3 DEF ApplyMutation, IInv, TypeOK
<1>3. ASSUME NEW t \in Touched, QueryWrite(t)
      PROVE  TypeOK'
  <2>1. <<<<t, Key>>, <<t, Key>>>> \in Pairs
    BY TwoTrackAssumption DEF Pairs, Cells
  <2>2. dbA' \subseteq Pairs
    BY <1>3, <2>1, CellsWithout DEF QueryWrite, IInv, TypeOK
  <2> QED
    BY <1>3, <2>2 DEF QueryWrite, IInv, TypeOK
<1>4. ASSUME NEW m \in Modes, RunTwoTrackTest(m)
      PROVE  TypeOK'
  BY <1>4, TwoTrackAssumption DEF RunTwoTrackTest, IInv, TypeOK
<1>5. CASE TrackAInit
  <2>1. BaseSource \in Sources
    BY <1>5, RunSources DEF TrackAInit, IInv, Loaded
  <2> QED
    BY <1>5, <2>1 DEF TrackAInit, IInv, TypeOK
<1>6. CASE MakeMigrations("make-base", "migrate-base")
  <2>1. disk # NoSource
    BY <1>6 DEF MakeMigrations, IInv, Loaded
  <2>2. /\ tracked' \subseteq Cells /\ pending' \in Seq(Change)
        /\ plan' \in Change \cup {NoPlan} /\ missed' \in BOOLEAN
    BY <1>6, <2>1, MakeMigrationsTypes
  <2> QED
    BY <1>6, <2>2 DEF MakeMigrations, IInv, TypeOK
<1>7. CASE TrackAMigrateBase
  BY <1>7 DEF TrackAMigrateBase, IInv, TypeOK
<1>8. CASE MakeMigrations("make", "migrate")
  <2>1. disk # NoSource
    BY <1>8 DEF MakeMigrations, IInv, Loaded
  <2>2. /\ tracked' \subseteq Cells /\ pending' \in Seq(Change)
        /\ plan' \in Change \cup {NoPlan} /\ missed' \in BOOLEAN
    BY <1>8, <2>1, MakeMigrationsTypes
  <2> QED
    BY <1>8, <2>2 DEF MakeMigrations, IInv, TypeOK
<1>9. CASE TrackAMigrate
  BY <1>9 DEF TrackAMigrate, IInv, TypeOK
<1>10. CASE TrackAFails
  <2>1. pc # "idle" /\ (Making => disk # NoSource)
    BY <1>10 DEF TrackAFails, Making, Migrating, IInv, Loaded
  <2>2. /\ dbA' \subseteq Pairs /\ tracked' \subseteq Cells /\ pending' \in Seq(Change)
        /\ plan' \in Change \cup {NoPlan} /\ missed' \in BOOLEAN
    BY <1>10, <2>1, InterruptedTypes DEF TrackAFails, IInv, TypeOK
  <2> QED
    BY <1>10, <2>2 DEF TrackAFails, IInv, TypeOK
<1>11. CASE TrackBLoad
  <2>1. BaseSource \in Sources
    BY <1>11, RunSources DEF TrackBLoad, IInv, Loaded
  <2> QED
    BY <1>11, <2>1 DEF TrackBLoad, IInv, TypeOK
<1>12. CASE TrackBNuclear
  <2>1. dbB' \subseteq Pairs
    BY <1>12, RunSources, RecreatedAsDeclared DEF TrackBNuclear, IInv, TypeOK, Loaded
  <2> QED
    BY <1>12, <2>1 DEF TrackBNuclear, IInv, TypeOK
<1>13. CASE TrackBIncremental
  <2>1. dbB' \subseteq Pairs
    BY <1>13, AlteredIsSchema DEF TrackBIncremental, IInv, Loaded
  <2> QED
    BY <1>13, <2>1 DEF TrackBIncremental, IInv, TypeOK
<1>14. CASE TrackBFails
  <2>1. current # NoSource
    BY <1>14 DEF TrackBFails, IInv, Loaded
  <2>2. Recreated(dbB, Declared(current)) \subseteq Pairs
    BY <2>1, RunSources, RecreatedAsDeclared DEF IInv, TypeOK
  <2>3. dbB' \subseteq Pairs
    BY <1>14, <2>1, <2>2, AlteredIsSchema DEF TrackBFails, IInv, TypeOK
  <2> QED
    BY <1>14, <2>3 DEF TrackBFails, IInv, TypeOK
<1>15. CASE CompareIdentical
  BY <1>15 DEF CompareIdentical, IInv, TypeOK
<1>16. CASE CompareDiverged
  BY <1>16 DEF CompareDiverged, IInv, TypeOK
<1>17. CASE WriteEvidence
  BY <1>17, EvidenceLength DEF WriteEvidence, IInv, TypeOK
<1>18. CASE WriteManifest
  BY <1>18, EvidenceLength DEF WriteManifest, IInv, TypeOK
<1>19. CASE MakeReadOnly
  BY <1>19 DEF MakeReadOnly, IInv, TypeOK
<1>20. CASE Return
  BY <1>20 DEF Return, IInv, TypeOK
<1>21. CASE Raise
  <2>1. pc # "idle" /\ (Making => disk # NoSource)
    BY <1>21 DEF Raise, Making, Migrating, IInv, Loaded
  <2>2. /\ dbA' \subseteq Pairs /\ tracked' \subseteq Cells /\ pending' \in Seq(Change)
        /\ plan' \in Change \cup {NoPlan} /\ missed' \in BOOLEAN
    BY <1>21, <2>1, InterruptedTypes DEF Raise, IInv, TypeOK
  <2>3. disk' \in Sources
    BY <1>21, <2>1, RunSources DEF Raise, IInv, TypeOK, Loaded
  <2> QED
    BY <1>21, <2>2, <2>3 DEF Raise, IInv, TypeOK
<1>22. CASE UNCHANGED vars
  BY <1>22 DEF vars, IInv, TypeOK
<1>23. CASE ApplyMigration
  <2>1. Head(pending) \in Change /\ Tail(pending) \in Seq(Change)
    BY <1>23 DEF ApplyMigration, IInv, TypeOK
  <2>2. dbA' \subseteq Pairs
    BY <1>23, <2>1, PartIsChange, MigratedIsSchema DEF ApplyMigration, IInv, TypeOK
  <2> QED
    BY <1>23, <2>1, <2>2 DEF ApplyMigration, IInv, TypeOK
<1> QED
  BY <1>1, <1>2, <1>3, <1>4, <1>5, <1>6, <1>7, <1>8, <1>9, <1>10, <1>11,
     <1>12, <1>13, <1>14, <1>15, <1>16, <1>17, <1>18, <1>19, <1>20,
     <1>21, <1>22, <1>23 DEF Next, Edit, TrackA, TrackB, Conclude, Frozen

\* A step keeps the sources of a run.
LEMMA LoadedStep == ASSUME IInv, [Next]_vars PROVE Loaded'
<1> USE DEF modelVars, databases, dbwarden, bundleVars
<1>1. ASSUME NEW path \in Paths, NEW content \in Contents, WriteModelFile(path, content)
      PROVE  Loaded'
  BY <1>1 DEF WriteModelFile, Editable, IInv, Loaded
<1>2. ASSUME NEW m \in Mutation, ApplyMutation(m)
      PROVE  Loaded'
  BY <1>2 DEF ApplyMutation, Editable, IInv, Loaded
<1>3. ASSUME NEW t \in Touched, QueryWrite(t)
      PROVE  Loaded'
  BY <1>3 DEF QueryWrite, Editable, IInv, Loaded
<1>4. ASSUME NEW m \in Modes, RunTwoTrackTest(m)
      PROVE  Loaded'
  BY <1>4 DEF RunTwoTrackTest, IInv, Loaded
<1>5. CASE TrackAInit
  BY <1>5, RunSources DEF TrackAInit, IInv, Loaded
<1>6. CASE MakeMigrations("make-base", "migrate-base")
  BY <1>6 DEF MakeMigrations, IInv, Loaded
<1>7. CASE TrackAMigrateBase
  BY <1>7 DEF TrackAMigrateBase, IInv, Loaded
<1>8. CASE MakeMigrations("make", "migrate")
  BY <1>8 DEF MakeMigrations, IInv, Loaded
<1>9. CASE TrackAMigrate
  BY <1>9 DEF TrackAMigrate, IInv, Loaded
<1>10. CASE TrackAFails
  BY <1>10 DEF TrackAFails, Making, Migrating, IInv, Loaded
<1>11. CASE TrackBLoad
  BY <1>11, RunSources DEF TrackBLoad, IInv, Loaded
<1>12. CASE TrackBNuclear
  BY <1>12 DEF TrackBNuclear, IInv, Loaded
<1>13. CASE TrackBIncremental
  BY <1>13 DEF TrackBIncremental, IInv, Loaded
<1>14. CASE TrackBFails
  BY <1>14 DEF TrackBFails, IInv, Loaded
<1>15. CASE CompareIdentical
  BY <1>15 DEF CompareIdentical, IInv, Loaded
<1>16. CASE CompareDiverged
  BY <1>16 DEF CompareDiverged, IInv, Loaded
<1>17. CASE WriteEvidence
  BY <1>17 DEF WriteEvidence, IInv, Loaded
<1>18. CASE WriteManifest
  BY <1>18 DEF WriteManifest, IInv, Loaded
<1>19. CASE MakeReadOnly
  BY <1>19 DEF MakeReadOnly, IInv, Loaded
<1>20. CASE Return
  BY <1>20 DEF Return, IInv, Loaded
<1>21. CASE Raise
  BY <1>21 DEF Raise, IInv, Loaded
<1>22. CASE UNCHANGED vars
  BY <1>22 DEF vars, IInv, Loaded
<1>23. CASE ApplyMigration
  BY <1>23 DEF ApplyMigration, IInv, Loaded
<1> QED
  BY <1>1, <1>2, <1>3, <1>4, <1>5, <1>6, <1>7, <1>8, <1>9, <1>10, <1>11,
     <1>12, <1>13, <1>14, <1>15, <1>16, <1>17, <1>18, <1>19, <1>20,
     <1>21, <1>22, <1>23 DEF Next, Edit, TrackA, TrackB, Conclude, Frozen

\* A step keeps a frozen workspace at its bundle, and the bundle true.
LEMMA FrozenStep == ASSUME IInv, [Next]_vars PROVE FrozenAt'
<1> USE DEF modelVars, databases, dbwarden, bundleVars
<1>1. ASSUME NEW path \in Paths, NEW content \in Contents, WriteModelFile(path, content)
      PROVE  FrozenAt'
  BY <1>1 DEF WriteModelFile, Editable, IInv, FrozenAt, BundleDescribesWorkspace
<1>2. ASSUME NEW m \in Mutation, ApplyMutation(m)
      PROVE  FrozenAt'
  BY <1>2 DEF ApplyMutation, Editable, IInv, FrozenAt, BundleDescribesWorkspace
<1>3. ASSUME NEW t \in Touched, QueryWrite(t)
      PROVE  FrozenAt'
  BY <1>3 DEF QueryWrite, Editable, IInv, FrozenAt, BundleDescribesWorkspace, TypeOK
<1>4. ASSUME NEW m \in Modes, RunTwoTrackTest(m)
      PROVE  FrozenAt'
  BY <1>4 DEF RunTwoTrackTest, Editable, IInv, FrozenAt, BundleDescribesWorkspace
<1>5. CASE TrackAInit
  BY <1>5 DEF TrackAInit, IInv, FrozenAt, BundleDescribesWorkspace, TypeOK
<1>6. CASE MakeMigrations("make-base", "migrate-base")
  BY <1>6 DEF MakeMigrations, IInv, FrozenAt, BundleDescribesWorkspace, TypeOK
<1>7. CASE TrackAMigrateBase
  BY <1>7 DEF TrackAMigrateBase, IInv, FrozenAt, BundleDescribesWorkspace, TypeOK
<1>8. CASE MakeMigrations("make", "migrate")
  BY <1>8 DEF MakeMigrations, IInv, FrozenAt, BundleDescribesWorkspace, TypeOK
<1>9. CASE TrackAMigrate
  BY <1>9 DEF TrackAMigrate, IInv, FrozenAt, BundleDescribesWorkspace, TypeOK
<1>10. CASE TrackAFails
  BY <1>10 DEF TrackAFails, Making, Migrating, IInv, FrozenAt, BundleDescribesWorkspace, TypeOK
<1>11. CASE TrackBLoad
  BY <1>11 DEF TrackBLoad, IInv, FrozenAt, BundleDescribesWorkspace, TypeOK
<1>12. CASE TrackBNuclear
  BY <1>12 DEF TrackBNuclear, IInv, FrozenAt, BundleDescribesWorkspace, TypeOK
<1>13. CASE TrackBIncremental
  BY <1>13 DEF TrackBIncremental, IInv, FrozenAt, BundleDescribesWorkspace, TypeOK
<1>14. CASE TrackBFails
  BY <1>14 DEF TrackBFails, IInv, FrozenAt, BundleDescribesWorkspace, TypeOK
<1>15. CASE CompareIdentical
  BY <1>15 DEF CompareIdentical, IInv, FrozenAt, BundleDescribesWorkspace, TypeOK
<1>16. CASE CompareDiverged
  BY <1>16 DEF CompareDiverged, IInv, FrozenAt, BundleDescribesWorkspace, TypeOK
<1>17. CASE WriteEvidence
  BY <1>17 DEF WriteEvidence, IInv, FrozenAt, BundleDescribesWorkspace, TypeOK
<1>18. CASE WriteManifest
  BY <1>18 DEF WriteManifest, IInv, FrozenAt, BundleDescribesWorkspace, TypeOK
<1>19. CASE MakeReadOnly
  BY <1>19 DEF MakeReadOnly, IInv, FrozenAt, BundleDescribesWorkspace, TypeOK
<1>20. CASE Return
  BY <1>20 DEF Return, IInv, FrozenAt, BundleDescribesWorkspace, TypeOK
<1>21. CASE Raise
  BY <1>21 DEF Raise, Making, Migrating, IInv, FrozenAt, BundleDescribesWorkspace, TypeOK
<1>22. CASE UNCHANGED vars
  BY <1>22 DEF vars, IInv, FrozenAt, BundleDescribesWorkspace, TypeOK
<1>23. CASE ApplyMigration
  BY <1>23 DEF ApplyMigration, Migrating, IInv, FrozenAt, BundleDescribesWorkspace, TypeOK
<1> QED
  BY <1>1, <1>2, <1>3, <1>4, <1>5, <1>6, <1>7, <1>8, <1>9, <1>10, <1>11,
     <1>12, <1>13, <1>14, <1>15, <1>16, <1>17, <1>18, <1>19, <1>20,
     <1>21, <1>22, <1>23 DEF Next, Edit, TrackA, TrackB, Conclude, Frozen

\* A step writes a manifest only over a whole bundle.
LEMMA ManifestStep == ASSUME IInv, [Next]_vars PROVE ManifestAt'
<1> USE DEF modelVars, databases, dbwarden, bundleVars
<1>1. ASSUME NEW path \in Paths, NEW content \in Contents, WriteModelFile(path, content)
      PROVE  ManifestAt'
  BY <1>1 DEF WriteModelFile, Editable, IInv, ManifestAt, ManifestIsWhole
<1>2. ASSUME NEW m \in Mutation, ApplyMutation(m)
      PROVE  ManifestAt'
  BY <1>2 DEF ApplyMutation, Editable, IInv, ManifestAt, ManifestIsWhole
<1>3. ASSUME NEW t \in Touched, QueryWrite(t)
      PROVE  ManifestAt'
  BY <1>3 DEF QueryWrite, Editable, IInv, ManifestAt, ManifestIsWhole
<1>4. ASSUME NEW m \in Modes, RunTwoTrackTest(m)
      PROVE  ManifestAt'
  BY <1>4 DEF RunTwoTrackTest, IInv, ManifestAt, ManifestIsWhole
<1>5. CASE TrackAInit
  BY <1>5 DEF TrackAInit, IInv, ManifestAt, ManifestIsWhole
<1>6. CASE MakeMigrations("make-base", "migrate-base")
  BY <1>6 DEF MakeMigrations, IInv, ManifestAt, ManifestIsWhole
<1>7. CASE TrackAMigrateBase
  BY <1>7 DEF TrackAMigrateBase, IInv, ManifestAt, ManifestIsWhole
<1>8. CASE MakeMigrations("make", "migrate")
  BY <1>8 DEF MakeMigrations, IInv, ManifestAt, ManifestIsWhole
<1>9. CASE TrackAMigrate
  BY <1>9 DEF TrackAMigrate, IInv, ManifestAt, ManifestIsWhole
<1>10. CASE TrackAFails
  BY <1>10 DEF TrackAFails, IInv, ManifestAt, ManifestIsWhole
<1>11. CASE TrackBLoad
  BY <1>11 DEF TrackBLoad, IInv, ManifestAt, ManifestIsWhole
<1>12. CASE TrackBNuclear
  BY <1>12 DEF TrackBNuclear, IInv, ManifestAt, ManifestIsWhole
<1>13. CASE TrackBIncremental
  BY <1>13 DEF TrackBIncremental, IInv, ManifestAt, ManifestIsWhole
<1>14. CASE TrackBFails
  BY <1>14 DEF TrackBFails, IInv, ManifestAt, ManifestIsWhole
<1>15. CASE CompareIdentical
  BY <1>15 DEF CompareIdentical, IInv, ManifestAt, ManifestIsWhole
<1>16. CASE CompareDiverged
  BY <1>16 DEF CompareDiverged, IInv, ManifestAt, ManifestIsWhole
<1>17. CASE WriteEvidence
  BY <1>17 DEF WriteEvidence, IInv, ManifestAt, ManifestIsWhole
<1>18. CASE WriteManifest
  BY <1>18, EvidenceLength DEF WriteManifest, IInv, ManifestAt, ManifestIsWhole
<1>19. CASE MakeReadOnly
  BY <1>19, EvidenceLength DEF MakeReadOnly, IInv, ManifestAt, ManifestIsWhole
<1>20. CASE Return
  BY <1>20 DEF Return, IInv, ManifestAt, ManifestIsWhole
<1>21. CASE Raise
  BY <1>21 DEF Raise, IInv, ManifestAt, ManifestIsWhole
<1>22. CASE UNCHANGED vars
  BY <1>22 DEF vars, IInv, ManifestAt, ManifestIsWhole
<1>23. CASE ApplyMigration
  BY <1>23 DEF ApplyMigration, IInv, ManifestAt, ManifestIsWhole
<1> QED
  BY <1>1, <1>2, <1>3, <1>4, <1>5, <1>6, <1>7, <1>8, <1>9, <1>10, <1>11,
     <1>12, <1>13, <1>14, <1>15, <1>16, <1>17, <1>18, <1>19, <1>20,
     <1>21, <1>22, <1>23 DEF Next, Edit, TrackA, TrackB, Conclude, Frozen

\* A step compares Track A with a schema that is as declared.
LEMMA SoundStep == ASSUME IInv, [Next]_vars PROVE SoundAt'
<1> USE DEF modelVars, databases, dbwarden, bundleVars
<1>1. ASSUME NEW path \in Paths, NEW content \in Contents, WriteModelFile(path, content)
      PROVE  SoundAt'
  BY <1>1 DEF WriteModelFile, Editable, IInv, SoundAt, PassIsSound
<1>2. ASSUME NEW m \in Mutation, ApplyMutation(m)
      PROVE  SoundAt'
  BY <1>2 DEF ApplyMutation, Editable, IInv, SoundAt, PassIsSound
<1>3. ASSUME NEW t \in Touched, QueryWrite(t)
      PROVE  SoundAt'
  BY <1>3 DEF QueryWrite, Editable, IInv, SoundAt, PassIsSound
<1>4. ASSUME NEW m \in Modes, RunTwoTrackTest(m)
      PROVE  SoundAt'
  BY <1>4 DEF RunTwoTrackTest, IInv, SoundAt, PassIsSound
<1>5. CASE TrackAInit
  BY <1>5 DEF TrackAInit, IInv, SoundAt, PassIsSound
<1>6. CASE MakeMigrations("make-base", "migrate-base")
  BY <1>6 DEF MakeMigrations, IInv, SoundAt, PassIsSound
<1>7. CASE TrackAMigrateBase
  BY <1>7 DEF TrackAMigrateBase, IInv, SoundAt, PassIsSound
<1>8. CASE MakeMigrations("make", "migrate")
  BY <1>8 DEF MakeMigrations, IInv, SoundAt, PassIsSound
<1>9. CASE TrackAMigrate
  BY <1>9 DEF TrackAMigrate, IInv, SoundAt, PassIsSound
<1>10. CASE TrackAFails
  BY <1>10 DEF TrackAFails, IInv, SoundAt, PassIsSound
<1>11. CASE TrackBLoad
  BY <1>11 DEF TrackBLoad, IInv, SoundAt, PassIsSound
<1>12. CASE TrackBNuclear
  <2>1. AsDeclared(dbB')
    BY <1>12, RunSources, RecreatedAsDeclared DEF TrackBNuclear, AsDeclared, IInv, Loaded, TypeOK
  <2>2. UNCHANGED current /\ pc' = "compare"
    BY <1>12 DEF TrackBNuclear
  <2> QED
    BY <2>1, <2>2 DEF SoundAt, AsDeclared, PassIsSound
<1>13. CASE TrackBIncremental
  BY <1>13 DEF TrackBIncremental, NuclearPath, SoundAt, PassIsSound
<1>14. CASE TrackBFails
  BY <1>14 DEF TrackBFails, IInv, SoundAt, PassIsSound
<1>15. CASE CompareIdentical
  <2>1. NuclearPath' <=> NuclearPath
    BY <1>15 DEF CompareIdentical, NuclearPath
  <2>2. NuclearPath => AsDeclared(dbA)
    BY <1>15 DEF CompareIdentical, IInv, SoundAt
  <2>3. pc' = "return" /\ UNCHANGED <<current, dbA>>
    BY <1>15 DEF CompareIdentical
  <2> QED
    BY <2>1, <2>2, <2>3 DEF SoundAt, PassIsSound, AsDeclared
<1>16. CASE CompareDiverged
  BY <1>16 DEF CompareDiverged, IInv, SoundAt, PassIsSound
<1>17. CASE WriteEvidence
  BY <1>17 DEF WriteEvidence, IInv, SoundAt, PassIsSound
<1>18. CASE WriteManifest
  BY <1>18 DEF WriteManifest, IInv, SoundAt, PassIsSound
<1>19. CASE MakeReadOnly
  <2>1. pc' = "return" /\ verdict' = "diverged"
    BY <1>19 DEF MakeReadOnly, IInv, FrozenAt
  <2> QED
    BY <2>1 DEF SoundAt, PassIsSound
<1>20. CASE Return
  BY <1>20 DEF Return, IInv, SoundAt, PassIsSound
<1>21. CASE Raise
  BY <1>21 DEF Raise, IInv, SoundAt, PassIsSound
<1>22. CASE UNCHANGED vars
  BY <1>22 DEF vars, IInv, SoundAt, PassIsSound, AsDeclared, NuclearPath
<1>23. CASE ApplyMigration
  BY <1>23 DEF ApplyMigration, Migrating, SoundAt, PassIsSound
<1> QED
  BY <1>1, <1>2, <1>3, <1>4, <1>5, <1>6, <1>7, <1>8, <1>9, <1>10, <1>11,
     <1>12, <1>13, <1>14, <1>15, <1>16, <1>17, <1>18, <1>19, <1>20,
     <1>21, <1>22, <1>23 DEF Next, Edit, TrackA, TrackB, Conclude, Frozen

\* A step keeps the plan of the running mutation the last one.
LEMMA PlanStep == ASSUME IInv, [Next]_vars PROVE PlanAt'
<1> USE DEF modelVars, databases, dbwarden, bundleVars
<1>1. ASSUME NEW path \in Paths, NEW content \in Contents, WriteModelFile(path, content)
      PROVE  PlanAt'
  BY <1>1 DEF WriteModelFile, Editable, IInv, PlanAt, BaseSource
<1>2. ASSUME NEW m \in Mutation, ApplyMutation(m)
      PROVE  PlanAt'
  BY <1>2 DEF ApplyMutation, Editable, IInv, PlanAt, BaseSource
<1>3. ASSUME NEW t \in Touched, QueryWrite(t)
      PROVE  PlanAt'
  BY <1>3 DEF QueryWrite, Editable, IInv, PlanAt, BaseSource
<1>4. ASSUME NEW m \in Modes, RunTwoTrackTest(m)
      PROVE  PlanAt'
  BY <1>4 DEF RunTwoTrackTest, Editable, IInv, PlanAt, BaseSource
<1>5. CASE TrackAInit
  BY <1>5 DEF TrackAInit, IInv, PlanAt, BaseSource
<1>6. CASE MakeMigrations("make-base", "migrate-base")
  <2>1. disk = BaseSource /\ disk # NoSource /\ UNCHANGED <<base, current>> /\ pc' = "migrate-base"
    BY <1>6 DEF MakeMigrations, IInv, Loaded, PlanAt
  <2>2. ~missed' => tracked' = CellsIn(Declared(BaseSource))
    BY <1>6, <2>1, MakeMigrationsExact
  <2> QED
    BY <2>1, <2>2 DEF PlanAt, BaseSource
<1>7. CASE TrackAMigrateBase
  BY <1>7 DEF TrackAMigrateBase, IInv, PlanAt, BaseSource
<1>8. CASE MakeMigrations("make", "migrate")
  <2>1. /\ pc = "make" /\ disk = current /\ disk # NoSource
        /\ UNCHANGED <<base, current>> /\ pc' = "migrate"
    BY <1>8 DEF MakeMigrations, IInv, Loaded, PlanAt
  <2>2. ASSUME ~missed', CellsIn(Declared(current)) # CellsIn(Declared(BaseSource))
        PROVE  /\ plan' # NoPlan
               /\ plan'.tables = TablesIn(Declared(BaseSource)) \ TablesIn(Declared(current))
    <3>1. ~missed
      BY <1>8, <2>1, <2>2, MakeMigrationsExact
    <3>2. tracked = CellsIn(Declared(BaseSource))
      BY <2>1, <3>1 DEF IInv, PlanAt
    <3> QED
      BY <1>8, <2>1, <2>2, <3>2, MakeMigrationsExact DEF TablesIn
  <2> QED
    BY <2>1, <2>2 DEF PlanAt, BaseSource
<1>9. CASE TrackAMigrate
  BY <1>9 DEF TrackAMigrate, IInv, PlanAt, BaseSource
<1>10. CASE TrackAFails
  BY <1>10 DEF TrackAFails, IInv, PlanAt, BaseSource
<1>11. CASE TrackBLoad
  BY <1>11 DEF TrackBLoad, IInv, PlanAt, BaseSource
<1>12. CASE TrackBNuclear
  BY <1>12 DEF TrackBNuclear, IInv, PlanAt, BaseSource
<1>13. CASE TrackBIncremental
  BY <1>13 DEF TrackBIncremental, IInv, PlanAt, BaseSource
<1>14. CASE TrackBFails
  BY <1>14 DEF TrackBFails, IInv, PlanAt, BaseSource
<1>15. CASE CompareIdentical
  BY <1>15 DEF CompareIdentical, IInv, PlanAt, BaseSource
<1>16. CASE CompareDiverged
  BY <1>16 DEF CompareDiverged, IInv, PlanAt, BaseSource
<1>17. CASE WriteEvidence
  BY <1>17 DEF WriteEvidence, IInv, PlanAt, BaseSource
<1>18. CASE WriteManifest
  BY <1>18 DEF WriteManifest, IInv, PlanAt, BaseSource
<1>19. CASE MakeReadOnly
  BY <1>19 DEF MakeReadOnly, IInv, PlanAt, BaseSource
<1>20. CASE Return
  BY <1>20 DEF Return, IInv, PlanAt, BaseSource
<1>21. CASE Raise
  BY <1>21 DEF Raise, IInv, PlanAt, BaseSource
<1>22. CASE UNCHANGED vars
  BY <1>22 DEF vars, IInv, PlanAt, BaseSource
<1>23. CASE ApplyMigration
  BY <1>23 DEF ApplyMigration, IInv, PlanAt, BaseSource
<1> QED
  BY <1>1, <1>2, <1>3, <1>4, <1>5, <1>6, <1>7, <1>8, <1>9, <1>10, <1>11,
     <1>12, <1>13, <1>14, <1>15, <1>16, <1>17, <1>18, <1>19, <1>20,
     <1>21, <1>22, <1>23 DEF Next, Edit, TrackA, TrackB, Conclude, Frozen

-----------------------------------------------------------------------------
(* The theorems                                                            *)

\* The inductive invariant holds in every state of the specification.
LEMMA Invariance == Spec => []IInv
<1>1. IInv /\ [Next]_vars => IInv'
  BY TypeStep, LoadedStep, FrozenStep, ManifestStep, SoundStep, PlanStep DEF IInv
<1> QED
  BY InitIInv, <1>1, PTL DEF Spec

\* Type correctness of the workspace, its databases and its bundle.
THEOREM TypeCorrect == Spec => []TypeOK
BY Invariance, PTL DEF IInv

\* A run on the nuclear path that reports "passed" found the declared tables in
\* Track A, whatever the models, the edits, the reruns and the failures.
THEOREM PassesAreSound == Spec => []PassIsSound
<1>1. IInv => PassIsSound
  BY DEF IInv, SoundAt
<1> QED BY Invariance, <1>1, PTL

\* A bundle goes on describing the two databases it was written of.
THEOREM BundlesStayTrue == Spec => []BundleDescribesWorkspace
<1>1. IInv => BundleDescribesWorkspace
  BY DEF IInv, FrozenAt
<1> QED BY Invariance, <1>1, PTL

\* A bundle is classified by the tables its mutation drops, unless dbwarden
\* overlooks a change or the mutation changes no column: nothing else leaves an
\* older plan behind as the last one.
THEOREM MisclassificationsAreExplained == Spec => []MisclassifiedIsExplained
<1>1. IInv => MisclassifiedIsExplained
  BY DEF IInv, PlanAt, MisclassifiedIsExplained, Classification
<1> QED BY Invariance, <1>1, PTL

\* A bundle with a manifest has every part of the evidence.
THEOREM ManifestsAreWhole == Spec => []ManifestIsWhole
<1>1. IInv => ManifestIsWhole
  BY DEF IInv, ManifestAt
<1> QED BY Invariance, <1>1, PTL

\* No step changes the sources, the log, the databases or dbwarden's state of
\* a frozen workspace, or thaws it.
THEOREM FrozenStaysFrozen == Spec => FrozenIsImmutable
<1>1. IInv /\ [Next]_vars =>
        [frozen => UNCHANGED <<modelVars, databases, dbwarden>> /\ frozen']_vars
  <2> SUFFICES ASSUME IInv, [Next]_vars, frozen
               PROVE  UNCHANGED <<modelVars, databases, dbwarden>> /\ frozen'
    OBVIOUS
  <2> USE DEF modelVars, databases, dbwarden, bundleVars
  <2>1. pc \in {"idle", "evidence", "read-only", "return"}
    BY DEF IInv, FrozenAt
  <2>2. CASE Edit \/ (\E m \in Modes : RunTwoTrackTest(m))
    BY <2>2 DEF Edit, WriteModelFile, ApplyMutation, QueryWrite, RunTwoTrackTest, Editable
  <2>3. CASE TrackA
    BY <2>1, <2>3 DEF TrackA, TrackAInit, MakeMigrations, ApplyMigration,
       TrackAMigrateBase, TrackAMigrate, TrackAFails, Making, Migrating
  <2>4. CASE TrackB
    BY <2>1, <2>4 DEF TrackB, TrackBLoad, TrackBNuclear, TrackBIncremental, TrackBFails
  <2>5. CASE Conclude
    BY <2>5 DEF Conclude, CompareIdentical, CompareDiverged, WriteEvidence,
       WriteManifest, MakeReadOnly, Return
  <2>6. CASE Raise
    BY <2>1, <2>6 DEF Raise, Making, Migrating
  <2>7. CASE Frozen \/ UNCHANGED vars
    BY <2>7 DEF Frozen, vars
  <2> QED
    BY <2>2, <2>3, <2>4, <2>5, <2>6, <2>7 DEF Next
<1> QED BY Invariance, <1>1, PTL DEF Spec, FrozenIsImmutable
-----------------------------------------------------------------------------
(* A workspace whose commands succeed and that only the server touches     *)

Undisturbed == Faults = {} /\ Touched = {} /\ Modes \subseteq {"nuclear"}

\* Track A's database has the columns dbwarden believes it has, or the one
\* pending migration fits it and leads there; from the second migration on they
\* are those of the current source.
Followed ==
  /\ ~missed
  /\ pending = <<>> => CellsIn(dbA) = tracked
  /\ pending # <<>> => /\ Migrating /\ Tail(pending) = <<>>
                       /\ Fits(dbA, Head(pending))
                       /\ CellsIn(Migrated(dbA, Head(pending))) = tracked
  /\ pc \in {"migrate", "load", "reference-ddl", "compare"} =>
       tracked = CellsIn(Declared(current))

\* The difference to a model fits a database with the columns dbwarden has.
LEMMA DifferenceFits ==
  ASSUME dbA \in SUBSET Pairs, tracked = CellsIn(dbA), NEW target \in Models
  PROVE  /\ Fits(dbA, ChangeTo(target))
         /\ CellsIn(Migrated(dbA, ChangeTo(target))) = CellsIn(target)
<1> DEFINE change == ChangeTo(target)
<1>1. tracked \subseteq Cells
  BY DEF CellsIn
<1>2. /\ change \in Change
      /\ change.tables = TablesOf(tracked) \ TablesIn(target)
      /\ change.drop \subseteq tracked
      /\ CellsIn(change.add) = CellsIn(target) \ tracked
  BY <1>1, ChangeIsDifference DEF ChangeTo, CellsIn
<1>3. \A cell \in CellsIn(target) : <<cell[1], Key>> \in CellsIn(target)
  BY ModelIsOrder
<1>4. Fits(dbA, change)
  BY <1>2, <1>3 DEF Fits, TablesIn
<1>5. CellsIn(Migrated(dbA, change)) = CellsIn(target)
  <2>1. CellsIn(Migrated(dbA, change)) = (CellsIn(dbA) \ Dropped(change)) \cup CellsIn(change.add)
    BY <1>2, MigratedIsSchema
  <2>2. (tracked \ Dropped(change)) \cup CellsIn(change.add) = CellsIn(target)
    BY <1>1, ChangeIsDifference
  <2> QED
    BY <2>1, <2>2
<1> QED BY <1>4, <1>5

\* The base source is on disk only until Track A has migrated to it.
Restored == pc \notin {"make-base", "migrate-base"} => disk = current

\* Undisturbed, every path is the nuclear one, every migration fits, and no
\* step of a run fails but loading an empty source.
LEMMA RunsSucceed ==
  ASSUME Undisturbed, IInv, Followed
  PROVE  /\ NuclearPath
         /\ \A fault : ~May(fault)
         /\ ~TrackAFails /\ ~TrackBFails /\ ~Raise
<1>1. NuclearPath
  BY DEF Undisturbed, NuclearPath, IInv, TypeOK
<1>2. \A fault : ~May(fault)
  BY DEF Undisturbed, May
<1> QED
  BY <1>1, <1>2 DEF TrackAFails, TrackBFails, Raise, Followed

\* What is left of the next-state relation.
LEMMA UndisturbedNext ==
  ASSUME Undisturbed, IInv, Followed, [Next]_vars
  PROVE  \/ \E path \in Paths, content \in Contents : WriteModelFile(path, content)
         \/ \E m \in Mutation : ApplyMutation(m)
         \/ \E m \in Modes : RunTwoTrackTest(m)
         \/ TrackAInit \/ ApplyMigration \/ TrackAMigrateBase \/ TrackAMigrate
         \/ MakeMigrations("make-base", "migrate-base")
         \/ MakeMigrations("make", "migrate")
         \/ TrackBLoad \/ TrackBNuclear
         \/ Conclude \/ UNCHANGED vars
<1>1. NuclearPath /\ ~TrackAFails /\ ~TrackBFails /\ ~Raise
  BY RunsSucceed
<1>2. ~TrackBIncremental
  BY <1>1 DEF TrackBIncremental
<1>3. \A t \in Touched : ~QueryWrite(t)
  BY DEF Undisturbed
<1> QED
  BY <1>1, <1>2, <1>3 DEF Next, Edit, TrackA, TrackB, Frozen

\* Undisturbed, make-migrations leaves nothing to migrate, or one migration
\* that leads from Track A to the models on disk.
LEMMA MakeMigrationsFollowed ==
  ASSUME Undisturbed, IInv, Followed, disk # NoSource, ~Migrating,
         NEW from, NEW to, MakeMigrations(from, to)
  PROVE  /\ ~missed' /\ UNCHANGED dbA
         /\ tracked' = CellsIn(Declared(disk))
         /\ pending' = <<>> => CellsIn(dbA) = tracked'
         /\ pending' # <<>> => /\ Tail(pending') = <<>>
                               /\ Fits(dbA, Head(pending'))
                               /\ CellsIn(Migrated(dbA, Head(pending'))) = tracked'
<1> DEFINE whole == ChangeTo(Declared(disk))
<1>1. whole \in Change /\ Declared(disk) \in Models /\ tracked \subseteq Cells
  BY DifferenceIsChange DEF IInv, TypeOK
<1>2. pending = <<>> /\ CellsIn(dbA) = tracked
  BY DEF Followed
<1>3. Record(whole) /\ ~missed' /\ UNCHANGED dbA
  <2>1. PICK tables \in SUBSET Tables :
               /\ tables = Tables \/ May("miss")
               /\ Record(Part(whole, tables))
               /\ missed' = (missed \/ Part(whole, tables) # whole)
    BY DEF MakeMigrations
  <2>2. Part(whole, tables) = whole
    BY <1>1, <2>1, WholePart, RunsSucceed
  <2> QED
    BY <2>1, <2>2 DEF MakeMigrations, Followed, databases
<1>4. tracked' = CellsIn(Declared(disk))
  BY <1>3, MakeMigrationsExact
<1>5. Fits(dbA, whole) /\ CellsIn(Migrated(dbA, whole)) = CellsIn(Declared(disk))
  BY <1>1, <1>2, DifferenceFits DEF IInv, TypeOK
<1>6. CASE NoChange(whole)
  BY <1>2, <1>3, <1>4, <1>6 DEF Record
<1>7. CASE ~NoChange(whole)
  <2>1. pending' = Append(<<>>, whole)
    BY <1>2, <1>3, <1>7 DEF Record
  <2>2. Head(pending') = whole /\ Tail(pending') = <<>> /\ pending' # <<>>
    BY <2>1
  <2> QED
    BY <1>3, <1>4, <1>5, <2>2
<1> QED BY <1>6, <1>7

LEMMA FollowedStep ==
  ASSUME Undisturbed, IInv, Followed, [Next]_vars
  PROVE  Followed'
<1> USE DEF modelVars, databases, dbwarden, bundleVars
<1>1. CASE \/ \E path \in Paths, content \in Contents : WriteModelFile(path, content)
           \/ \E m \in Mutation : ApplyMutation(m)
  BY <1>1 DEF WriteModelFile, ApplyMutation, Editable, Migrating, Followed
<1>2. CASE TrackAInit \/ (\E m \in Modes : RunTwoTrackTest(m))
  BY <1>2 DEF RunTwoTrackTest, TrackAInit, Editable, Migrating, Followed
<1>3. CASE ApplyMigration
  <2>1. Head(pending) \in Change
    BY <1>3 DEF ApplyMigration, IInv, TypeOK
  <2>2. PICK tables \in SUBSET Tables :
               /\ tables = Tables \/ May("defect")
               /\ dbA' = Migrated(dbA, Part(Head(pending), tables))
    BY <1>3 DEF ApplyMigration
  <2>3. dbA' = Migrated(dbA, Head(pending))
    BY <2>1, <2>2, WholePart, RunsSucceed
  <2>4. pending' = <<>> /\ CellsIn(dbA') = tracked'
    BY <1>3, <2>3 DEF ApplyMigration, Followed
  <2> QED
    BY <1>3, <2>4 DEF ApplyMigration, Followed
<1>4. CASE TrackAMigrateBase \/ TrackAMigrate
  BY <1>4 DEF TrackAMigrateBase, TrackAMigrate, Followed
<1>5. CASE MakeMigrations("make-base", "migrate-base")
  <2>1. disk # NoSource /\ ~Migrating /\ pc' = "migrate-base"
    BY <1>5 DEF MakeMigrations, Migrating, IInv, Loaded
  <2> QED
    BY <1>5, <2>1, MakeMigrationsFollowed DEF Followed, Migrating
<1>6. CASE MakeMigrations("make", "migrate")
  <2>1. /\ disk # NoSource /\ ~Migrating /\ pc' = "migrate"
        /\ disk = current /\ current' = current
    BY <1>6 DEF MakeMigrations, Migrating, IInv, Loaded, PlanAt
  <2> QED
    BY <1>6, <2>1, MakeMigrationsFollowed DEF Followed, Migrating
<1>7. CASE TrackBLoad \/ TrackBNuclear
  BY <1>7 DEF TrackBLoad, TrackBNuclear, Migrating, Followed
<1>8. CASE Conclude
  BY <1>8 DEF Conclude, CompareIdentical, CompareDiverged, WriteEvidence, WriteManifest,
     MakeReadOnly, Return, Migrating, Followed
<1>9. CASE UNCHANGED vars
  BY <1>9 DEF vars, Migrating, Followed
<1> QED
  BY <1>1, <1>2, <1>3, <1>4, <1>5, <1>6, <1>7, <1>8, <1>9, UndisturbedNext

LEMMA RestoredStep ==
  ASSUME Undisturbed, Paths \subseteq {"app/models.py"}, IInv, Followed, Restored, [Next]_vars
  PROVE  Restored'
<1> USE DEF modelVars, databases, dbwarden, bundleVars
<1>1. CASE \/ \E path \in Paths, content \in Contents : WriteModelFile(path, content)
           \/ \E m \in Mutation : ApplyMutation(m)
  BY <1>1 DEF WriteModelFile, ApplyMutation, Restored
<1>2. CASE TrackAInit \/ (\E m \in Modes : RunTwoTrackTest(m))
           \/ MakeMigrations("make-base", "migrate-base")
  BY <1>2 DEF RunTwoTrackTest, Editable, TrackAInit, MakeMigrations, Restored
<1>3. CASE ApplyMigration \/ TrackAMigrateBase \/ TrackAMigrate
           \/ MakeMigrations("make", "migrate")
  BY <1>3 DEF ApplyMigration, Migrating, TrackAMigrateBase, TrackAMigrate, MakeMigrations, Restored
<1>4. CASE TrackBLoad \/ TrackBNuclear
  BY <1>4, RunsSucceed DEF TrackBLoad, TrackBNuclear, Restored
<1>5. CASE Conclude
  BY <1>5 DEF Conclude, CompareIdentical, CompareDiverged, WriteEvidence, WriteManifest,
     MakeReadOnly, Return, Restored
<1>6. CASE UNCHANGED vars
  BY <1>6 DEF vars, Restored
<1> QED
  BY <1>1, <1>2, <1>3, <1>4, <1>5, <1>6, UndisturbedNext

\* A new database has no columns.
LEMMA NoCells == CellsIn({}) = {}
  BY DEF CellsIn

LEMMA FollowedInvariant == ASSUME Undisturbed PROVE Spec => [](IInv /\ Followed)
<1>1. Init => Followed
  BY NoCells DEF Init, Followed
<1>2. IInv /\ Followed /\ [Next]_vars => Followed'
  BY FollowedStep
<1> QED
  BY <1>1, <1>2, Invariance, PTL DEF Spec

\* Undisturbed, and with the one model file at its usual place, the next
\* mutation edits what the last run tested: every run puts the current source
\* back on disk, passed or diverged (track_a.py, track_b.py:_load_models_module).
THEOREM DiskStaysCurrent ==
  ASSUME Undisturbed, Paths \subseteq {"app/models.py"}
  PROVE  Spec => []DiskIsCurrent
<1>1. Init => Restored
  BY DEF Init, Restored
<1>2. IInv /\ Followed /\ Restored /\ [Next]_vars => Restored'
  BY RestoredStep
<1>3. Restored => DiskIsCurrent
  BY DEF Restored, DiskIsCurrent
<1> QED
  BY <1>1, <1>2, <1>3, FollowedInvariant, PTL DEF Spec

-----------------------------------------------------------------------------
(* The mutation log                                                        *)

\* One more mutation in the log is one more mutation of the source.
LEMMA ReplayedAppend ==
  ASSUME NEW log \in Seq(Mutation), NEW source \in SUBSET Cells, NEW m \in Mutation
  PROVE  Replayed(Append(log, m), source) =
           IF m.type = "add_column" THEN Replayed(log, source) \cup {Cell(m)}
                                    ELSE Replayed(log, source) \ {Cell(m)}
<1> DEFINE longer == Append(log, m)
<1>1. /\ longer \in Seq(Mutation) /\ DOMAIN longer = 1..(Len(log) + 1)
      /\ DOMAIN log = 1..Len(log) /\ Len(log) \in Nat
      /\ longer[Len(log) + 1] = m
      /\ \A i \in 1..Len(log) : longer[i] = log[i]
  OBVIOUS
<1> HIDE DEF longer
<1>2. Cell(m) \in Cells
  BY MutationCell
<1>3. Decides(longer, Len(log) + 1, Cell(m))
  BY <1>1 DEF Decides
<1>4. \A i \in 1..Len(log) : ~Decides(longer, i, Cell(m))
  BY <1>1 DEF Decides
<1>5. ASSUME NEW cell \in Cells, cell # Cell(m)
      PROVE  /\ ~Decides(longer, Len(log) + 1, cell)
             /\ \A i \in 1..Len(log) : Decides(longer, i, cell) <=> Decides(log, i, cell)
  BY <1>1, <1>5 DEF Decides
<1>6. ASSUME NEW cell \in Cells, cell # Cell(m)
      PROVE  cell \in Replayed(longer, source) <=> cell \in Replayed(log, source)
  <2>1. (\E i \in DOMAIN longer : Decides(longer, i, cell) /\ longer[i].type = "add_column")
          <=> (\E i \in DOMAIN log : Decides(log, i, cell) /\ log[i].type = "add_column")
    BY <1>1, <1>5, <1>6
  <2>2. (\A i \in DOMAIN longer : Cell(longer[i]) # cell)
          <=> (\A i \in DOMAIN log : Cell(log[i]) # cell)
    BY <1>1, <1>6
  <2> QED
    BY <1>1, <2>1, <2>2 DEF Replayed
<1>7. Cell(m) \in Replayed(longer, source) <=> m.type = "add_column"
  BY <1>1, <1>2, <1>3, <1>4 DEF Replayed
<1>8. Replayed(longer, source) \subseteq Cells /\ Replayed(log, source) \subseteq Cells
  BY DEF Replayed
<1>9. Replayed(longer, source) = IF m.type = "add_column"
                                 THEN Replayed(log, source) \cup {Cell(m)}
                                 ELSE Replayed(log, source) \ {Cell(m)}
  BY <1>2, <1>6, <1>7, <1>8
<1> QED
  BY <1>9 DEF longer

\* Before the first source is written there is nothing to mutate.
Logged ==
  /\ writes = 0 => current = NoSource /\ mutations = <<>>
  /\ LogExplainsCurrent

\* The columns there are, with nothing to replay.
LEMMA ReplayedNothing ==
  ASSUME NEW cells \in SUBSET Cells
  PROVE  Replayed(<<>>, cells) = cells
  BY DEF Replayed

LEMMA LoggedStep ==
  ASSUME Undisturbed, IInv, Followed, Restored, Logged, [Next]_vars
  PROVE  Logged'
<1> USE DEF modelVars, databases, dbwarden, bundleVars
<1>1. CASE UNCHANGED <<base, current, mutations, writes>>
  BY <1>1 DEF Logged, LogExplainsCurrent
<1>2. ASSUME NEW path \in Paths, NEW content \in Contents, WriteModelFile(path, content)
      PROVE  Logged'
  <2>1. writes' = writes + 1 /\ writes \in Nat
    BY <1>2 DEF WriteModelFile, IInv, TypeOK
  <2>2. CASE writes = 0
    <3>1. base' = content /\ current' = content /\ mutations' = <<>>
      BY <1>2, <2>2 DEF WriteModelFile, Logged, IInv, TypeOK
    <3> QED
      <4>1. CellsIn(Declared(content)) \in SUBSET Cells
        BY DEF CellsIn
      <4> QED
        BY <2>1, <2>2, <3>1, <4>1, ReplayedNothing DEF Logged, LogExplainsCurrent
  <2>3. CASE writes # 0
    BY <2>1, <2>3 DEF Logged, LogExplainsCurrent
  <2> QED
    BY <2>2, <2>3
<1>3. ASSUME NEW m \in Mutation, ApplyMutation(m)
      PROVE  Logged'
  <2>1. /\ Applicable(m, disk) /\ disk = current
        /\ current' = Mutated(current, m) /\ mutations' = Append(mutations, m)
        /\ writes' = writes
    BY <1>3 DEF ApplyMutation, Editable, Restored
  <2>2. /\ current \in Models /\ Mutated(current, m) \in Models
        /\ mutations \in Seq(Mutation)
    BY <2>1, MutatedIsModel DEF IInv, TypeOK
  <2>3. Declared(current) = current /\ current # NoSource /\ Declared(current') = current'
    BY <2>1, <2>2, ModelIsDeclared
  <2>4. base # NoSource /\ base' = base /\ writes # 0
    BY <1>3, <2>3 DEF ApplyMutation, IInv, TypeOK, Logged
  <2>5. CASE writes = 1
    <3>1. CellsIn(current) = Replayed(mutations, CellsIn(Declared(base)))
      BY <2>3, <2>5 DEF Logged, LogExplainsCurrent
    <3>2. CellsIn(Declared(base)) \in SUBSET Cells
      BY DEF CellsIn
    <3>3. CellsIn(current') = IF m.type = "add_column" THEN CellsIn(current) \cup {Cell(m)}
                                                       ELSE CellsIn(current) \ {Cell(m)}
      BY <2>1, <2>2, ModelIsOrder, MutatedCells
    <3>4. CellsIn(Declared(current')) = Replayed(mutations', CellsIn(Declared(base)))
      BY <2>1, <2>2, <2>3, <3>1, <3>2, <3>3, ReplayedAppend
    <3> QED
      BY <2>1, <2>4, <3>4 DEF Logged, LogExplainsCurrent
  <2> QED
    BY <2>1, <2>4, <2>5 DEF Logged, LogExplainsCurrent
<1>4. CASE TrackAInit \/ ApplyMigration \/ TrackAMigrateBase \/ TrackAMigrate
           \/ MakeMigrations("make-base", "migrate-base")
           \/ MakeMigrations("make", "migrate") \/ TrackBLoad \/ TrackBNuclear
           \/ Conclude \/ (\E m \in Modes : RunTwoTrackTest(m)) \/ UNCHANGED vars
  BY <1>1, <1>4 DEF TrackAInit, ApplyMigration, TrackAMigrateBase, TrackAMigrate, MakeMigrations, TrackBLoad,
     TrackBNuclear, Conclude, CompareIdentical, CompareDiverged, WriteEvidence, WriteManifest,
     MakeReadOnly, Return, RunTwoTrackTest, vars
<1> QED
  BY <1>2, <1>3, <1>4, UndisturbedNext

\* Undisturbed, and after one write of the model file, the recorded mutations
\* are what leads from that file to the current source, whatever was tested in
\* between: apply_mutation (server.py) edits the file on disk, and that is the
\* current source whenever a call begins.
THEOREM LogStaysTrue ==
  ASSUME Undisturbed, Paths \subseteq {"app/models.py"}
  PROVE  Spec => []LogExplainsCurrent
<1>1. Init => Restored /\ Logged
  BY DEF Init, Restored, Logged, LogExplainsCurrent
<1>2. IInv /\ Followed /\ Restored /\ [Next]_vars => Restored'
  BY RestoredStep
<1>3. IInv /\ Followed /\ Restored /\ Logged /\ [Next]_vars => Logged'
  BY LoggedStep
<1>4. Logged => LogExplainsCurrent
  BY DEF Logged
<1> QED
  BY <1>1, <1>2, <1>3, <1>4, FollowedInvariant, PTL DEF Spec

-----------------------------------------------------------------------------
(* Sources that declare the same tables                                    *)

\* What a client writes declares the tables T, whatever columns it gives them.
SameTables(T) == \A source \in Contents : source \in Models /\ TablesIn(source) = T

\* A source that is no file, or declares the tables T.
Declares(source, T) == source # NoSource => source \in Models /\ TablesIn(source) = T

\* The reference has only those tables, and so the columns of Track A.
Agreed(T) ==
  /\ Declares(disk, T) /\ Declares(base, T) /\ Declares(current, T)
  /\ CellsIn(dbB) \subseteq CellsOf(T)
  /\ pc = "compare" => CellsIn(dbA) = CellsIn(dbB)
  /\ verdict = "diverged" => frozen
  /\ AlarmIsAboutOrder

\* No mutation adds or drops a table.
LEMMA MutationKeepsTables ==
  ASSUME NEW source \in Models, NEW m \in Mutation, Applicable(m, source)
  PROVE  Mutated(source, m) \in Models /\ TablesIn(Mutated(source, m)) = TablesIn(source)
<1>1. Mutated(source, m) \in Models
  BY MutatedIsModel DEF Sources
<1>2. \A t \in Tables : <<t, Key>> # Cell(m)
  BY TwoTrackAssumption DEF Cell, Mutation
<1> QED
  BY <1>1, <1>2, ModelIsOrder, MutatedCells DEF TablesIn, TablesOf

\* The nuclear path makes a reference with no other tables the declared schema.
LEMMA RecreatedExactly ==
  ASSUME NEW model \in Models, NEW schema \in SUBSET Pairs,
         CellsIn(schema) \subseteq CellsOf(TablesIn(model))
  PROVE  CellsIn(Recreated(schema, model)) = CellsIn(model)
<1>1. CellsIn(Without(schema, CellsOf(TablesIn(model)))) = {}
  BY CellsWithout
<1> QED
  BY <1>1 DEF Recreated, CellsIn

LEMMA AgreedStep ==
  ASSUME Undisturbed, NEW T, SameTables(T), IInv, Followed, Agreed(T), [Next]_vars
  PROVE  Agreed(T)'
<1> USE DEF modelVars, databases, dbwarden, bundleVars
<1>1. ASSUME NEW path \in Paths, NEW content \in Contents, WriteModelFile(path, content)
      PROVE  Agreed(T)'
  <2>1. Declares(content, T)
    BY DEF SameTables, Declares
  <2> QED
    BY <1>1, <2>1 DEF WriteModelFile, Editable, Agreed, Declares, AlarmIsAboutOrder
<1>2. ASSUME NEW m \in Mutation, ApplyMutation(m)
      PROVE  Agreed(T)'
  <2>1. disk \in Models /\ TablesIn(disk) = T
    BY <1>2 DEF ApplyMutation, Applicable, Agreed, Declares
  <2>2. Declares(Mutated(disk, m), T)
    BY <1>2, <2>1, MutationKeepsTables DEF ApplyMutation, Declares
  <2> QED
    BY <1>2, <2>2 DEF ApplyMutation, Editable, Agreed, Declares, AlarmIsAboutOrder
<1>3. CASE (\E m \in Modes : RunTwoTrackTest(m))
           \/ MakeMigrations("make-base", "migrate-base") \/ MakeMigrations("make", "migrate")
  BY <1>3 DEF RunTwoTrackTest, MakeMigrations, Agreed, Declares, AlarmIsAboutOrder
<1>4. CASE TrackAInit \/ ApplyMigration \/ TrackAMigrateBase \/ TrackAMigrate
  <2>1. Declares(disk', T)
    BY <1>4 DEF TrackAInit, ApplyMigration, TrackAMigrateBase, TrackAMigrate, BaseSource,
       Agreed, Declares
  <2>2. ApplyMigration => ~frozen /\ UNCHANGED verdict /\ pc' # "compare"
    BY DEF ApplyMigration, Migrating, IInv, FrozenAt
  <2> QED
    BY <1>4, <2>1, <2>2 DEF TrackAInit, ApplyMigration, TrackAMigrateBase, TrackAMigrate,
       Agreed, Declares, AlarmIsAboutOrder
<1>5. CASE TrackBLoad
  <2>1. Declares(disk', T)
    BY <1>5 DEF TrackBLoad, BaseSource, Agreed, Declares
  <2> QED
    BY <1>5, <2>1 DEF TrackBLoad, Agreed, Declares, AlarmIsAboutOrder
<1>6. CASE TrackBNuclear
  <2>1. current \in Models /\ TablesIn(current) = T
    BY <1>6 DEF TrackBNuclear, IInv, Loaded, Agreed, Declares
  <2>2. Declared(current) = current
    BY <2>1, ModelIsDeclared
  <2>3. CellsIn(dbB') = CellsIn(current)
    BY <1>6, <2>1, <2>2, RecreatedExactly DEF TrackBNuclear, Agreed, IInv, TypeOK
  <2>4. CellsIn(dbB') \subseteq CellsOf(T)
    BY <2>1, <2>3, ModelInItsTables, CellOfTable DEF CellsIn
  <2>5. pc = "reference-ddl" /\ pc' = "compare" /\ UNCHANGED <<dbA, verdict, frozen>>
    BY <1>6 DEF TrackBNuclear
  <2>6. CellsIn(dbA) = CellsIn(dbB')
    BY <2>2, <2>3, <2>5 DEF Followed, Migrating
  <2>7. verdict # "diverged"
    BY <2>5 DEF IInv, FrozenAt, Agreed
  <2> QED
    BY <1>6, <2>4, <2>5, <2>6, <2>7 DEF TrackBNuclear, Agreed, Declares, AlarmIsAboutOrder
<1>7. CASE Conclude
  BY <1>7 DEF Conclude, CompareIdentical, CompareDiverged, WriteEvidence, WriteManifest,
     MakeReadOnly, Return, Agreed, Declares, AlarmIsAboutOrder
<1>8. CASE UNCHANGED vars
  BY <1>8 DEF vars, Agreed, Declares, AlarmIsAboutOrder
<1> QED
  BY <1>1, <1>2, <1>3, <1>4, <1>5, <1>6, <1>7, <1>8, UndisturbedNext

\* Undisturbed, and while the sources declare the same tables, the nuclear path
\* reports no column as missing or extra, however often the client edits and
\* reruns: an alarm it raises is about the order of the columns.
THEOREM AlarmsAreAboutOrder ==
  ASSUME Undisturbed, NEW CONSTANT T, SameTables(T)
  PROVE  Spec => []AlarmIsAboutOrder
<1>1. Init => Agreed(T)
  BY NoCells DEF Init, Agreed, Declares, AlarmIsAboutOrder
<1>2. IInv /\ Followed /\ Agreed(T) /\ [Next]_vars => Agreed(T)'
  BY AgreedStep
<1>3. Agreed(T) => AlarmIsAboutOrder
  BY DEF Agreed
<1> QED
  BY <1>1, <1>2, <1>3, FollowedInvariant, PTL DEF Spec

=============================================================================
