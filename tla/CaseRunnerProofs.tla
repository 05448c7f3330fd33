-------------------------- MODULE CaseRunnerProofs --------------------------
(***************************************************************************)
(* What a step of the case runner keeps, for every set of cases, backends, *)
(* workers and faults: a case at work has a project and a database of its  *)
(* own, and what it says of them is true.                                  *)
(***************************************************************************)
EXTENDS CaseRunner, SequenceTheorems, TLAPS

-----------------------------------------------------------------------------
(* Cases, directories and databases                                        *)

\* The schema and history a database may have when only models in S are played.
DatabasesOver(S) == [schema: Schemas, history: Seq(S)]

LEMMA CaseFields ==
  ASSUME NEW c \in Cases
  PROVE  /\ Targets(c) \in SUBSET Schemas /\ Wrong \in Targets(c)
         /\ Len(c.revisions) \in Nat
         /\ \A i \in 1..Len(c.revisions) :
              c.revisions[i] \in Models /\ c.revisions[i] \in Targets(c)
         /\ c.rollback \in Nat
<1>1. c.revisions \in Seq(Models) /\ c.rollback \in Nat
  BY CasesAssumption
<1>2. /\ Len(c.revisions) \in Nat /\ DOMAIN c.revisions = 1..Len(c.revisions)
      /\ \A i \in 1..Len(c.revisions) : c.revisions[i] \in Models
  BY <1>1, LenProperties, ElementOfSeq
<1> QED BY <1>1, <1>2 DEF Targets, Schemas

\* Two cases share neither their directory nor their database.
LEMMA Distinct ==
  ASSUME NEW c \in Cases, NEW d \in Cases, c # d
  PROVE  WorkDir(c) # WorkDir(d) /\ DatabaseOf(c) # DatabaseOf(d)
<1>1. WorkDir(c) # WorkDir(d)
  BY DistinctIdsAssumption DEF WorkDir
<1>2. CASE c.backend = ClickHouse /\ d.backend = ClickHouse
  <2>1. Shortened[c.slug] # Shortened[d.slug]
    BY <1>2, DistinctIdsAssumption
  <2> QED BY <1>1, <1>2, <2>1 DEF DatabaseOf
<1>3. CASE ~(c.backend = ClickHouse /\ d.backend = ClickHouse)
  BY <1>1, <1>3 DEF DatabaseOf
<1> QED BY <1>2, <1>3

-----------------------------------------------------------------------------
(* Histories                                                               *)

\* The last of some models, or the empty schema, is a schema.
LEMMA ReachedIsSchema ==
  ASSUME NEW S \in SUBSET Schemas, NEW s \in Seq(S)
  PROVE  Reached(s) \in Schemas
<1>1. CASE s = <<>>
  BY <1>1 DEF Reached, Schemas
<1>2. CASE s # <<>>
  <2>1. Len(s) \in 1..Len(s)
    BY <1>2, EmptySeq
  <2> QED BY <1>2, <2>1, ElementOfSeq DEF Reached, Schemas
<1> QED BY <1>1, <1>2

\* A history and what continues it.
Extends(h, pending, files, S) ==
  /\ pending \in Seq(S) /\ h \o pending \in Seq(S)
  /\ IsPlayedFrom(h \o pending, files)
  /\ pending = <<>> => h \o pending = h
  /\ pending # <<>> => Reached(h \o pending) = Reached(pending)

\* The files that come after a history continue it.
LEMMA Continued ==
  ASSUME NEW S, NEW h \in Seq(S), NEW f \in Seq(S), NEW n \in Len(h)..Len(f),
         IsPlayedFrom(h, f)
  PROVE  /\ Extends(h, SubSeq(f, Len(h) + 1, n), f, S)
         /\ Len(h \o SubSeq(f, Len(h) + 1, n)) = n
<1> DEFINE pending == SubSeq(f, Len(h) + 1, n)
<1>1. PICK m \in Nat : m = Len(h) /\ m <= Len(f) /\ \A i \in 1..m : h[i] = f[i]
  BY LenProperties DEF IsPlayedFrom
<1>2. n \in Nat /\ m <= n /\ n <= Len(f) /\ Len(f) \in Nat /\ n - m \in Nat
  BY <1>1, LenProperties
<1>3. \A i \in (m + 1)..n : f[i] \in S
  BY <1>1, <1>2, ElementOfSeq
<1>4. /\ pending \in Seq(S) /\ Len(pending) = n - m
      /\ \A i \in 1..(n - m) : pending[i] = f[m + i]
  <2>1. PICK k \in Int : k = m + 1
    OBVIOUS
  <2>2. \A i \in k..n : f[i] \in S
    BY <1>3, <2>1
  <2>3. /\ pending \in Seq(S)
        /\ Len(pending) = IF k <= n THEN n - k + 1 ELSE 0
        /\ \A i \in 1..(n - k + 1) : pending[i] = f[k + i - 1]
    BY <1>1, <1>2, <2>1, <2>2, SubSeqProperties
  <2>4. Len(pending) = n - m
    <3>1. CASE m = n
      BY <1>2, <2>1, <2>3, <3>1
    <3>2. CASE m # n
      <4>1. k <= n /\ n - k + 1 = n - m
        BY <1>2, <2>1, <3>2
      <4> QED BY <2>3, <4>1
    <3> QED BY <3>1, <3>2
  <2>5. ASSUME NEW i \in 1..(n - m) PROVE pending[i] = f[m + i]
    <3>1. i \in 1..(n - k + 1) /\ k + i - 1 = m + i
      BY <1>2, <2>1
    <3> QED BY <2>3, <3>1
  <2> QED BY <2>3, <2>4, <2>5
<1> HIDE DEF pending
<1>5. PICK played : played = h \o pending
  OBVIOUS
<1>6. /\ played \in Seq(S) /\ Len(played) = n
      /\ \A i \in 1..n : played[i] = IF i <= m THEN h[i] ELSE pending[i - m]
  <2>1. m + (n - m) = n
    BY <1>2
  <2> QED BY <1>1, <1>4, <1>5, <2>1, ConcatProperties
<1>7. ASSUME NEW i \in 1..n PROVE played[i] = f[i]
  <2>1. CASE i <= m
    <3>1. i \in 1..m
      BY <1>1, <2>1
    <3> QED BY <1>1, <1>6, <2>1, <3>1
  <2>2. CASE ~(i <= m)
    <3>1. i - m \in 1..(n - m) /\ m + (i - m) = i
      BY <1>2, <2>2
    <3>2. pending[i - m] = f[i]
      BY <1>4, <3>1
    <3>3. played[i] = pending[i - m]
      BY <1>6, <2>2
    <3> QED BY <3>2, <3>3
  <2> QED BY <2>1, <2>2
<1>8. IsPlayedFrom(played, f)
  BY <1>2, <1>6, <1>7 DEF IsPlayedFrom
<1>9. ASSUME pending = <<>> PROVE played = h
  BY <1>5, <1>9, ConcatEmptySeq
<1>10. ASSUME pending # <<>> PROVE Reached(played) = Reached(pending)
  <2>1. n - m # 0
    BY <1>4, <1>10, EmptySeq
  <2>2. n - m \in 1..(n - m) /\ m + (n - m) = n /\ n \in 1..n /\ n # 0
    BY <1>2, <2>1
  <2>3. pending[n - m] = f[n] /\ played[n] = f[n]
    BY <1>4, <1>7, <2>2
  <2>4. played # <<>>
    BY <1>6, <2>2, EmptySeq
  <2> QED BY <1>4, <1>6, <1>10, <2>3, <2>4 DEF Reached
<1>11. Extends(h, pending, f, S) /\ Len(h \o pending) = n
  BY <1>4, <1>5, <1>6, <1>8, <1>9, <1>10 DEF Extends
<1> QED BY <1>11 DEF pending

\* The schema is the one the migrations applied lead to.
OnTrack(database) == database.schema = Reached(database.history)

\* A database that is there has been played from the files.
PlayedFor(database, S, files) ==
  \/ database = NoDatabase
  \/ database \in DatabasesOver(S) /\ IsPlayedFrom(database.history, files)

\* Migrating goes on where the history ends, and stays on track.
LEMMA PlayedOn ==
  ASSUME NEW S \in SUBSET Schemas, NEW project, project.files \in Seq(S),
         NEW database \in DatabasesOver(S), IsPlayedFrom(database.history, project.files),
         NEW n \in 0..Len(project.files), NEW out \in Played(project, database, n)
  PROVE  /\ out \in DatabasesOver(S) /\ IsPlayedFrom(out.history, project.files)
         /\ OnTrack(database) => OnTrack(out)
         /\ n = Len(project.files) => Len(out.history) = n
<1>1. PICK h, files, pending :
        /\ h = database.history /\ files = project.files
        /\ pending = SubSeq(files, Len(h) + 1, n)
  OBVIOUS
<1>2. h \in Seq(S) /\ files \in Seq(S) /\ database.schema \in Schemas
  BY <1>1 DEF DatabasesOver
<1>3. IsPlayedFrom(h, files)
  BY <1>1
<1>4. Len(h) \in Nat /\ Len(files) \in Nat /\ n \in Nat /\ n <= Len(files)
  BY <1>1, <1>2, LenProperties
<1>5. /\ pending \in Seq(S) /\ h \o pending \in Seq(S)
      /\ IsPlayedFrom(h \o pending, files)
      /\ pending = <<>> => h \o pending = h
      /\ pending # <<>> => Reached(h \o pending) = Reached(pending)
      /\ n >= Len(h) => Len(h \o pending) = n
  <2>1. CASE n >= Len(h)
    <3>1. n \in Len(h)..Len(files)
      BY <1>4, <2>1
    <3>2. /\ Extends(h, SubSeq(files, Len(h) + 1, n), files, S)
          /\ Len(h \o SubSeq(files, Len(h) + 1, n)) = n
      BY <1>2, <1>3, <3>1, Continued, Zenon
    <3> QED BY <1>1, <3>2 DEF Extends
  <2>2. CASE ~(n >= Len(h))
    <3>1. PICK k \in Int : k = Len(h) + 1 /\ ~(k <= n) /\ n \in Int
      BY <1>4, <2>2
    <3>2. pending \in Seq(S) /\ Len(pending) = 0
      BY <1>1, <1>2, <3>1, SubSeqProperties
    <3>3. pending = <<>>
      BY <3>2, EmptySeq
    <3>4. h \o pending = h
      BY <1>2, <3>3, ConcatEmptySeq
    <3> QED BY <1>2, <1>3, <2>2, <3>2, <3>3, <3>4
  <2> QED BY <2>1, <2>2
<1>6. Reached(pending) \in Schemas
  BY <1>5, ReachedIsSchema
<1>7. PICK schemas :
        /\ schemas = IF pending = <<>> THEN {database.schema}
                     ELSE IF database.schema = Reached(h) THEN {Reached(pending)}
                     ELSE {Reached(pending), Torn}
        /\ out \in [schema: schemas, history: {h \o pending}]
  BY <1>1 DEF Played
<1>8. schemas \subseteq Schemas
  BY <1>2, <1>6, <1>7 DEF Schemas
<1>9. out.schema \in schemas /\ out.history = h \o pending
  BY <1>7
<1>10. out \in DatabasesOver(S)
  BY <1>5, <1>7, <1>8 DEF DatabasesOver
<1>11. ASSUME OnTrack(database) PROVE OnTrack(out)
  BY <1>1, <1>5, <1>7, <1>9, <1>11 DEF OnTrack
<1>12. n = Len(files) => n >= Len(h)
  BY <1>3, <1>4 DEF IsPlayedFrom
<1> QED BY <1>1, <1>5, <1>9, <1>10, <1>11, <1>12

\* What is left of a history is still played from the files.
LEMMA PlayedBack ==
  ASSUME NEW S \in SUBSET Schemas, NEW h \in Seq(S), NEW files, Len(files) \in Nat,
         IsPlayedFrom(h, files), NEW k \in 0..Len(h)
  PROVE  /\ SubSeq(h, 1, Len(h) - k) \in Seq(S)
         /\ IsPlayedFrom(SubSeq(h, 1, Len(h) - k), files)
         /\ Reached(SubSeq(h, 1, Len(h) - k)) \in Schemas
<1>1. Len(h) \in Nat /\ k \in Nat /\ k <= Len(h)
  BY LenProperties
<1>2. \A i \in 1..(Len(h) - k) : h[i] \in S
  BY <1>1, ElementOfSeq
<1>3. /\ SubSeq(h, 1, Len(h) - k) \in Seq(S)
      /\ Len(SubSeq(h, 1, Len(h) - k)) =
           IF 1 <= Len(h) - k THEN Len(h) - k - 1 + 1 ELSE 0
      /\ \A i \in 1..(Len(h) - k - 1 + 1) : SubSeq(h, 1, Len(h) - k)[i] = h[1 + i - 1]
  BY <1>1, <1>2, SubSeqProperties
<1>4. IsPlayedFrom(SubSeq(h, 1, Len(h) - k), files)
  BY <1>1, <1>3 DEF IsPlayedFrom
<1> QED BY <1>3, <1>4, ReachedIsSchema


-----------------------------------------------------------------------------
(* The outcomes of the commands for a case at work                         *)

\* The project of a case at work.
ProjectsOf(c, models) == [models: {models}, config: {DatabaseOf(c)}, files: Seq(Targets(c))]

\* make-migrations adds a file that leads to the models, or one that does not, or
\* none.
LEMMA MakeKeeps ==
  ASSUME NEW c \in Cases, NEW models \in Targets(c), NEW project \in ProjectsOf(c, models),
         NEW out \in MakeOutcomes(project)
  PROVE  /\ out.code \in {0, 1} /\ out.files \in Seq(Targets(c))
         /\ Len(project.files) <= Len(out.files)
         /\ \A i \in 1..Len(project.files) : out.files[i] = project.files[i]
         /\ Len(out.files) > Len(project.files) => Reached(out.files) \in {models, Wrong}
<1>1. project.files \in Seq(Targets(c)) /\ project.models = models
  BY DEF ProjectsOf
<1>2. Len(project.files) \in Nat
  BY <1>1, LenProperties
<1>3. /\ out.code \in {0, 1}
      /\ \/ out.files = project.files
         \/ \E s \in {models, Wrong} : out.files = Append(project.files, s)
  BY <1>1 DEF MakeOutcomes
<1>4. CASE out.files = project.files
  BY <1>1, <1>2, <1>3, <1>4
<1>5. ASSUME NEW s \in {models, Wrong}, out.files = Append(project.files, s)
      PROVE  /\ out.files \in Seq(Targets(c))
             /\ Len(project.files) <= Len(out.files)
             /\ \A i \in 1..Len(project.files) : out.files[i] = project.files[i]
             /\ Reached(out.files) = s
  <2>1. s \in Targets(c)
    BY CaseFields
  <2>2. /\ out.files \in Seq(Targets(c)) /\ Len(out.files) = Len(project.files) + 1
        /\ \A i \in 1..Len(project.files) : out.files[i] = project.files[i]
        /\ out.files[Len(project.files) + 1] = s
    BY <1>1, <1>5, <2>1, AppendProperties
  <2>3. out.files # <<>>
    BY <1>2, <2>2, EmptySeq
  <2> QED BY <1>2, <2>2, <2>3 DEF Reached
<1> QED BY <1>3, <1>4, <1>5

\* migrate plays on in the files, and when it succeeds to the end of them.
LEMMA MigrateKeeps ==
  ASSUME NEW S \in SUBSET Schemas, NEW project, project.files \in Seq(S),
         NEW database, PlayedFor(database, S, project.files),
         NEW out \in MigrateOutcomes(project, database)
  PROVE  /\ out.code \in {0, 1} /\ PlayedFor(out.database, S, project.files)
         /\ out.code = 0 => /\ database # NoDatabase /\ out.database # NoDatabase
                            /\ Len(out.database.history) = Len(project.files)
                            /\ OnTrack(database) => OnTrack(out.database)
<1>1. CASE database = NoDatabase
  BY <1>1 DEF MigrateOutcomes, PlayedFor
<1>2. CASE database # NoDatabase
  <2>1. database \in DatabasesOver(S) /\ IsPlayedFrom(database.history, project.files)
    BY <1>2 DEF PlayedFor
  <2>2. Len(project.files) \in 0..Len(project.files)
    BY LenProperties
  <2>3. CASE out \in [code: {0}, database: Played(project, database, Len(project.files))]
    <3>1. /\ out.code = 0 /\ out.database \in DatabasesOver(S)
          /\ IsPlayedFrom(out.database.history, project.files)
          /\ Len(out.database.history) = Len(project.files)
          /\ OnTrack(database) => OnTrack(out.database)
      BY <2>1, <2>2, <2>3, PlayedOn
    <3>2. out.database # NoDatabase
      <4>1. out.database \in Databases
        BY <3>1, SeqMonotonic DEF DatabasesOver, Databases
      <4> QED BY <4>1, SchemasAssumption
    <3> QED BY <1>2, <3>1, <3>2 DEF PlayedFor
  <2>4. ASSUME NEW n \in 0..Len(project.files), NEW after \in Played(project, database, n),
               out.code = 1, out.database \in {after, [after EXCEPT !.schema = Torn]}
        PROVE  PlayedFor(out.database, S, project.files)
    <3>1. after \in DatabasesOver(S) /\ IsPlayedFrom(after.history, project.files)
      BY <2>1, PlayedOn
    <3>2. /\ [after EXCEPT !.schema = Torn] \in DatabasesOver(S)
          /\ [after EXCEPT !.schema = Torn].history = after.history
      BY <3>1 DEF DatabasesOver, Schemas
    <3> QED BY <2>4, <3>1, <3>2 DEF PlayedFor
  <2>5. \/ out \in [code: {0}, database: Played(project, database, Len(project.files))]
        \/ \E n \in 0..Len(project.files) : \E after \in Played(project, database, n) :
             out.code = 1 /\ out.database \in {after, [after EXCEPT !.schema = Torn]}
    <3>1. \/ out \in [code: {0}, database: Played(project, database, Len(project.files))]
          \/ \E n \in 0..Len(project.files) :
               out \in [code: {1},
                        database: Played(project, database, n)
                                  \cup {[after EXCEPT !.schema = Torn]
                                          : after \in Played(project, database, n)}]
      BY <1>2, Zenon DEF MigrateOutcomes
    <3> QED BY <3>1
  <2> QED BY <2>3, <2>4, <2>5
<1> QED BY <1>1, <1>2

\* rollback takes migrations off the end of the history.
LEMMA RollbackKeeps ==
  ASSUME NEW S \in SUBSET Schemas, NEW files, Len(files) \in Nat,
         NEW database, PlayedFor(database, S, files),
         NEW count \in Nat, NEW out \in RollbackOutcomes(database, count)
  PROVE  PlayedFor(out.database, S, files)
<1>1. CASE database = NoDatabase
  BY <1>1 DEF RollbackOutcomes, PlayedFor
<1>2. CASE database # NoDatabase
  <2>1. database \in DatabasesOver(S) /\ IsPlayedFrom(database.history, files)
    BY <1>2 DEF PlayedFor
  <2>2. PICK h \in Seq(S) : h = database.history /\ Len(h) \in Nat
    BY <2>1, LenProperties DEF DatabasesOver
  <2>3. PICK k \in Nat : /\ k <= Len(h)
                         /\ out.database.schema
                              \in {Torn, IF k = 0 THEN database.schema
                                         ELSE Reached(SubSeq(h, 1, Len(h) - k))}
                         /\ out.database.history = SubSeq(h, 1, Len(h) - k)
                         /\ out.database = [schema  |-> out.database.schema,
                                            history |-> out.database.history]
    BY <1>2, <2>2 DEF RollbackOutcomes
  <2>4. k \in 0..Len(h)
    BY <2>2, <2>3
  <2>5. /\ SubSeq(h, 1, Len(h) - k) \in Seq(S)
        /\ IsPlayedFrom(SubSeq(h, 1, Len(h) - k), files)
        /\ Reached(SubSeq(h, 1, Len(h) - k)) \in Schemas
    BY <2>1, <2>2, <2>4, PlayedBack
  <2>6. out.database.schema \in Schemas
    BY <2>1, <2>3, <2>5 DEF DatabasesOver, Schemas
  <2>7. out.database \in DatabasesOver(S)
    BY <2>3, <2>5, <2>6 DEF DatabasesOver
  <2> QED BY <2>3, <2>5, <2>7 DEF PlayedFor
<1> QED BY <1>1, <1>2

-----------------------------------------------------------------------------
(* The invariant of a case                                                 *)

Job ==
  [task: Tasks, revision: Nat, before: Nat, rejected: BOOLEAN, stale: BOOLEAN,
   step: [code: {0, 1}, sql: BOOLEAN, migrated: {"not run", "ok", "failed"}],
   result: {"none", "recorded", "harness-error"}]

\* There is a place for every case's project and database.
Placed ==
  /\ job \in [Cases -> Job]
  /\ Directories \subseteq DOMAIN projects
  /\ CaseDatabases \subseteq DOMAIN databases

\* How far a case is, by the task it has reached.
TaskAt(c) ==
  /\ job[c].revision <= Len(c.revisions)
  /\ job[c].task \in {"queued", "mkdir", "drop", "create", "init"} =>
       job[c].revision = 0 /\ job[c].step = NoStep
  /\ job[c].task \in {"write", "make"} => job[c].revision < Len(c.revisions)
  /\ job[c].task = "rollback" => c.rollback > 0
  /\ job[c].task = "done" => job[c].result # "none"
  /\ job[c].task # "done" => job[c].result = "none"

\* What the files lead to once the revisions up to this one are written.
LeadsTo(c, revision, files) == Reached(files) \in {c.revisions[revision], Wrong}

\* The project of a case is its own, and what is to be migrated is in its files.
ProjectAt(c) ==
  LET project == projects[WorkDir(c)]
  IN  /\ job[c].task \in {"drop", "create", "init"} => project = EmptyProject
      /\ job[c].task \in AtWork => project \in ProjectsOf(c, Written(c))
      /\ job[c].task = "make" => job[c].before = Len(project.files)
      /\ job[c].task = "migrate" => LeadsTo(c, job[c].revision, project.files)

\* A database the case dropped is not there, and one it works with is played from
\* its files, and on track as long as no migrate and no rollback was in the way.
DatabaseAt(c) ==
  LET database == databases[DatabaseOf(c)]
  IN  ~job[c].stale =>
        /\ job[c].task = "create" => database = NoDatabase
        /\ job[c].task \in AtWork \cup {"init"} =>
             /\ PlayedFor(database, Targets(c), projects[WorkDir(c)].files)
             /\ ~job[c].rejected /\ ~RolledBack(c) /\ database # NoDatabase => OnTrack(database)

\* A case that runs, or has returned its result.
Standing(c) == job[c].task \in AtWork \/ (job[c].task = "done" /\ job[c].result = "recorded")

\* AppliedIsInTheDatabase, of one case.
AppliedAt(c) ==
  LET files == projects[WorkDir(c)].files
  IN  /\ Standing(c) /\ job[c].step.migrated = "ok"
      /\ ~RolledBack(c) /\ ~job[c].stale /\ ~job[c].rejected
      => /\ databases[DatabaseOf(c)].schema = Reached(files)
         /\ LeadsTo(c, job[c].revision, files)

CaseAt(c) == TaskAt(c) /\ ProjectAt(c) /\ DatabaseAt(c) /\ AppliedAt(c)

CaseInv == Placed /\ \A c \in Cases : CaseAt(c)

\* A step of one case leaves what belongs to the others alone.
Others(c) ==
  \A d \in Cases \ {c} :
    /\ job'[d] = job[d]
    /\ projects'[WorkDir(d)] = projects[WorkDir(d)]
    /\ databases'[DatabaseOf(d)] = databases[DatabaseOf(d)]

\* So what holds of them goes on to hold.
LEMMA OthersKeep ==
  ASSUME NEW c \in Cases, NEW d \in Cases, c # d, Others(c), CaseAt(d)
  PROVE  CaseAt(d)'
<1>1. /\ job'[d] = job[d]
      /\ projects'[WorkDir(d)] = projects[WorkDir(d)]
      /\ databases'[DatabaseOf(d)] = databases[DatabaseOf(d)]
  BY DEF Others
<1>2. /\ RolledBack(d)' = RolledBack(d)
      /\ Written(d)' = Written(d) /\ Standing(d)' = Standing(d)
  BY <1>1 DEF RolledBack, Written, Standing
<1>3. TaskAt(d)'
  BY <1>1 DEF CaseAt, TaskAt
<1>4. ProjectAt(d)'
  BY <1>1, <1>2 DEF CaseAt, ProjectAt
<1>5. DatabaseAt(d)' /\ AppliedAt(d)'
  BY <1>1, <1>2 DEF CaseAt, DatabaseAt, AppliedAt
<1> QED BY <1>3, <1>4, <1>5 DEF CaseAt

\* A case that has not begun, or that an exception ended, has nothing to keep.
LEMMA OverKeeps ==
  ASSUME NEW c \in Cases, TaskAt(c)', job'[c].task \in {"done", "idle", "queued", "mkdir"},
         job'[c].result # "recorded"
  PROVE  CaseAt(c)'
  BY DEF CaseAt, ProjectAt, DatabaseAt, AppliedAt, Standing, AtWork

\* Advance gives a case its next entry.
LEMMA Advanced ==
  ASSUME Placed, NEW c \in Cases, NEW entry \in Job, Advance(c, entry)
  PROVE  /\ job' \in [Cases -> Job]
         /\ \A d \in Cases \ {c} : job'[d] = job[d]
         /\ job'[c] = IF entry.task = "done" THEN [entry EXCEPT !.result = "recorded"]
                      ELSE entry
  BY DEF Advance, Job, Placed

\* Advance to a task that is not the last one.
LEMMA Moved ==
  ASSUME Placed, NEW c \in Cases, NEW entry \in Job, Advance(c, entry), entry.task # "done"
  PROVE  /\ job' \in [Cases -> Job]
         /\ \A d \in Cases \ {c} : job'[d] = job[d]
         /\ job'[c] = entry
<1>1. /\ job' \in [Cases -> Job]
      /\ \A d \in Cases \ {c} : job'[d] = job[d]
      /\ job'[c] = IF entry.task = "done" THEN [entry EXCEPT !.result = "recorded"]
                   ELSE entry
  BY Advanced, ZenonT(30)
<1> QED BY <1>1, Zenon

\* An exception ends the case with a result.
LEMMA RaiseKeeps ==
  ASSUME job \in [Cases -> Job], NEW c \in Cases, Raise(c), TaskAt(c)
  PROVE  /\ job' \in [Cases -> Job]
         /\ \A d \in Cases \ {c} : job'[d] = job[d]
         /\ CaseAt(c)'
<1>1. /\ job' \in [Cases -> Job]
      /\ \A d \in Cases \ {c} : job'[d] = job[d]
      /\ job'[c] = [job[c] EXCEPT !.task = "done", !.result = "harness-error"]
  <2>1. job[c] \in Job /\ [job[c] EXCEPT !.task = "done", !.result = "harness-error"] \in Job
    BY ZenonT(60) DEF Job, Tasks
  <2>2. DOMAIN job' = Cases /\ \A d \in Cases :
          job'[d] = IF d = c THEN [job[c] EXCEPT !.task = "done", !.result = "harness-error"]
                    ELSE job[d]
    BY DEF Raise, Job
  <2>3. job' = [d \in Cases |-> job'[d]]
    BY DEF Raise
  <2> QED BY <2>1, <2>2, <2>3
<1>2. TaskAt(c)' /\ job'[c].task = "done" /\ job'[c].result # "recorded"
  BY <1>1 DEF TaskAt, Job
<1> QED BY <1>1, <1>2, OverKeeps

\* Where run() goes on, there is something to do.
LEMMA NextTaskIs ==
  ASSUME NEW c \in Cases, NEW revision \in 0..Len(c.revisions)
  PROVE  /\ NextTask(c, revision) \in {"write", "rollback", "capture", "done"}
         /\ NextTask(c, revision) = "write" => revision < Len(c.revisions)
         /\ NextTask(c, revision) = "rollback" => c.rollback > 0
<1>1. Len(c.revisions) \in Nat /\ c.rollback \in Nat
  BY CaseFields
<1>2. CASE revision < Len(c.revisions)
  BY <1>1, <1>2 DEF NextTask
<1>3. CASE ~(revision < Len(c.revisions))
  <2>1. revision = Len(c.revisions)
    BY <1>1, <1>3
  <2>2. CASE c.rollback > 0
    BY <1>1, <1>3, <2>1, <2>2 DEF NextTask
  <2>3. CASE c.rollback = 0
    BY <1>1, <1>3, <2>1, <2>3 DEF NextTask, Ending
  <2> QED BY <1>1, <2>2, <2>3
<1> QED BY <1>2, <1>3


-----------------------------------------------------------------------------
(* Each step of a case keeps it, and leaves the others alone               *)

Kept(c) == Placed' /\ Others(c) /\ CaseAt(c)'

LEMMA OwnProject ==
  ASSUME Placed, NEW c \in Cases, NEW x, projects' = [projects EXCEPT ![WorkDir(c)] = x]
  PROVE  /\ DOMAIN projects' = DOMAIN projects
         /\ projects'[WorkDir(c)] = x
         /\ \A d \in Cases \ {c} : projects'[WorkDir(d)] = projects[WorkDir(d)]
<1>1. \A d \in Cases : WorkDir(d) \in DOMAIN projects
  BY DEF Placed, Directories
<1>2. \A d \in Cases \ {c} : WorkDir(d) # WorkDir(c)
  BY Distinct
<1> QED BY <1>1, <1>2

LEMMA OwnDatabase ==
  ASSUME Placed, NEW c \in Cases, NEW x, databases' = [databases EXCEPT ![DatabaseOf(c)] = x]
  PROVE  /\ DOMAIN databases' = DOMAIN databases
         /\ databases'[DatabaseOf(c)] = x
         /\ \A d \in Cases \ {c} : databases'[DatabaseOf(d)] = databases[DatabaseOf(d)]
<1>1. \A d \in Cases : DatabaseOf(d) \in DOMAIN databases
  BY DEF Placed, CaseDatabases
<1>2. \A d \in Cases \ {c} : DatabaseOf(d) # DatabaseOf(c)
  BY Distinct
<1> QED BY <1>1, <1>2

\* An empty database has been played from no files, and so has none.
LEMMA EmptyIsPlayed ==
  ASSUME NEW S, NEW database \in {EmptyDatabase, NoDatabase}
  PROVE  PlayedFor(database, S, <<>>) /\ (database # NoDatabase => OnTrack(database))
<1>1. /\ EmptyDatabase \in DatabasesOver(S) /\ IsPlayedFrom(EmptyDatabase.history, <<>>)
      /\ OnTrack(EmptyDatabase)
  BY EmptySeq DEF EmptyDatabase, DatabasesOver, IsPlayedFrom, Schemas, OnTrack, Reached
<1> QED BY <1>1 DEF PlayedFor

\* Before the first migrate nothing is applied.
LEMMA NotAppliedYet ==
  ASSUME NEW c \in Cases, TaskAt(c)', job'[c].task = "init"
  PROVE  AppliedAt(c)'
<1>1. job'[c].step = NoStep
  BY DEF TaskAt
<1>2. NoStep.migrated # "ok"
  BY DEF NoStep
<1> QED BY <1>1, <1>2 DEF AppliedAt

LEMMA TakeKeeps == ASSUME CaseInv, NEW c \in Cases, Take(c) PROVE Kept(c)
<1>1. Placed /\ TaskAt(c) /\ job[c] \in Job /\ job[c].task = "queued"
  BY DEF CaseInv, CaseAt, Placed, Take
<1>2. PICK entry \in Job : /\ entry = [job[c] EXCEPT !.task = "mkdir"] /\ entry.task = "mkdir"
                          /\ Advance(c, entry)
  BY <1>1 DEF Take, Goto, Job, Tasks
<1>3. /\ job' \in [Cases -> Job] /\ job'[c] = entry
      /\ \A d \in Cases \ {c} : job'[d] = job[d]
  <2>1. Placed /\ Advance(c, entry) /\ entry.task # "done"
    BY <1>1, <1>2
  <2> QED BY <2>1, Moved, Zenon
<1>4. TaskAt(c)' /\ job'[c].task = "mkdir" /\ job'[c].result # "recorded"
  BY <1>1, <1>2, <1>3, ZenonT(60) DEF TaskAt, Job
<1> QED BY <1>1, <1>3, <1>4, OverKeeps DEF Kept, Placed, Others, Take, stores

LEMMA MakeDirectoryKeeps == ASSUME CaseInv, NEW c \in Cases, MakeDirectory(c) PROVE Kept(c)
<1>1. Placed /\ TaskAt(c) /\ job[c] \in Job /\ job[c].task = "mkdir"
  BY DEF CaseInv, CaseAt, Placed, MakeDirectory
<1>2. CASE Raise(c) /\ UNCHANGED stores
  BY <1>1, <1>2, RaiseKeeps DEF Kept, Placed, Others, stores
<1>3. CASE projects' = [projects EXCEPT ![WorkDir(c)] = EmptyProject]
  <2>1. /\ DOMAIN projects' = DOMAIN projects
        /\ projects'[WorkDir(c)] = EmptyProject
        /\ \A d \in Cases \ {c} : projects'[WorkDir(d)] = projects[WorkDir(d)]
    BY <1>1, <1>3, OwnProject
  <2>2. CASE Goto(c, "drop") /\ UNCHANGED databases
    <3>1. PICK entry \in Job : /\ entry = [job[c] EXCEPT !.task = "drop"] /\ entry.task = "drop"
                               /\ Advance(c, entry)
      BY <1>1, <2>2 DEF Goto, Job, Tasks
    <3>2. /\ job' \in [Cases -> Job] /\ job'[c] = entry /\ entry.task = "drop"
          /\ \A d \in Cases \ {c} : job'[d] = job[d]
      <4>1. Placed /\ Advance(c, entry) /\ entry.task = "drop" /\ entry.task # "done"
        BY <1>1, <3>1
      <4> QED BY <4>1, Moved, Zenon
    <3>3. TaskAt(c)'
      BY <1>1, <3>1, <3>2, ZenonT(60) DEF TaskAt, Job
    <3>4. CaseAt(c)'
      BY <2>1, <3>2, <3>3 DEF CaseAt, ProjectAt, DatabaseAt, AppliedAt, Standing, AtWork
    <3> QED BY <1>1, <2>1, <2>2, <3>2, <3>4 DEF Kept, Placed, Others
  <2>3. CASE /\ databases' = [databases EXCEPT ![DatabaseOf(c)] = EmptyDatabase]
             /\ Goto(c, "init")
    <3>1. PICK entry \in Job : /\ entry = [job[c] EXCEPT !.task = "init"]
                               /\ entry.task = "init" /\ Advance(c, entry)
      BY <1>1, <2>3 DEF Goto, Job, Tasks
    <3>2. /\ job' \in [Cases -> Job] /\ job'[c] = entry /\ entry.task = "init"
          /\ \A d \in Cases \ {c} : job'[d] = job[d]
      <4>1. Placed /\ Advance(c, entry) /\ entry.task = "init" /\ entry.task # "done"
        BY <1>1, <3>1
      <4> QED BY <4>1, Moved, Zenon
    <3>3. TaskAt(c)'
      BY <1>1, <3>1, <3>2, ZenonT(60) DEF TaskAt, Job
    <3>4. /\ DOMAIN databases' = DOMAIN databases
          /\ databases'[DatabaseOf(c)] = EmptyDatabase
          /\ \A d \in Cases \ {c} : databases'[DatabaseOf(d)] = databases[DatabaseOf(d)]
      BY <1>1, <2>3, OwnDatabase
    <3>5. ProjectAt(c)' /\ DatabaseAt(c)'
      <4>1. ProjectAt(c)' /\ projects'[WorkDir(c)].files = <<>>
        BY <2>1, <3>2 DEF ProjectAt, AtWork, EmptyProject
      <4> QED BY <3>2, <3>4, <4>1, EmptyIsPlayed DEF DatabaseAt
    <3>6. AppliedAt(c)'
      BY <3>2, <3>3, NotAppliedYet
    <3> QED BY <1>1, <2>1, <3>2, <3>3, <3>4, <3>5, <3>6 DEF Kept, Placed, Others, CaseAt
  <2> QED BY <1>2, <1>3, <2>2, <2>3 DEF MakeDirectory
<1> QED BY <1>2, <1>3 DEF MakeDirectory

LEMMA DropDatabaseKeeps == ASSUME CaseInv, NEW c \in Cases, DropDatabase(c) PROVE Kept(c)
<1>1. Placed /\ CaseAt(c) /\ TaskAt(c) /\ job[c] \in Job /\ job[c].task = "drop"
  BY DEF CaseInv, CaseAt, Placed, DropDatabase
<1>2. PICK stale \in BOOLEAN, entry \in Job :
        /\ entry = [job[c] EXCEPT !.task = "create", !.stale = stale]
        /\ entry.task = "create" /\ entry.stale = stale /\ Advance(c, entry)
        /\ \/ databases' = [databases EXCEPT ![DatabaseOf(c)] = NoDatabase]
           \/ databases' = databases /\ stale = (databases[DatabaseOf(c)] # NoDatabase)
  <2>1. CASE /\ databases' = [databases EXCEPT ![DatabaseOf(c)] = NoDatabase]
             /\ Goto(c, "create")
    <3>1. PICK entry : entry = [job[c] EXCEPT !.task = "create", !.stale = job[c].stale]
      OBVIOUS
    <3>2. entry = [job[c] EXCEPT !.task = "create"]
      BY <1>1, <3>1 DEF Job
    <3>3. entry \in Job /\ entry.task = "create" /\ entry.stale = job[c].stale
      BY <1>1, <3>1 DEF Job, Tasks
    <3>4. Advance(c, entry) /\ job[c].stale \in BOOLEAN
      BY <1>1, <2>1, <3>2 DEF Goto, Job
    <3> QED BY <2>1, <3>1, <3>3, <3>4
  <2>2. CASE /\ Advance(c, [job[c] EXCEPT !.task = "create",
                                          !.stale = databases[DatabaseOf(c)] # NoDatabase])
             /\ UNCHANGED databases
    <3>1. PICK stale \in BOOLEAN : stale = (databases[DatabaseOf(c)] # NoDatabase)
      BY Zenon
    <3>2. PICK entry : entry = [job[c] EXCEPT !.task = "create", !.stale = stale]
      OBVIOUS
    <3>3. entry \in Job /\ entry.task = "create" /\ entry.stale = stale
      BY <1>1, <3>2 DEF Job, Tasks
    <3>4. Advance(c, entry)
      BY <2>2, <3>1, <3>2, Zenon
    <3> QED BY <2>2, <3>1, <3>2, <3>3, <3>4
  <2> QED BY <2>1, <2>2 DEF DropDatabase
<1>3. /\ job' \in [Cases -> Job] /\ job'[c] = entry /\ entry.task = "create"
      /\ \A d \in Cases \ {c} : job'[d] = job[d]
  <2>1. Placed /\ Advance(c, entry) /\ entry.task = "create" /\ entry.task # "done"
    BY <1>1, <1>2
  <2> QED BY <2>1, Moved, Zenon
<1>4. /\ DOMAIN databases' = DOMAIN databases
      /\ ~stale => databases'[DatabaseOf(c)] = NoDatabase
      /\ \A d \in Cases \ {c} : databases'[DatabaseOf(d)] = databases[DatabaseOf(d)]
  BY <1>1, <1>2, OwnDatabase
<1>5. TaskAt(c)'
  BY <1>1, <1>2, <1>3, ZenonT(60) DEF TaskAt, Job
<1>6. UNCHANGED projects
  BY DEF DropDatabase
<1>7. ProjectAt(c)' /\ AppliedAt(c)'
  BY <1>1, <1>3, <1>6 DEF CaseAt, ProjectAt, AppliedAt, Standing, AtWork
<1>8. DatabaseAt(c)'
  BY <1>2, <1>3, <1>4 DEF DatabaseAt, AtWork
<1> QED BY <1>1, <1>3, <1>4, <1>5, <1>6, <1>7, <1>8 DEF Kept, Placed, Others, CaseAt

LEMMA CreateDatabaseKeeps == ASSUME CaseInv, NEW c \in Cases, CreateDatabase(c) PROVE Kept(c)
<1>1. /\ Placed /\ CaseAt(c) /\ TaskAt(c) /\ job[c] \in Job /\ job[c].task = "create"
      /\ projects[WorkDir(c)] = EmptyProject /\ UNCHANGED projects
      /\ ~job[c].stale => databases[DatabaseOf(c)] = NoDatabase
  BY DEF CaseInv, CaseAt, Placed, CreateDatabase, ProjectAt, DatabaseAt
<1>2. PICK entry \in Job :
        /\ entry = [job[c] EXCEPT !.task = "init"] /\ entry.task = "init"
        /\ entry.stale = job[c].stale /\ Advance(c, entry)
  BY <1>1 DEF CreateDatabase, Goto, Job, Tasks
<1>3. /\ job' \in [Cases -> Job] /\ job'[c] = entry /\ entry.task = "init"
      /\ \A d \in Cases \ {c} : job'[d] = job[d]
  <2>1. Placed /\ Advance(c, entry) /\ entry.task = "init" /\ entry.task # "done"
    BY <1>1, <1>2
  <2> QED BY <2>1, Moved, Zenon
<1>4. /\ DOMAIN databases' = DOMAIN databases
      /\ databases'[DatabaseOf(c)] \in {EmptyDatabase, databases[DatabaseOf(c)]}
      /\ \A d \in Cases \ {c} : databases'[DatabaseOf(d)] = databases[DatabaseOf(d)]
  <2>1. CASE databases' = [databases EXCEPT ![DatabaseOf(c)] = EmptyDatabase]
    BY <1>1, <2>1, OwnDatabase
  <2>2. CASE UNCHANGED databases
    BY <2>2
  <2> QED BY <2>1, <2>2 DEF CreateDatabase
<1>5. TaskAt(c)'
  BY <1>1, <1>2, <1>3, ZenonT(60) DEF TaskAt, Job
<1>6. ProjectAt(c)' /\ projects'[WorkDir(c)].files = <<>>
  BY <1>1, <1>3 DEF ProjectAt, AtWork, EmptyProject
<1>7. DatabaseAt(c)'
  <2>1. ~entry.stale => databases'[DatabaseOf(c)] \in {EmptyDatabase, NoDatabase}
    BY <1>1, <1>2, <1>4
  <2> QED BY <1>3, <1>6, <2>1, EmptyIsPlayed DEF DatabaseAt
<1>8. AppliedAt(c)'
  BY <1>3, <1>5, NotAppliedYet
<1> QED BY <1>1, <1>3, <1>4, <1>5, <1>6, <1>7, <1>8 DEF Kept, Placed, Others, CaseAt

LEMMA InitProjectKeeps == ASSUME CaseInv, NEW c \in Cases, InitProject(c) PROVE Kept(c)
<1>1. /\ Placed /\ CaseAt(c) /\ TaskAt(c) /\ job[c] \in Job /\ job[c].task = "init"
      /\ projects[WorkDir(c)] = EmptyProject /\ UNCHANGED databases
      /\ job[c].revision = 0 /\ job[c].step = NoStep
  BY DEF CaseInv, CaseAt, Placed, InitProject, ProjectAt, TaskAt
<1>2. CASE Raise(c) /\ UNCHANGED projects
  BY <1>1, <1>2, RaiseKeeps DEF Kept, Placed, Others
<1>3. CASE /\ projects' = [projects EXCEPT ![WorkDir(c)].config = DatabaseOf(c)]
           /\ Goto(c, NextTask(c, 0))
  <2>1. PICK project \in ProjectsOf(c, NoModels) :
          /\ project.files = <<>>
          /\ projects' = [projects EXCEPT ![WorkDir(c)] = project]
    <3>1. [EmptyProject EXCEPT !.config = DatabaseOf(c)] \in ProjectsOf(c, NoModels)
      BY EmptySeq DEF EmptyProject, ProjectsOf
    <3>2. [EmptyProject EXCEPT !.config = DatabaseOf(c)].files = <<>>
      BY DEF EmptyProject
    <3> QED BY <1>1, <1>3, <3>1, <3>2
  <2>2. /\ DOMAIN projects' = DOMAIN projects
        /\ projects'[WorkDir(c)] = project
        /\ \A d \in Cases \ {c} : projects'[WorkDir(d)] = projects[WorkDir(d)]
    BY <1>1, <2>1, OwnProject
  <2>3. PICK task : task = NextTask(c, 0)
    OBVIOUS
  <2>4. /\ task \in {"write", "rollback", "capture", "done"}
        /\ task = "write" => 0 < Len(c.revisions)
        /\ task = "rollback" => c.rollback > 0
    <3>1. 0 \in 0..Len(c.revisions)
      BY CaseFields
    <3> QED BY <2>3, <3>1, NextTaskIs
  <2>5. PICK entry \in Job : /\ entry = [job[c] EXCEPT !.task = task] /\ entry.task = task
                             /\ Advance(c, entry)
    BY <1>1, <1>3, <2>3, <2>4 DEF Goto, Job, Tasks
  <2>6. /\ job' \in [Cases -> Job]
        /\ \A d \in Cases \ {c} : job'[d] = job[d]
        /\ job'[c] = IF entry.task = "done" THEN [entry EXCEPT !.result = "recorded"]
                     ELSE entry
    <3>1. Placed /\ Advance(c, entry)
      BY <1>1, <2>5
    <3> QED BY <3>1, Advanced, ZenonT(30)
  <2>7. /\ job'[c].task = task /\ job'[c].revision = 0 /\ job'[c].step = NoStep
        /\ job'[c].stale = job[c].stale /\ job'[c].rejected = job[c].rejected
        /\ task = "done" => job'[c].result # "none"
        /\ task # "done" => job'[c].result = "none"
    BY <1>1, <2>5, <2>6, ZenonT(60) DEF Job, TaskAt
  <2>8. TaskAt(c)'
    BY <1>1, <2>4, <2>7, CaseFields DEF TaskAt
  <2>9. ProjectAt(c)'
    BY <2>2, <2>4, <2>7 DEF ProjectAt, Written
  <2>10. DatabaseAt(c)'
    <3>1. project.files = projects[WorkDir(c)].files /\ ~RolledBack(c)
      BY <1>1, <2>1 DEF EmptyProject, RolledBack
    <3> QED BY <1>1, <2>1, <2>2, <2>4, <2>7, <3>1 DEF CaseAt, DatabaseAt
  <2>11. AppliedAt(c)'
    <3>1. NoStep.migrated # "ok"
      BY DEF NoStep
    <3> QED BY <2>7, <3>1 DEF AppliedAt
  <2> QED BY <1>1, <2>2, <2>6, <2>8, <2>9, <2>10, <2>11 DEF Kept, Placed, Others, CaseAt
<1> QED BY <1>2, <1>3 DEF InitProject, TimesOut

LEMMA WriteRevisionKeeps == ASSUME CaseInv, NEW c \in Cases, WriteRevision(c) PROVE Kept(c)
<1>1. /\ Placed /\ CaseAt(c) /\ TaskAt(c) /\ job[c] \in Job /\ job[c].task = "write"
      /\ projects[WorkDir(c)] \in ProjectsOf(c, Written(c)) /\ UNCHANGED databases
      /\ job[c].revision < Len(c.revisions)
  BY DEF CaseInv, CaseAt, Placed, WriteRevision, ProjectAt, TaskAt, AtWork
<1>2. PICK project :
        /\ project = [projects[WorkDir(c)] EXCEPT !.models = c.revisions[job[c].revision + 1]]
        /\ projects' = [projects EXCEPT ![WorkDir(c)] = project]
  BY DEF WriteRevision
<1>3. /\ project \in ProjectsOf(c, c.revisions[job[c].revision + 1])
      /\ project.files = projects[WorkDir(c)].files /\ Len(project.files) \in Nat
  BY <1>1, <1>2, LenProperties DEF ProjectsOf
<1>4. /\ DOMAIN projects' = DOMAIN projects
      /\ projects'[WorkDir(c)] = project
      /\ \A d \in Cases \ {c} : projects'[WorkDir(d)] = projects[WorkDir(d)]
  BY <1>1, <1>2, OwnProject
<1>5. PICK entry \in Job :
        /\ entry = [job[c] EXCEPT !.task = "make", !.before = Len(project.files)]
        /\ entry.task = "make" /\ Advance(c, entry)
  BY <1>1, <1>3 DEF WriteRevision, Job, Tasks
<1>6. /\ job' \in [Cases -> Job] /\ job'[c] = entry
      /\ \A d \in Cases \ {c} : job'[d] = job[d]
  <2>1. Placed /\ Advance(c, entry) /\ entry.task # "done"
    BY <1>1, <1>5
  <2> QED BY <2>1, Moved, Zenon
<1>7. /\ job'[c].task = "make" /\ job'[c].before = Len(project.files)
      /\ job'[c].revision = job[c].revision /\ job'[c].step = job[c].step
      /\ job'[c].stale = job[c].stale /\ job'[c].rejected = job[c].rejected
      /\ job'[c].result = "none"
  BY <1>1, <1>5, <1>6, ZenonT(60) DEF Job, TaskAt
<1>8. TaskAt(c)'
  BY <1>1, <1>7 DEF TaskAt
<1>9. ProjectAt(c)'
  <2>1. Written(c)' = c.revisions[job[c].revision + 1]
    <3>1. job[c].revision \in Nat
      BY <1>1 DEF Job
    <3>2. job[c].revision + 1 # 0
      BY <3>1
    <3> QED BY <1>7, <3>2 DEF Written
  <2> QED BY <1>3, <1>4, <1>7, <2>1 DEF ProjectAt
<1>10. DatabaseAt(c)' /\ AppliedAt(c)'
  <2>1. Standing(c)' => Standing(c)
    BY <1>1, <1>7 DEF Standing, AtWork
  <2>2. ~RolledBack(c) /\ ~RolledBack(c)'
    BY <1>1, <1>7 DEF RolledBack
  <2>3. DatabaseAt(c)'
    BY <1>1, <1>3, <1>4, <1>7, <2>2 DEF CaseAt, DatabaseAt, AtWork
  <2> QED BY <1>1, <1>3, <1>4, <1>7, <2>1, <2>2, <2>3 DEF CaseAt, AppliedAt
<1> QED BY <1>1, <1>4, <1>6, <1>8, <1>9, <1>10 DEF Kept, Placed, Others, CaseAt

LEMMA CaptureKeeps == ASSUME CaseInv, NEW c \in Cases, Capture(c) PROVE Kept(c)
<1>1. /\ Placed /\ TaskAt(c) /\ AppliedAt(c) /\ job[c] \in Job /\ job[c].task = "capture"
      /\ UNCHANGED stores
  BY DEF CaseInv, CaseAt, Placed, Capture
<1>2. CASE Raise(c)
  BY <1>1, <1>2, RaiseKeeps DEF Kept, Placed, Others, stores
<1>3. CASE Goto(c, "done")
  <2>1. PICK entry \in Job : /\ entry = [job[c] EXCEPT !.task = "done"] /\ entry.task = "done"
                             /\ Advance(c, entry)
    BY <1>1, <1>3 DEF Goto, Job, Tasks
  <2>2. /\ job' \in [Cases -> Job]
        /\ \A d \in Cases \ {c} : job'[d] = job[d]
        /\ job'[c] = IF entry.task = "done" THEN [entry EXCEPT !.result = "recorded"]
                     ELSE entry
    <3>1. Placed /\ Advance(c, entry)
      BY <1>1, <2>1
    <3> QED BY <3>1, Advanced, ZenonT(30)
  <2>3. /\ job'[c].task = "done" /\ job'[c].revision = job[c].revision
        /\ job'[c].step = job[c].step /\ job'[c].stale = job[c].stale
        /\ job'[c].rejected = job[c].rejected /\ job'[c].result # "none"
    BY <1>1, <2>1, <2>2 DEF Job
  <2>4. TaskAt(c)'
    BY <1>1, <2>3 DEF TaskAt
  <2>5. ProjectAt(c)' /\ DatabaseAt(c)'
    BY <2>3 DEF ProjectAt, DatabaseAt, AtWork
  <2>6. AppliedAt(c)'
    <3>1. (Standing(c)' => Standing(c)) /\ (RolledBack(c)' <=> RolledBack(c))
      BY <1>1, <2>3 DEF Standing, AtWork, RolledBack
    <3> QED BY <1>1, <2>3, <3>1 DEF AppliedAt, stores
  <2> QED BY <1>1, <2>2, <2>4, <2>5, <2>6 DEF Kept, Placed, Others, CaseAt, stores
<1> QED BY <1>2, <1>3 DEF Capture, TimesOut


\* make-migrations for the models of the next revision.
LEMMA MakeMigrationsKeeps == ASSUME CaseInv, NEW c \in Cases, MakeMigrations(c) PROVE Kept(c)
<1> DEFINE r == job[c].revision + 1
           before == projects[WorkDir(c)]
<1>1. /\ Placed /\ CaseAt(c) /\ TaskAt(c) /\ DatabaseAt(c)
      /\ job[c] \in Job /\ job[c].task = "make" /\ UNCHANGED databases
      /\ job[c].revision < Len(c.revisions) /\ before \in ProjectsOf(c, Written(c))
      /\ job[c].before = Len(before.files)
  BY DEF CaseInv, CaseAt, Placed, MakeMigrations, ProjectAt, TaskAt, AtWork
<1>2. r \in 1..Len(c.revisions) /\ r # 0 /\ job[c].revision \in Nat
  <2>1. job[c].revision \in Nat
    BY <1>1 DEF Job
  <2> QED BY <1>1, <2>1, CaseFields
<1>3. Written(c) = c.revisions[r] /\ c.revisions[r] \in Targets(c)
  BY <1>1, <1>2, CaseFields DEF Written
<1>4. PICK out, step :
        /\ out \in MakeOutcomes(before)
        /\ step = [code |-> out.code, sql |-> Len(out.files) > job[c].before,
                   migrated |-> "not run"]
        /\ projects' = [projects EXCEPT ![WorkDir(c)].files = out.files]
        /\ \/ Advance(c, [job[c] EXCEPT
                 !.task = IF c.apply /\ Generated(step) THEN "migrate" ELSE NextTask(c, r),
                 !.revision = r, !.step = step])
           \/ Raise(c)
  BY DEF MakeMigrations, TimesOut
<1>5. /\ out.code \in {0, 1} /\ out.files \in Seq(Targets(c))
      /\ Len(before.files) <= Len(out.files)
      /\ \A i \in 1..Len(before.files) : out.files[i] = before.files[i]
      /\ Len(out.files) > Len(before.files) => LeadsTo(c, r, out.files)
  BY <1>1, <1>3, <1>4, MakeKeeps DEF LeadsTo
<1>6. PICK project :
        /\ project = [before EXCEPT !.files = out.files]
        /\ projects' = [projects EXCEPT ![WorkDir(c)] = project]
  BY <1>4
<1>7. project \in ProjectsOf(c, c.revisions[r]) /\ project.files = out.files
  BY <1>1, <1>3, <1>5, <1>6 DEF ProjectsOf
<1>8. /\ DOMAIN projects' = DOMAIN projects
      /\ projects'[WorkDir(c)] = project
      /\ \A d \in Cases \ {c} : projects'[WorkDir(d)] = projects[WorkDir(d)]
  BY <1>1, <1>6, OwnProject
<1>9. CASE Raise(c)
  <2>1. job' \in [Cases -> Job] /\ CaseAt(c)' /\ \A d \in Cases \ {c} : job'[d] = job[d]
    BY <1>1, <1>9, RaiseKeeps DEF Placed
  <2> QED BY <1>1, <1>8, <2>1 DEF Kept, Placed, Others
<1>10. CASE ~Raise(c)
  <2>1. PICK task : task = IF c.apply /\ Generated(step) THEN "migrate" ELSE NextTask(c, r)
    OBVIOUS
  <2>2. /\ task \in {"migrate", "write", "rollback", "capture", "done"}
        /\ task = "write" => r < Len(c.revisions)
        /\ task = "rollback" => c.rollback > 0
        /\ task = "migrate" => Generated(step)
    <3>1. r \in 0..Len(c.revisions)
      BY <1>2
    <3> QED BY <2>1, <3>1, NextTaskIs
  <2>3. /\ step \in [code: {0, 1}, sql: BOOLEAN, migrated: {"not run", "ok", "failed"}]
        /\ step.migrated = "not run"
        /\ Generated(step) => Len(out.files) > Len(before.files)
    <3>1. (Len(out.files) > job[c].before) \in BOOLEAN
      OBVIOUS
    <3>2. PICK sql \in BOOLEAN : sql = (Len(out.files) > job[c].before)
      BY <3>1, Zenon
    <3>3. step = [code |-> out.code, sql |-> sql, migrated |-> "not run"]
      BY <1>4, <3>2, Zenon
    <3> QED BY <1>1, <1>5, <3>2, <3>3 DEF Generated
  <2>4. PICK entry \in Job :
          /\ entry = [job[c] EXCEPT !.task = task, !.revision = r, !.step = step]
          /\ entry.task = task /\ Advance(c, entry)
    <3>1. task \in Tasks /\ r \in Nat
      BY <1>2, <2>2 DEF Tasks
    <3> QED BY <1>1, <1>4, <1>10, <2>1, <2>3, <3>1 DEF Job
  <2>5. /\ job' \in [Cases -> Job]
        /\ \A d \in Cases \ {c} : job'[d] = job[d]
        /\ job'[c] = IF entry.task = "done" THEN [entry EXCEPT !.result = "recorded"]
                     ELSE entry
    <3>1. Placed /\ Advance(c, entry)
      BY <1>1, <2>4
    <3> QED BY <3>1, Advanced, ZenonT(30)
  <2>6. /\ job'[c].task = task /\ job'[c].revision = r /\ job'[c].step = step
        /\ job'[c].stale = job[c].stale /\ job'[c].rejected = job[c].rejected
        /\ task = "done" => job'[c].result # "none"
        /\ task # "done" => job'[c].result = "none"
    BY <1>1, <2>4, <2>5, ZenonT(60) DEF Job, TaskAt
  <2> HIDE DEF r, before
  <2>7. TaskAt(c)'
    <3>1. r <= Len(c.revisions) /\ r > 0
      BY <1>2, CaseFields
    <3> QED BY <2>2, <2>3, <2>6, <3>1 DEF TaskAt
  <2>8. ProjectAt(c)'
    <3>1. task # "make" => Written(c)' = c.revisions[r]
      BY <1>2, <2>6 DEF Written
    <3> QED BY <1>5, <1>7, <1>8, <2>2, <2>3, <2>6, <3>1 DEF ProjectAt
  <2>9. DatabaseAt(c)'
    <3> SUFFICES ASSUME ~job'[c].stale, job'[c].task \in AtWork
                 PROVE  /\ PlayedFor(databases[DatabaseOf(c)], Targets(c), out.files)
                        /\ ~job'[c].rejected /\ databases[DatabaseOf(c)] # NoDatabase =>
                             OnTrack(databases[DatabaseOf(c)])
      BY <1>1, <1>7, <1>8, <2>2, <2>6 DEF DatabaseAt, AtWork
    <3>1. /\ PlayedFor(databases[DatabaseOf(c)], Targets(c), before.files)
          /\ ~job[c].rejected /\ databases[DatabaseOf(c)] # NoDatabase =>
               OnTrack(databases[DatabaseOf(c)])
      BY <1>1, <2>6 DEF DatabaseAt, AtWork, RolledBack, before
    <3>2. CASE databases[DatabaseOf(c)] = NoDatabase
      BY <3>2 DEF PlayedFor
    <3>3. CASE databases[DatabaseOf(c)] # NoDatabase
      <4>1. PICK h : h = databases[DatabaseOf(c)].history
        OBVIOUS
      <4>2. /\ databases[DatabaseOf(c)] \in DatabasesOver(Targets(c))
            /\ Len(h) <= Len(before.files)
            /\ \A i \in 1..Len(h) : h[i] = before.files[i]
        BY <3>1, <3>3, <4>1 DEF PlayedFor, IsPlayedFrom
      <4>3. /\ Len(h) \in Nat /\ Len(before.files) \in Nat /\ Len(out.files) \in Nat
        BY <1>1, <1>5, <4>1, <4>2, LenProperties DEF ProjectsOf, DatabasesOver
      <4>4. ASSUME NEW i \in 1..Len(h) PROVE h[i] = out.files[i]
        <5>1. i \in 1..Len(before.files)
          BY <4>2, <4>3
        <5> QED BY <1>5, <4>2, <5>1
      <4>5. IsPlayedFrom(h, out.files)
        BY <1>5, <4>2, <4>3, <4>4 DEF IsPlayedFrom
      <4> QED BY <2>6, <3>1, <4>1, <4>2, <4>5 DEF PlayedFor
    <3> QED BY <3>2, <3>3
  <2>10. AppliedAt(c)'
    BY <2>3, <2>6 DEF AppliedAt
  <2> QED BY <1>1, <1>8, <2>5, <2>7, <2>8, <2>9, <2>10 DEF Kept, Placed, Others, CaseAt
<1> QED BY <1>9, <1>10

\* What the two steps that play migrations have in common.
LEMMA PlayingKeeps ==
  ASSUME CaseInv, NEW c \in Cases, job[c].task \in {"migrate", "rollback"},
         NEW database, NEW entry \in Job,
         databases' = [databases EXCEPT ![projects[WorkDir(c)].config] = database],
         UNCHANGED projects,
         Advance(c, entry) \/ Raise(c),
         entry.task \in {"write", "rollback", "capture", "done"},
         entry.revision = job[c].revision, entry.stale = job[c].stale,
         entry.result = "none",
         entry.task = "write" => entry.revision < Len(c.revisions),
         entry.task = "rollback" => c.rollback > 0,
         ~job[c].stale =>
           /\ PlayedFor(database, Targets(c), projects[WorkDir(c)].files)
           /\ ~entry.rejected /\ ~(entry.task \in {"capture", "done"} /\ c.rollback > 0) =>
                /\ database # NoDatabase => OnTrack(database)
                /\ entry.step.migrated = "ok" =>
                     /\ database.schema = Reached(projects[WorkDir(c)].files)
                     /\ LeadsTo(c, entry.revision, projects[WorkDir(c)].files)
  PROVE  Kept(c)
<1>1. /\ Placed /\ CaseAt(c) /\ TaskAt(c) /\ job[c] \in Job
      /\ projects[WorkDir(c)] \in ProjectsOf(c, Written(c))
      /\ projects[WorkDir(c)].config = DatabaseOf(c)
  BY DEF CaseInv, CaseAt, Placed, ProjectAt, AtWork, ProjectsOf
<1>2. /\ DOMAIN databases' = DOMAIN databases
      /\ databases'[DatabaseOf(c)] = database
      /\ \A d \in Cases \ {c} : databases'[DatabaseOf(d)] = databases[DatabaseOf(d)]
  BY <1>1, OwnDatabase
<1>3. CASE Raise(c)
  <2>1. job' \in [Cases -> Job] /\ CaseAt(c)' /\ \A d \in Cases \ {c} : job'[d] = job[d]
    BY <1>1, <1>3, RaiseKeeps DEF Placed
  <2> QED BY <1>1, <1>2, <2>1 DEF Kept, Placed, Others
<1>4. CASE Advance(c, entry)
  <2>1. /\ job' \in [Cases -> Job]
        /\ \A d \in Cases \ {c} : job'[d] = job[d]
        /\ job'[c] = IF entry.task = "done" THEN [entry EXCEPT !.result = "recorded"]
                     ELSE entry
    <3>1. Placed /\ Advance(c, entry)
      BY <1>1, <1>4
    <3> QED BY <3>1, Advanced, ZenonT(30)
  <2>2. /\ job'[c].task = entry.task /\ job'[c].revision = job[c].revision
        /\ job'[c].step = entry.step /\ job'[c].stale = job[c].stale
        /\ job'[c].rejected = entry.rejected
        /\ entry.task = "done" => job'[c].result # "none"
        /\ entry.task # "done" => job'[c].result = "none"
    BY <2>1 DEF Job
  <2>3. TaskAt(c)'
    BY <1>1, <2>2 DEF TaskAt
  <2>4. ProjectAt(c)'
    <3>1. Written(c)' = Written(c)
      BY <2>2 DEF Written
    <3> QED BY <1>1, <2>2, <3>1 DEF ProjectAt
  <2>5. DatabaseAt(c)' /\ AppliedAt(c)'
    <3>1. RolledBack(c)' <=> entry.task \in {"capture", "done"} /\ c.rollback > 0
      BY <2>2 DEF RolledBack
    <3>2. DatabaseAt(c)'
      BY <1>2, <2>2, <3>1 DEF DatabaseAt
    <3>3. AppliedAt(c)'
      BY <1>2, <2>2, <3>1 DEF AppliedAt
    <3> QED BY <3>2, <3>3
  <2> QED BY <1>1, <1>2, <2>1, <2>3, <2>4, <2>5 DEF Kept, Placed, Others, CaseAt
<1> QED BY <1>3, <1>4


LEMMA MigrateStepKeeps == ASSUME CaseInv, NEW c \in Cases, Migrate(c) PROVE Kept(c)
<1> DEFINE project == projects[WorkDir(c)]
           database == databases[DatabaseOf(c)]
           r == job[c].revision
<1>1. /\ Placed /\ CaseAt(c) /\ TaskAt(c) /\ DatabaseAt(c)
      /\ job[c] \in Job /\ job[c].task = "migrate" /\ UNCHANGED projects
      /\ project \in ProjectsOf(c, Written(c)) /\ project.config = DatabaseOf(c)
      /\ LeadsTo(c, r, project.files)
  BY DEF CaseInv, CaseAt, Placed, Migrate, ProjectAt, AtWork, ProjectsOf
<1>2. PICK out \in MigrateOutcomes(project, database), migrated \in {"ok", "failed"},
           rejected \in BOOLEAN :
        /\ databases' = [databases EXCEPT ![project.config] = out.database]
        /\ migrated = IF out.code = 0 THEN "ok" ELSE "failed"
        /\ rejected = (job[c].rejected \/ out.code # 0)
        /\ \/ Advance(c, [job[c] EXCEPT !.task = NextTask(c, r), !.step.migrated = migrated,
                                        !.rejected = rejected])
           \/ Raise(c)
  <2>1. PICK out \in MigrateOutcomes(project, database) :
          /\ databases' = [databases EXCEPT ![project.config] = out.database]
          /\ \/ Advance(c, [job[c] EXCEPT
                              !.task = NextTask(c, r),
                              !.step.migrated = IF out.code = 0 THEN "ok" ELSE "failed",
                              !.rejected = @ \/ out.code # 0])
             \/ Raise(c)
    BY <1>1 DEF Migrate, TimesOut
  <2>2. PICK migrated \in {"ok", "failed"} : migrated = IF out.code = 0 THEN "ok" ELSE "failed"
    OBVIOUS
  <2>3. PICK rejected \in BOOLEAN : rejected = (job[c].rejected \/ out.code # 0)
    BY Zenon
  <2> QED BY <2>1, <2>2, <2>3, Zenon
<1>3. r \in 0..Len(c.revisions)
  <2>1. r \in Nat
    BY <1>1 DEF Job
  <2>2. r <= Len(c.revisions)
    BY <1>1 DEF TaskAt
  <2>3. Len(c.revisions) \in Nat
    BY CaseFields
  <2> QED BY <2>1, <2>2, <2>3
<1>4. /\ NextTask(c, r) \in {"write", "rollback", "capture", "done"}
      /\ NextTask(c, r) = "write" => r < Len(c.revisions)
      /\ NextTask(c, r) = "rollback" => c.rollback > 0
  BY <1>3, NextTaskIs
<1>5. PICK entry \in Job :
        /\ entry = [job[c] EXCEPT !.task = NextTask(c, r), !.step.migrated = migrated,
                                  !.rejected = rejected]
        /\ entry.task = NextTask(c, r) /\ entry.revision = r
        /\ entry.stale = job[c].stale /\ entry.step.migrated = migrated
        /\ entry.rejected = rejected /\ entry.result = "none"
  <2>1. NextTask(c, r) \in Tasks
    BY <1>4 DEF Tasks
  <2>2. PICK step : step = [job[c].step EXCEPT !.migrated = migrated]
    OBVIOUS
  <2>3. /\ step \in [code: {0, 1}, sql: BOOLEAN, migrated: {"not run", "ok", "failed"}]
        /\ step.migrated = migrated
    BY <1>1, <1>2, <2>2 DEF Job
  <2>4. PICK e : e = [job[c] EXCEPT !.task = NextTask(c, r), !.step = step,
                                    !.rejected = rejected]
    OBVIOUS
  <2>5. e \in Job /\ e.task = NextTask(c, r) /\ e.revision = r /\ e.rejected = rejected
        /\ e.stale = job[c].stale /\ e.step = step /\ e.result = "none"
    BY <1>1, <1>2, <2>1, <2>3, <2>4 DEF Job, TaskAt
  <2>6. e = [job[c] EXCEPT !.task = NextTask(c, r), !.step.migrated = migrated,
                           !.rejected = rejected]
    BY <1>1, <2>2, <2>4 DEF Job
  <2> QED BY <2>3, <2>5, <2>6
<1>6. ASSUME ~job[c].stale
      PROVE  /\ PlayedFor(out.database, Targets(c), project.files)
             /\ ~rejected => OnTrack(out.database) /\ out.database.schema = Reached(project.files)
  <2>1. /\ PlayedFor(database, Targets(c), project.files)
        /\ ~job[c].rejected /\ database # NoDatabase => OnTrack(database)
    BY <1>1, <1>6 DEF DatabaseAt, AtWork, RolledBack
  <2>2. project.files \in Seq(Targets(c)) /\ Targets(c) \in SUBSET Schemas
    BY <1>1, CaseFields DEF ProjectsOf
  <2> HIDE DEF project, database
  <2>3. /\ out.code \in {0, 1} /\ PlayedFor(out.database, Targets(c), project.files)
        /\ out.code = 0 => /\ database # NoDatabase /\ out.database # NoDatabase
                           /\ Len(out.database.history) = Len(project.files)
                           /\ OnTrack(database) => OnTrack(out.database)
    BY <2>1, <2>2, MigrateKeeps
  <2>4. ASSUME ~rejected
        PROVE  OnTrack(out.database) /\ out.database.schema = Reached(project.files)
    <3>1. out.code = 0 /\ ~job[c].rejected
      BY <1>2, <2>4
    <3>2. /\ OnTrack(out.database) /\ out.database # NoDatabase
          /\ Len(out.database.history) = Len(project.files)
      BY <2>1, <2>3, <3>1
    <3>3. /\ out.database.history \in Seq(Targets(c))
          /\ IsPlayedFrom(out.database.history, project.files)
      BY <2>3, <3>2 DEF PlayedFor, DatabasesOver
    <3>4. out.database.history = project.files
      BY <2>2, <3>2, <3>3, SeqEqual DEF IsPlayedFrom
    <3> QED BY <3>2, <3>4 DEF OnTrack
  <2> QED BY <2>3, <2>4
<1>7. ~job[c].stale =>
        /\ PlayedFor(out.database, Targets(c), projects[WorkDir(c)].files)
        /\ ~entry.rejected /\ ~(entry.task \in {"capture", "done"} /\ c.rollback > 0) =>
             /\ out.database # NoDatabase => OnTrack(out.database)
             /\ entry.step.migrated = "ok" =>
                  /\ out.database.schema = Reached(projects[WorkDir(c)].files)
                  /\ LeadsTo(c, entry.revision, projects[WorkDir(c)].files)
  BY <1>1, <1>5, <1>6
<1>8. Advance(c, entry) \/ Raise(c)
  BY <1>2, <1>5
<1> HIDE DEF project, database, r
<1> QED BY <1>1, <1>2, <1>4, <1>5, <1>7, <1>8, PlayingKeeps DEF project, r

LEMMA RollBackKeeps == ASSUME CaseInv, NEW c \in Cases, RollBack(c) PROVE Kept(c)
<1> DEFINE project == projects[WorkDir(c)]
           database == databases[DatabaseOf(c)]
<1>1. /\ Placed /\ CaseAt(c) /\ TaskAt(c) /\ DatabaseAt(c)
      /\ job[c] \in Job /\ job[c].task = "rollback" /\ UNCHANGED projects
      /\ project \in ProjectsOf(c, Written(c)) /\ project.config = DatabaseOf(c)
      /\ c.rollback > 0
  BY DEF CaseInv, CaseAt, Placed, RollBack, ProjectAt, TaskAt, AtWork, ProjectsOf
<1>2. PICK out \in RollbackOutcomes(database, c.rollback) :
        /\ databases' = [databases EXCEPT ![project.config] = out.database]
        /\ Goto(c, Ending(c)) \/ Raise(c)
  BY <1>1 DEF RollBack, TimesOut
<1>3. Ending(c) \in {"capture", "done"}
  BY DEF Ending
<1>4. PICK entry \in Job :
        /\ entry = [job[c] EXCEPT !.task = Ending(c)] /\ entry.task = Ending(c)
        /\ entry.revision = job[c].revision /\ entry.stale = job[c].stale
        /\ entry.step = job[c].step /\ entry.result = "none"
  <2>1. Ending(c) \in Tasks
    BY <1>3 DEF Tasks
  <2>2. PICK e : e = [job[c] EXCEPT !.task = Ending(c)]
    OBVIOUS
  <2>3. /\ e \in Job /\ e.task = Ending(c) /\ e.revision = job[c].revision
        /\ e.stale = job[c].stale /\ e.step = job[c].step /\ e.result = "none"
    BY <1>1, <2>1, <2>2 DEF Job, TaskAt
  <2> QED BY <2>2, <2>3
<1>5. Advance(c, entry) \/ Raise(c)
  BY <1>2, <1>4 DEF Goto
<1>6. ASSUME ~job[c].stale
      PROVE  PlayedFor(out.database, Targets(c), project.files)
  <2>1. PlayedFor(database, Targets(c), project.files)
    BY <1>1, <1>6 DEF DatabaseAt, AtWork
  <2>2. Targets(c) \in SUBSET Schemas /\ c.rollback \in Nat
    BY CaseFields
  <2>3. Len(project.files) \in Nat
    BY <1>1, LenProperties DEF ProjectsOf
  <2> HIDE DEF project, database
  <2> QED BY <2>1, <2>2, <2>3, RollbackKeeps
<1> QED BY <1>1, <1>2, <1>3, <1>4, <1>5, <1>6, PlayingKeeps

-----------------------------------------------------------------------------
(* What the invariant says of a step and of a state                        *)

\* A step of any case keeps the invariant.
LEMMA CaseStepKeeps == ASSUME CaseInv, NEW c \in Cases, CaseStep(c) PROVE CaseInv'
<1>1. Kept(c)
  BY TakeKeeps, MakeDirectoryKeeps, DropDatabaseKeeps, CreateDatabaseKeeps, InitProjectKeeps,
     WriteRevisionKeeps, MakeMigrationsKeeps, MigrateStepKeeps, RollBackKeeps, CaptureKeeps
     DEF CaseStep
<1>2. ASSUME NEW d \in Cases, d # c PROVE CaseAt(d)'
  BY <1>1, <1>2, OthersKeep DEF CaseInv, Kept
<1> QED BY <1>1, <1>2 DEF CaseInv, Kept

\* Cases of which none is at work need no more than a place.
LEMMA RestingInv ==
  ASSUME Placed, \A c \in Cases : job[c] \in {NewJob("idle"), NewJob("queued")}
  PROVE  CaseInv
<1> SUFFICES ASSUME NEW c \in Cases PROVE CaseAt(c)
  BY DEF CaseInv
<1>1. /\ job[c].task \in {"idle", "queued"} /\ job[c].revision = 0 /\ job[c].step = NoStep
      /\ job[c].result = "none"
  BY DEF NewJob
<1>2. TaskAt(c)
  BY <1>1, CaseFields DEF TaskAt
<1> QED BY <1>1, <1>2 DEF CaseAt, ProjectAt, DatabaseAt, AppliedAt, Standing, AtWork

LEMMA InvIsolates == CaseInv => CasesAreIsolated
<1> SUFFICES ASSUME CaseInv, NEW c \in Running PROVE
      LET project == projects[WorkDir(c)]
          database == databases[DatabaseOf(c)]
      IN  /\ job[c].task \in AtWork =>
               /\ project.config = DatabaseOf(c)
               /\ \A i \in DOMAIN project.files : project.files[i] \in Targets(c)
               /\ project.models = Written(c)
          /\ job[c].task \in AtWork \cup {"init"} /\ ~job[c].stale =>
               database = NoDatabase \/ IsPlayedFrom(database.history, project.files)
  BY DEF CasesAreIsolated
<1>1. c \in Cases /\ CaseAt(c)
  BY DEF CaseInv, Running
<1>2. ASSUME job[c].task \in AtWork
      PROVE  /\ projects[WorkDir(c)].config = DatabaseOf(c)
             /\ projects[WorkDir(c)].models = Written(c)
             /\ \A i \in DOMAIN projects[WorkDir(c)].files :
                  projects[WorkDir(c)].files[i] \in Targets(c)
  <2>1. PICK files \in Seq(Targets(c)) :
          projects[WorkDir(c)] = [models |-> Written(c), config |-> DatabaseOf(c), files |-> files]
    BY <1>1, <1>2 DEF CaseAt, ProjectAt, ProjectsOf
  <2>2. \A i \in DOMAIN files : files[i] \in Targets(c)
    BY LenProperties, ElementOfSeq
  <2> QED BY <2>1, <2>2
<1>3. ASSUME job[c].task \in AtWork \cup {"init"}, ~job[c].stale
      PROVE  PlayedFor(databases[DatabaseOf(c)], Targets(c), projects[WorkDir(c)].files)
  BY <1>1, <1>3 DEF CaseAt, DatabaseAt
<1> QED BY <1>2, <1>3 DEF PlayedFor

LEMMA InvApplied == CaseInv => AppliedIsInTheDatabase
<1> SUFFICES ASSUME CaseInv, NEW c \in Cases,
                    \/ job[c].task \in AtWork /\ StepVerdict(job[c].step) = "applied"
                    \/ job[c].task = "done" /\ Verdict(c) = "applied",
                    ~RolledBack(c), ~job[c].stale, ~job[c].rejected
             PROVE  /\ databases[DatabaseOf(c)].schema = Reached(projects[WorkDir(c)].files)
                    /\ Reached(projects[WorkDir(c)].files) \in {c.revisions[job[c].revision], Wrong}
  BY DEF AppliedIsInTheDatabase
<1>1. AppliedAt(c) /\ job[c] \in Job
  BY DEF CaseInv, CaseAt, Placed
<1>2. StepVerdict(job[c].step) = "applied" => job[c].step.migrated = "ok"
  BY <1>1 DEF StepVerdict, Generated, Job
<1>3. CASE job[c].task \in AtWork /\ StepVerdict(job[c].step) = "applied"
  BY <1>1, <1>2, <1>3 DEF AppliedAt, Standing, LeadsTo
<1>4. CASE job[c].task = "done" /\ Verdict(c) = "applied"
  <2>1. job[c].result = "recorded"
    BY <1>1, <1>4 DEF Verdict, Job
  <2>2. StepVerdict(job[c].step) = "applied"
    BY <1>4, <2>1 DEF Verdict
  <2> QED BY <1>1, <1>2, <1>4, <2>1, <2>2 DEF AppliedAt, Standing, LeadsTo
<1> QED BY <1>3, <1>4
=============================================================================
