---------------------------- MODULE Reproduction ----------------------------
(***************************************************************************)
(* The script a proof bundle carries (bundle.py:_write_reproduction_script)*)
(* and the files it finds there.  It is run by whoever gets the bundle,    *)
(* under set -eu: the first command that fails ends it with the status of  *)
(* that command, and a name without a value ends it with 1.  A path is a   *)
(* sequence of names below the bundle.                                     *)
(***************************************************************************)
EXTENDS Naturals, Sequences

CONSTANTS
  Dumps,   \* schemas a track may have been dumped with
  Text     \* what any other file holds: no dump

VARIABLES
  files,   \* the files and directories below the bundle, with their contents
  cwd,     \* the directory the script is in
  line,    \* how many of its commands have ended well
  status,  \* its exit status; Running before there is one
  named,   \* the name its first command expands has a value
  writable \* its user may write to the directories of the bundle

settings == <<named, writable>>
vars == <<files, cwd, line, status, named, writable>>

Running == 256  \* no status of a command

DumpA == <<"track_a", "schema_dump.sql">>
DumpB == <<"track_b", "schema_dump.sql">>
Program == <<"app">>

\* What the server copies from the workspace where the workspace has it.
Optional == {<<"input", "dbwarden.py">>, <<"track_a", "generated_migrations">>}

InputFiles ==
  {<<"input", "base_models.py">>, <<"input", "mutated_models.py">>,
   <<"input", "mutation_log.json">>}

TrackFiles ==
  {DumpA, <<"track_a", "container_logs.log">>, DumpB, <<"track_b", "reference_mode.txt">>}

Assembled(a, b, optional) ==
  [path \in InputFiles \cup TrackFiles \cup optional |->
     CASE path = DumpA -> a [] path = DumpB -> b [] OTHER -> Text]

\* A bundle is assembled when the dumps differ; the script is started anywhere.
\* What the server renders after "dbwarden==" begins with a dollar sign; as a rule
\* the script's user has no variable called "latest", and no right to write to
\* input/ (_make_read_only), but may have both: as root, or in a copy.
Init ==
  /\ \E a, b \in Dumps, optional \in SUBSET Optional :
       a # b /\ files = Assembled(a, b, optional)
  /\ cwd \in {<<>>, <<"input">>, <<"reproduction">>}
  /\ line = 0
  /\ status = Running
  /\ named \in BOOLEAN /\ writable \in BOOLEAN

-----------------------------------------------------------------------------
Exists(path) == path \in DOMAIN files

Added(paths) ==
  [p \in DOMAIN files \cup paths |-> IF p \in DOMAIN files THEN files[p] ELSE Text]

At(n) == status = Running /\ line = n

EndsWell == line' = line + 1 /\ UNCHANGED status

Exits(code) == status' = code /\ UNCHANGED line

\* echo "Installing dbwarden==$latest (adjust as needed)"
Announce ==
  /\ At(0)
  /\ IF named THEN EndsWell ELSE Exits(1)
  /\ UNCHANGED <<files, cwd, settings>>

\* cd "$INPUT_DIR", which is a name relative to the script's own directory.
EnterInput ==
  /\ At(1)
  /\ cwd' = <<"input">>
  /\ EndsWell
  /\ UNCHANGED <<files, settings>>

\* dbwarden init, whose project may have a directory for the models.
DbwardenInit ==
  /\ At(2)
  /\ \E made \in SUBSET {cwd \o Program} :
       (made # {} => writable) /\ files' = Added(made)
  /\ EndsWell \/ Exits(1)
  /\ UNCHANGED <<cwd, settings>>

\* cp mutated_models.py app/models.py
CopyModels ==
  /\ At(4)
  /\ IF Exists(cwd \o <<"mutated_models.py">>) /\ Exists(cwd \o Program) /\ writable
     THEN files' = Added({cwd \o Program \o <<"models.py">>}) /\ EndsWell
     ELSE Exits(1) /\ UNCHANGED files
  /\ UNCHANGED <<cwd, settings>>

\* baseline; make-migrations; migrate; the reference DDL of the heredoc: none
\* of them touches a dump.
Replay ==
  /\ \E n \in {3, 5, 6, 7} : At(n)
  /\ EndsWell \/ Exits(1)
  /\ UNCHANGED <<files, cwd, settings>>

\* diff: 0 when the files are the same, 1 when they differ, 2 when one is missing.
DiffStatus(left, right) ==
  IF ~(Exists(left) /\ Exists(right)) THEN 2 ELSE IF files[left] = files[right] THEN 0 ELSE 1

\* diff track_a/schema_dump.sql track_b/schema_dump.sql
CompareDumps ==
  /\ At(8)
  /\ LET code == DiffStatus(cwd \o DumpA, cwd \o DumpB)
     IN  IF code = 0 THEN EndsWell ELSE Exits(code)
  /\ UNCHANGED <<files, cwd, settings>>

Finish ==
  /\ At(9)
  /\ Exits(0)
  /\ UNCHANGED <<files, cwd, settings>>

Next ==
  \/ Announce \/ EnterInput \/ DbwardenInit \/ CopyModels \/ Replay \/ CompareDumps \/ Finish

Spec == Init /\ [][Next]_vars

-----------------------------------------------------------------------------
\* Violated.  Whoever runs the script of a bundle learns from its exit status
\* that the two dumps of the bundle differ (bundle.py: "If this script exits 0,
\* the bug is reproducible; if it exits 1, the report was spurious").
ExitTellsTheBug ==
  status \in {0, 1} => (status = 0 <=> files[DumpA] # files[DumpB])
=============================================================================
