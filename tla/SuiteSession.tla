---------------------------- MODULE SuiteSession ----------------------------
(***************************************************************************)
(* One pytest session over the drivers: a session fixture starts a         *)
(* ClickHouse container or takes a server that is running already, the     *)
(* tests go one after the other through a matrix of cases, a round trip or *)
(* a player, and the fixture stops the container.  Databases on the server *)
(* outlive the test that made them, and on a server of one's own the       *)
(* session.                                                                *)
(***************************************************************************)
EXTENDS CaseRunner, RoundTripDriver, MigrationPlayer, DockerProvider

CONSTANTS
  Collections, \* the tests pytest may have collected, in their order
  Leftovers    \* what earlier sessions may have left in a database of an external server

ASSUME SessionAssumption ==
  /\ Collections \subseteq Seq({"matrix", "trip", "play"})
  /\ Leftovers \subseteq Databases

VARIABLE session  \* where pytest is

vars == <<stores, job, trip, play, server, session>>

drivers == <<job, trip, play>>

Names == CaseDatabases \cup {ShapeDatabase, PlayDatabase, NoDatabase}

OnServer(name) == name # NoDatabase /\ name[1] = "server"

Init ==
  /\ projects = [d \in Directories \cup {ShapeDir, PlayDir} |-> NoProject]
  /\ CaseInit
  /\ TripInit
  /\ PlayInit
  /\ ServerInit
  /\ session \in [at: {"setup"}, tests: Collections, external: BOOLEAN]
  /\ \E leftover \in Leftovers :
       databases = [name \in Names |->
                      IF session.external /\ OnServer(name) THEN leftover ELSE NoDatabase]

GoTo(at) == session' = [session EXCEPT !.at = at]

\* The fixture: DBWARDEN_HARNESS_CLICKHOUSE_URL names a server, or start() is
\* called.  Some tests call it inside the try whose finally stops the provider,
\* the fixture and every with statement call it before that.
SetUp ==
  /\ session.at = "setup"
  /\ \/ session.external /\ GoTo("serving") /\ UNCHANGED server
     \/ ~session.external /\ Launch /\ (GoTo("start") \/ GoTo("start in try"))
     \/ ~session.external /\ LaunchFails /\ GoTo("error")
  /\ UNCHANGED <<stores, drivers>>

\* The container gets ready, whether or not somebody still waits for it.
ServerBoots == Boot /\ UNCHANGED <<stores, drivers, session>>

\* Mutant of Wait: wait_for_connection has no deadline.
WaitForever ==
  /\ session.at \in {"start", "start in try"}
  /\ Connected
  /\ GoTo("serving")
  /\ UNCHANGED <<stores, drivers>>

Wait ==
  /\ session.at \in {"start", "start in try"}
  /\ \/ Connected /\ GoTo("serving")
     \/ NotConnected /\ GoTo(IF session.at = "start" THEN "error" ELSE "teardown")
  /\ UNCHANGED <<stores, drivers>>

\* A test begins: the drivers are made with it.
StartTest ==
  /\ session.at = "serving"
  /\ session.tests # <<>>
  /\ session' = [session EXCEPT !.at = Head(session.tests), !.tests = Tail(@)]
  /\ CASE Head(session.tests) = "matrix" -> SubmitAll /\ UNCHANGED <<trip, play>>
       [] Head(session.tests) = "trip"   -> StartTrip /\ UNCHANGED <<job, play>>
       [] Head(session.tests) = "play"   -> StartPlay /\ UNCHANGED <<job, trip>>
  /\ UNCHANGED server

RunCase ==
  /\ \E c \in Cases : CaseStep(c)
  /\ UNCHANGED <<trip, play, server, session>>

RunTrip ==
  TripStep /\ UNCHANGED <<job, play, server, session>>

RunPlay ==
  PlayStep /\ UNCHANGED <<job, trip, server, session>>

\* Mutant of EndTest: the executor is shut down without waiting for its threads.
EndTestEarly ==
  /\ \/ session.at = "matrix"
     \/ session.at = "trip" /\ TripEnded
     \/ session.at = "play" /\ PlayEnded
  /\ GoTo("serving")
  /\ UNCHANGED <<stores, drivers, server>>

\* A test is over when its driver has come to an end.  The next one has a
\* tmp_path of its own, and never looks at the directories of this one.
EndTest ==
  /\ \/ session.at = "matrix" /\ AllEnded
     \/ session.at = "trip" /\ TripEnded
     \/ session.at = "play" /\ PlayEnded
  /\ GoTo("serving")
  /\ job' = [c \in Cases |-> NewJob("idle")]
  /\ trip' = NewTrip("idle")
  /\ play' = NewPlay("idle", FALSE)
  /\ projects' = [d \in DOMAIN projects |-> NoProject]
  /\ databases' = [name \in DOMAIN databases |->
                     IF OnServer(name) THEN databases[name] ELSE NoDatabase]
  /\ UNCHANGED server

\* pytest is done, and finalises the fixture.
EndSession ==
  /\ session.at = "serving"
  /\ session.tests = <<>>
  /\ GoTo(IF session.external THEN "over" ELSE "teardown")
  /\ UNCHANGED <<stores, drivers, server>>

TearDown ==
  /\ session.at = "teardown"
  /\ Stop \/ StopFails
  /\ GoTo("over")
  /\ UNCHANGED <<stores, drivers>>

Finished == session.at \in {"over", "error"} /\ UNCHANGED vars

Progress ==
  \/ SetUp \/ Wait \/ StartTest \/ RunCase \/ RunTrip \/ RunPlay \/ EndTest
  \/ EndSession \/ TearDown

Next == Progress \/ ServerBoots \/ Finished

Spec == Init /\ [][Next]_vars

\* Every command and query has a timeout, wait_for_connection gives up, and of
\* the threads that can go on one does.  A container need not get ready.
FairSpec == Spec /\ WF_vars(Progress)
-----------------------------------------------------------------------------
TypeOK ==
  /\ projects \in [Directories \cup {ShapeDir, PlayDir} ->
                     [models: Schemas, config: Names, files: Seq(Schemas)] \cup {NoProject}]
  /\ databases \in [Names -> Databases \cup {NoDatabase}]
  /\ CaseTypeOK
  /\ TripTypeOK
  /\ PlayTypeOK
  /\ ServerTypeOK
  /\ session \in
       [at: {"setup", "start", "start in try", "serving", "matrix", "trip", "play", "teardown",
             "over", "error"},
        tests: Seq({"matrix", "trip", "play"}), external: BOOLEAN]

\* A command or query of a driver is only ever run while the server answers: the
\* fixture hands out the URL of a database that is ready, and does not stop it
\* while a thread of the executor is still in a case.
ServerOutlivesTests ==
  Running # {} \/ trip.task \notin {"idle", "done", "raised"} \/ play.task = "playing" =>
    session.external \/ server.container = "ready"

\* When the session is over a container is left only if it could not be stopped;
\* when it ended in an error of the fixture, only if start() gave up waiting for
\* it outside the try (conftest.py:35, and every with).
LeftRunningIsExplained ==
  server.container # "absent" =>
    /\ session.at = "over" => "stop" \in server.failed
    /\ session.at = "error" => "ready" \in server.failed

\* When run_all returns, every case has an answer: an exception in one case does
\* not abort the matrix (case_runner.py:291).
EveryCaseIsAnswered ==
  session.at = "matrix" /\ AllEnded => \A c \in Cases : job[c].result # "none"

\* The session comes to its end, whatever is killed or refused on the way.
SessionEnds == <>(session.at \in {"over", "error"})
=============================================================================
