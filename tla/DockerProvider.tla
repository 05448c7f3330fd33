--------------------------- MODULE DockerProvider ---------------------------
(***************************************************************************)
(* The life of one provider object and its container, providers/docker.py, *)
(* as a test or a fixture goes through it.                                 *)
(***************************************************************************)
CONSTANT ServerFaults  \* which calls may fail: "launch", "ready", "stop"

VARIABLE server  \* the container, whether the provider has it in _container, and what failed

ServerInit == server = [container |-> "absent", held |-> FALSE, failed |-> {}]

ServerTypeOK ==
  server \in [container: {"absent", "booting", "ready"}, held: BOOLEAN,
              failed: SUBSET {"launch", "ready", "stop"}]

ServerFails(fault) ==
  /\ fault \in ServerFaults
  /\ server' = [server EXCEPT !.failed = @ \cup {fault}]

\* start() up to the wait: a container in _container is not started again.
Launch ==
  ~server.held /\ server' = [server EXCEPT !.container = "booting", !.held = TRUE]

LaunchFails == ~server.held /\ ServerFails("launch")

\* The database in the container begins to answer.
Boot == server.container = "booting" /\ server' = [server EXCEPT !.container = "ready"]

\* Mutant of Connected: start() returns the URL once the container is started.
ConnectedUnready == server.held /\ UNCHANGED server

\* wait_for_connection returns when a connection succeeds.
Connected == server.held /\ server.container = "ready" /\ UNCHANGED server

\* It raises TimeoutError when 60 seconds are over; _container keeps the container.
NotConnected == server.held /\ server.container = "booting" /\ ServerFails("ready")

\* Mutant of Stop: the provider only forgets the container.
StopForgets == server' = [server EXCEPT !.held = FALSE]

\* stop(): nothing without a container.
Stop ==
  server' = IF server.held THEN [server EXCEPT !.container = "absent", !.held = FALSE] ELSE server

StopFails == server.held /\ ServerFails("stop")
=============================================================================
