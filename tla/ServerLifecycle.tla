---------------------------- MODULE ServerLifecycle ----------------------------
(***************************************************************************)
(* One server process from its start to its exit: what it connects to, the  *)
(* work it runs, and its shutdown on a signal. Work is counted, not named:  *)
(* polls of the outbox relay, HTTP requests and jobs of the queue workers,  *)
(* all of which use the database.                                           *)
(***************************************************************************)
EXTENDS Integers

CONSTANTS MaxRequests, MaxJobs   \* bounds: at the same time

ASSUME ServerAssumption == MaxRequests \in Nat /\ MaxJobs \in Nat

VARIABLES phase,      \* how far startServer, shutdown or the cleanup has come
          database,   \* prisma is connected
          store,      \* redis is connected
          listening,  \* the HTTP server accepts requests
          workers,    \* the queue workers take jobs
          ticking,    \* the relay's interval timer is set
          polling,    \* a poll of the relay is in flight
          requests, jobs,
          forceTimer, \* the timer that forces the exit
          untaken     \* signals whose process.once handler is still there

serverVars == <<phase, database, store, listening, workers, ticking, polling,
                requests, jobs, forceTimer, untaken>>

Signals == {"SIGTERM", "SIGINT"}
Closing == {"stopRelay", "closeServer", "stopQueue", "stopTracing", "disconnect", "quit", "finish"}
Exits   == {"exit0", "exit1", "killed"}

ServerTypeOK ==
  /\ phase \in {"connect", "ping", "serve", "running", "cleanUp"} \cup Closing \cup Exits
  /\ {database, store, listening, workers, ticking, polling, forceTimer} \subseteq BOOLEAN
  /\ requests \in 0 .. MaxRequests /\ jobs \in 0 .. MaxJobs /\ untaken \subseteq Signals

ServerInit ==
  /\ phase = "connect" /\ untaken = {}
  /\ database = FALSE /\ store = FALSE /\ listening = FALSE /\ workers = FALSE
  /\ ticking = FALSE /\ polling = FALSE /\ forceTimer = FALSE
  /\ requests = 0 /\ jobs = 0

links   == <<database, store>>
intake  == <<listening, workers, ticking>>
work    == <<polling, requests, jobs>>
control == <<forceTimer, untaken>>

Up == phase \notin Exits

-----------------------------------------------------------------------------
(* startServer.                                                             *)

Connect ==
  /\ phase = "connect" /\ phase' = "ping" /\ database' = TRUE
  /\ UNCHANGED <<store, intake, work, control>>

Ping ==
  /\ phase = "ping" /\ phase' = "serve" /\ store' = TRUE
  /\ UNCHANGED <<database, intake, work, control>>

\* The queues start, the server listens, the relay starts, and the handlers are set: one
\* synchronous step.
Serve ==
  /\ phase = "serve" /\ phase' = "running"
  /\ listening' = TRUE /\ workers' = TRUE /\ ticking' = TRUE /\ untaken' = Signals
  /\ UNCHANGED <<links, work, forceTimer>>

StartFails ==
  /\ phase \in {"connect", "ping", "serve"} /\ phase' = "cleanUp"
  /\ UNCHANGED <<links, intake, work, control>>

\* The catch block closes everything at once, and exits whatever fails.
CleanUp ==
  /\ phase = "cleanUp" /\ phase' = "exit1"
  /\ database' = FALSE /\ store' = FALSE
  /\ UNCHANGED <<intake, work, control>>

-----------------------------------------------------------------------------
(* The work.                                                                *)

Poll == ticking /\ ~polling /\ polling' = TRUE /\ UNCHANGED <<requests, jobs>>
PollEnds == polling /\ polling' = FALSE /\ UNCHANGED <<requests, jobs>>
Accept == listening /\ requests < MaxRequests /\ requests' = requests + 1 /\ UNCHANGED <<polling, jobs>>
Reply  == requests > 0 /\ requests' = requests - 1 /\ UNCHANGED <<polling, jobs>>
TakeJob == workers /\ jobs < MaxJobs /\ jobs' = jobs + 1 /\ UNCHANGED <<polling, requests>>
JobEnds == jobs > 0 /\ jobs' = jobs - 1 /\ UNCHANGED <<polling, requests>>

Work ==
  /\ Up
  /\ Poll \/ PollEnds \/ Accept \/ Reply \/ TakeJob \/ JobEnds
  /\ UNCHANGED <<phase, links, intake, control>>

-----------------------------------------------------------------------------
(* shutdown.                                                                *)

\* Mutant: shutdown is started without its timer.
SignalWithoutTimer(s) ==
  /\ Up /\ s \in untaken /\ untaken' = untaken \ {s}
  /\ phase = "running" /\ phase' = "stopRelay" /\ ticking' = FALSE
  /\ UNCHANGED <<links, listening, workers, work, forceTimer>>

\* The first signal starts it; the other one is ignored. A handler is called once:
\* the same signal again, or one during the start, ends the process.
Signal(s) ==
  /\ Up
  /\ IF s \notin untaken
     THEN phase' = "killed" /\ UNCHANGED <<ticking, forceTimer, untaken>>
     ELSE /\ untaken' = untaken \ {s}
          /\ IF phase = "running"
             THEN phase' = "stopRelay" /\ forceTimer' = TRUE /\ ticking' = FALSE
             ELSE UNCHANGED <<phase, forceTimer, ticking>>
  /\ UNCHANGED <<links, listening, workers, work>>

\* Mutant: the poll in flight is not awaited.
StopRelayAtOnce ==
  /\ phase = "stopRelay" /\ phase' = "closeServer" /\ listening' = FALSE
  /\ UNCHANGED <<links, workers, ticking, work, control>>

\* stop() waits for the poll in flight; then the server is told to close.
RelayStopped ==
  /\ phase = "stopRelay" /\ ~polling /\ phase' = "closeServer" /\ listening' = FALSE
  /\ UNCHANGED <<links, workers, ticking, work, control>>

ServerClosed ==
  /\ phase = "closeServer" /\ requests = 0 /\ phase' = "stopQueue" /\ workers' = FALSE
  /\ UNCHANGED <<links, listening, ticking, work, control>>

\* A worker's close waits for its jobs; what fails to close is passed over.
QueueStopped ==
  /\ phase = "stopQueue" /\ jobs = 0 /\ phase' = "stopTracing"
  /\ UNCHANGED <<links, intake, work, control>>

TracingStopped ==
  /\ phase = "stopTracing" /\ phase' = "disconnect"
  /\ UNCHANGED <<links, intake, work, control>>

Disconnect ==
  /\ phase = "disconnect" /\ phase' = "quit" /\ database' = FALSE
  /\ UNCHANGED <<store, intake, work, control>>

Quit ==
  /\ phase = "quit" /\ phase' = "finish" /\ store' = FALSE
  /\ UNCHANGED <<database, intake, work, control>>

Leave ==
  /\ phase = "finish" /\ phase' = "exit0" /\ forceTimer' = FALSE
  /\ UNCHANGED <<links, intake, work, untaken>>

ShutdownFails ==
  /\ phase \in Closing \ {"finish"} /\ phase' = "exit1" /\ forceTimer' = FALSE
  /\ UNCHANGED <<links, intake, work, untaken>>

\* SHUTDOWN_TIMEOUT_MS after the signal, whatever is still running.
ForceExit ==
  /\ Up /\ forceTimer /\ phase' = "exit1"
  /\ UNCHANGED <<links, intake, work, control>>

ServerNext ==
  \/ Connect \/ Ping \/ Serve \/ StartFails \/ CleanUp \/ Work
  \/ \E s \in Signals : Signal(s)
  \/ RelayStopped \/ ServerClosed \/ QueueStopped \/ TracingStopped
  \/ Disconnect \/ Quit \/ Leave \/ ShutdownFails \/ ForceExit

\* Only of the timer: a poll, a request or a job may never end.
ServerFairness == WF_serverVars(ForceExit)

ServerSpec == ServerInit /\ [][ServerNext]_serverVars /\ ServerFairness

-----------------------------------------------------------------------------
\* A shutdown that is not forced closes the database only when no poll, request or job
\* is running and none can start, whichever was in flight when the signal came.
DatabaseOutlivesWork ==
  phase \in {"quit", "finish", "exit0"} =>
    ~polling /\ requests = 0 /\ jobs = 0 /\ ~listening /\ ~workers /\ ~ticking

\* After a signal the process ends, though a request or a job may hang for ever, and
\* whatever other signals follow.
ExitsAfterSignal == phase \in Closing ~> phase \in Exits
=============================================================================
