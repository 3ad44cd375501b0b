--------------------------- MODULE ServerProcess ---------------------------
(***************************************************************************)
(* The server process of cmd/server: it sets its parts up one after the    *)
(* other, serves gRPC and, through a gateway that calls it, HTTP, and when *)
(* it is told to stop it drains HTTP, then gRPC, within one budget of      *)
(* time, and runs what it deferred in reverse.                             *)
(*                                                                         *)
(* Each task is one request or one run of a workflow.                      *)
(***************************************************************************)
EXTENDS Connections, SequencesExt

CONSTANTS
  RequestTasks,  \* the tasks that are requests; the others are workflows
  Operations     \* what requests run, besides a stream

ASSUME RequestTasksAssumption == \A c \in RequestTasks : c \in Tasks

Workflows == Tasks \ RequestTasks

Stream == "ServerReflectionInfo"   \* ends when its client ends it

VARIABLES
  phase,     \* "starting", "serving", "stopping", "unwinding" or "exited"
  deferred,  \* what is set up and will be torn down, in order
  next,      \* how many parts were tried
  http,      \* "off", "serving" or "draining"
  grpc,      \* the same of the gRPC server
  budget,    \* of the shutdown: "unset", "running" or "elapsed"
  failed,    \* whether run returns an error, or the process was killed
  via,       \* how each task came: "none", "http", "grpc" or "workflow"
  place      \* where it is: "client", "http", "grpc", "workflow", "answered" or
             \* "cut"

processVars == <<phase, deferred, next, http, grpc, budget, failed, via, place>>
serverVars == <<dbVars, processVars>>
-----------------------------------------------------------------------------
(* run *)
Parts ==
  <<"config", "tracing", "logging", "metrics", "schema", "pool", "status check",
    "seed", "dbos", "gateway", "listeners">>

Defers == {"tracing", "logging", "metrics", "pool", "dbos", "gateway"}

Has(part) == \E i \in DOMAIN deferred : deferred[i] = part

ServerInit ==
  /\ DbInit
  /\ phase = "starting" /\ deferred = << >> /\ next = 0
  /\ http = "off" /\ grpc = "off" /\ budget = "unset" /\ failed = FALSE
  /\ via = [c \in Tasks |-> "none"] /\ place = [c \in Tasks |-> "client"]

SetUp ==
  /\ phase = "starting" /\ next < Len(Parts)
  /\ next' = next + 1
  /\ LET part == Parts[next + 1] IN
     /\ deferred' = IF part \in Defers THEN Append(deferred, part) ELSE deferred
     /\ pool' = IF part = "pool" THEN "open" ELSE pool
  /\ UNCHANGED <<job, wrote, saved, outcome, cancelled, phase, http, grpc, budget,
                 failed, via, place>>

SetUpFails ==
  /\ phase = "starting" /\ next < Len(Parts)
  /\ next' = next + 1 /\ phase' = "unwinding" /\ failed' = TRUE
  /\ UNCHANGED <<dbVars, deferred, http, grpc, budget, via, place>>

Serve ==
  /\ phase = "starting" /\ next = Len(Parts)
  /\ phase' = "serving" /\ http' = "serving" /\ grpc' = "serving"
  /\ UNCHANGED <<dbVars, deferred, next, budget, failed, via, place>>

(* One of the two Serve calls returns an error, and run does: the other    *)
(* server is not stopped.                                                  *)
ServeFails ==
  /\ phase = "serving"
  /\ phase' = "unwinding" /\ failed' = TRUE
  /\ \/ http' = "off" /\ UNCHANGED grpc
     \/ grpc' = "off" /\ UNCHANGED http
  /\ UNCHANGED <<dbVars, deferred, next, budget, via, place>>

(* SIGINT or SIGTERM. *)
Signal ==
  /\ phase = "serving"
  /\ phase' = "stopping" /\ budget' = "running"
  /\ UNCHANGED <<dbVars, deferred, next, http, grpc, failed, via, place>>

BudgetElapses ==
  /\ budget = "running" /\ phase = "stopping"
  /\ budget' = "elapsed"
  /\ UNCHANGED <<dbVars, phase, deferred, next, http, grpc, failed, via, place>>

Server(s) == IF s = "http" THEN http ELSE grpc

SetServer(s, to) ==
  /\ http' = IF s = "http" THEN to ELSE http
  /\ grpc' = IF s = "grpc" THEN to ELSE grpc

(* Mutant: gRPC is stopped first. *)
BackwardStopOrder == <<"grpc", "http">>

StopOrder == <<"http", "grpc">>

StopsNow(s) ==
  /\ phase = "stopping"
  /\ \E i \in DOMAIN StopOrder :
       StopOrder[i] = s /\ \A k \in 1 .. i - 1 : Server(StopOrder[k]) = "off"

(* Shutdown and GracefulStop take no more requests ... *)
Drain(s) ==
  /\ StopsNow(s) /\ Server(s) = "serving"
  /\ SetServer(s, "draining")
  /\ UNCHANGED <<dbVars, phase, deferred, next, budget, failed, via, place>>

(* An HTTP request is in flight until the gRPC call it makes is answered. *)
InFlight(s) ==
  IF s = "grpc" THEN {c \in Tasks : place[c] = "grpc"}
  ELSE {c \in Tasks : via[c] = "http" /\ place[c] \in {"http", "grpc"}}

Cut(S) == [c \in Tasks |-> IF c \in S THEN "cut" ELSE place[c]]

(* ... and return when those there are have been answered.  Shutdown gives *)
(* up when the budget has elapsed and leaves its requests running.         *)
Drained(s) ==
  /\ StopsNow(s) /\ Server(s) = "draining"
  /\ InFlight(s) = {} \/ (s = "http" /\ budget = "elapsed")
  /\ SetServer(s, "off")
  /\ UNCHANGED <<dbVars, phase, deferred, next, budget, failed, via, place>>

(* Mutant: GracefulStop is waited for without a limit. *)
NeverOutOfTime == FALSE

OutOfTime == budget = "elapsed"

(* Stop closes the connections and cancels the contexts of the calls. *)
ForceStop ==
  /\ StopsNow("grpc") /\ grpc = "draining" /\ OutOfTime
  /\ grpc' = "off"
  /\ place' = Cut(InFlight("grpc"))
  /\ cancelled' = cancelled \cup InFlight("grpc")
  /\ UNCHANGED <<job, wrote, saved, outcome, pool, phase, deferred, next, http, budget,
                 failed, via>>

Stopped ==
  /\ phase = "stopping" /\ http = "off" /\ grpc = "off"
  /\ phase' = "unwinding"
  /\ UNCHANGED <<dbVars, deferred, next, http, grpc, budget, failed, via, place>>

(* The deferred calls, last first.  Close refuses new connections and      *)
(* waits for those that are held; Shutdown of DBOS waits for the workflows *)
(* no longer than its own limit, and so may end at any time.               *)
ClosePool ==
  /\ phase = "unwinding" /\ deferred # << >> /\ Last(deferred) = "pool"
  /\ pool = "open" /\ pool' = "closed"
  /\ UNCHANGED <<job, wrote, saved, outcome, cancelled, processVars>>

TearDown ==
  /\ phase = "unwinding" /\ deferred # << >>
  /\ Last(deferred) = "pool" => pool = "closed" /\ HeldConns = 0
  /\ deferred' = Front(deferred)
  /\ UNCHANGED <<dbVars, phase, next, http, grpc, budget, failed, via, place>>

(* What is still running ends with the process; the database rolls its     *)
(* transactions back.                                                      *)
Exit ==
  /\ phase' = "exited" /\ pool' = "none" /\ http' = "off" /\ grpc' = "off"
  /\ place' = Cut({c \in Tasks : place[c] \in {"http", "grpc", "workflow"}})
  /\ job' = [c \in Tasks |-> IF Running(c) THEN NoJob ELSE job[c]]
  /\ wrote' = [c \in Tasks |-> {}] /\ cancelled' = {}
  /\ UNCHANGED <<saved, outcome, next, budget, via>>

Return ==
  /\ phase = "unwinding" /\ deferred = << >>
  /\ Exit /\ UNCHANGED <<deferred, failed>>

Kill ==
  /\ phase # "exited"
  /\ Exit /\ failed' = TRUE /\ deferred' = << >>
-----------------------------------------------------------------------------
(* Tasks. *)
Begin(c, op) == job' = [job EXCEPT ![c] = [NoJob EXCEPT !.op = op]]

Come(c, by, at) ==
  /\ place[c] = "client"
  /\ via' = [via EXCEPT ![c] = by] /\ place' = [place EXCEPT ![c] = at]
  /\ UNCHANGED <<wrote, saved, outcome, cancelled, pool, phase, deferred, next, http,
                 grpc, budget, failed>>

HTTPRequest(c) == http = "serving" /\ Come(c, "http", "http") /\ UNCHANGED job

GRPCCall(c, op) == grpc = "serving" /\ Come(c, "grpc", "grpc") /\ Begin(c, op)

(* DBOS runs workflows from its launch to its shutdown. *)
WorkflowRuns(c) ==
  /\ Has("dbos") /\ phase # "exited"
  /\ Come(c, "workflow", "workflow") /\ Begin(c, "MagicLinkToken")

Settle(c, to) ==
  /\ place' = [place EXCEPT ![c] = to]
  /\ UNCHANGED <<wrote, saved, outcome, cancelled, pool, phase, deferred, next, http,
                 grpc, budget, failed, via>>

(* The gateway calls the gRPC server, over a connection it tears down. *)
Forward(c, op) ==
  /\ phase # "exited" /\ place[c] = "http"
  /\ Has("gateway") /\ grpc = "serving"
  /\ Begin(c, op) /\ Settle(c, "grpc")

ForwardFails(c) ==
  /\ phase # "exited" /\ place[c] = "http"
  /\ ~(Has("gateway") /\ grpc = "serving")
  /\ Settle(c, "cut") /\ UNCHANGED job

(* A step of the database in the process; a stream makes none. *)
Access(c, A) == phase # "exited" /\ job[c].op # Stream /\ A /\ UNCHANGED processVars

Answer(c) ==
  /\ phase # "exited" /\ place[c] \in {"grpc", "workflow"} /\ outcome[c] # "none"
  /\ Settle(c, "answered") /\ UNCHANGED job

CloseStream(c) ==
  /\ place[c] = "grpc" /\ job[c].op = Stream
  /\ Settle(c, "answered") /\ UNCHANGED job

ProcessStep ==
  \/ SetUp \/ SetUpFails \/ Serve \/ BudgetElapses
  \/ \E s \in {"http", "grpc"} : Drain(s) \/ Drained(s)
  \/ ForceStop \/ Stopped \/ ClosePool \/ TearDown \/ Return

TaskStep(c) ==
  \/ \E op \in Operations : Forward(c, op)
  \/ ForwardFails(c) \/ Access(c, DbStep(c)) \/ Answer(c)

(* What clients, operators and the machine do. *)
Environment ==
  \/ \E c \in RequestTasks :
       \/ HTTPRequest(c) \/ CloseStream(c)
       \/ \E op \in Operations \cup {Stream} : GRPCCall(c, op)
  \/ \E c \in Workflows : WorkflowRuns(c)
  \/ Signal \/ ServeFails \/ Kill

ServerNext == ProcessStep \/ Environment \/ \E c \in Tasks : TaskStep(c)

ServerFairness ==
  WF_serverVars(ProcessStep) /\ \A c \in Tasks : WF_serverVars(TaskStep(c))

ServerSpec == ServerInit /\ [][ServerNext]_serverVars /\ ServerFairness
-----------------------------------------------------------------------------
ServerTypeOK ==
  /\ \A c \in Tasks : ~(job[c].tx = "open" /\ job[c].conn)
  /\ HeldConns <= MaxConns
  /\ \A c \in Tasks : wrote[c] \subseteq Writes(job[c].op) /\ saved[c] \cap wrote[c] = {}
  /\ next \in 0 .. Len(Parts) /\ Len(deferred) <= next
  /\ {http, grpc} \subseteq {"off", "serving", "draining"}
  /\ phase \in {"starting", "serving", "stopping", "unwinding", "exited"}

(* A shutdown within its budget cuts no request off that was accepted: the *)
(* gateway's requests still find the gRPC server, and the calls a database *)
(* connection.                                                             *)
AcceptedCallsAreAnswered ==
  ~failed /\ budget # "elapsed" =>
    \A c \in Tasks : via[c] \in {"http", "grpc"} =>
      place[c] # "cut" /\ outcome[c] # "closed"

(* Every call comes to an end: none waits for a connection that a waiting  *)
(* call holds.                                                             *)
CallsEnd ==
  \A c \in Tasks :
    place[c] \in {"http", "grpc"} /\ job[c].op # Stream ~> place[c] \in {"answered", "cut"}

(* Told to stop, the process ends, whatever its clients do. *)
ProcessEnds == phase = "stopping" ~> phase = "exited"
=============================================================================
