----------------------------- MODULE Lifecycle -----------------------------
(***************************************************************************)
(* Processes from start to end (cmd/openspace-os-core/main.go): runServer  *)
(* brings the components up one by one, gives up at the first that fails,  *)
(* serves requests, and on a signal takes the components down again.  What *)
(* it deferred - closing the usage collector, then the database - it does  *)
(* however it ends; a crash, or a signal before it serves, ends it without *)
(* that.  Requests come and go meanwhile; some choose or unload plugins.   *)
(***************************************************************************)
EXTENDS DatabaseSetup, PluginManager

CONSTANTS
  HttpRequests, GrpcRequests,
  Home,         \* of each request: the process it is sent to
  About,        \* the plugins that requests name
  MaxCrashes    \* bound of the crashes

None == "none"
Requests == HttpRequests \union GrpcRequests

\* A request goes to one process, by one of the two protocols; plugins have names.
ASSUME LifecycleAssumption ==
  /\ Home \in [Requests -> Procs] /\ HttpRequests \intersect GrpcRequests = {}
  /\ {"json", "tle", "mock"} \subseteq Plugins /\ None \notin Plugins
  /\ About \subseteq Plugins /\ Globals \subseteq Kinds \X Plugins
  /\ MaxCrashes \in Nat

VARIABLES
  stage,      \* the statement of runServer each process is at
  how,        \* why it ends
  up,         \* its components that were started and not stopped
  plugin,     \* its plugin manager
  parser, adapter,   \* what its pipelines use
  req,        \* requests, with the plugin they are about
  buffered,   \* readings of the usage collector
  counted, billed, lost,   \* requests whose reading the collector took, stored,
                           \* or had in memory at a crash
  crashes

procVars == <<stage, how, up>>
pluginVars == <<plugin, parser, adapter>>
usageVars == <<buffered, counted, billed, lost>>
vars == <<setupVars, procVars, pluginVars, req, usageVars, crashes>>

Init ==
  /\ SetupInit
  /\ stage = [p \in Procs |-> "down"] /\ how = [p \in Procs |-> None]
  /\ up = [p \in Procs |-> {}] /\ plugin = [p \in Procs |-> NoPlugins]
  /\ parser = [p \in Procs |-> None] /\ adapter = [p \in Procs |-> None]
  /\ req = [r \in Requests |-> [at |-> "idle", name |-> None]]
  /\ buffered = [p \in Procs |-> {}] /\ counted = {} /\ billed = {} /\ lost = {}
  /\ crashes = 0

-----------------------------------------------------------------------------
(* Start.                                                                  *)

To(p, s) == stage' = [stage EXCEPT ![p] = s]
Begins(p, c) == up' = [up EXCEPT ![p] = @ \union {c}]
Ends(p, c) == up' = [up EXCEPT ![p] = @ \ {c}]
GiveUp(p) == To(p, "defers") /\ how' = [how EXCEPT ![p] = "failure"] /\ UNCHANGED up

\* A component comes up, or its error ends runServer.
Start(p, from, c, to) ==
  /\ stage[p] = from
  /\ (Begins(p, c) /\ To(p, to) /\ UNCHANGED how) \/ GiveUp(p)
  /\ UNCHANGED <<req, usageVars, crashes>>

Boot(p) ==
  /\ stage[p] = "down" /\ how[p] = None
  /\ To(p, "db")
  /\ UNCHANGED <<setupVars, how, up, pluginVars, req, usageVars, crashes>>

OpenDB(p) == Start(p, "db", "db", "bus") /\ UNCHANGED <<setupVars, pluginVars>>

\* The event store and a LocalBus, or a NATSBus.
OpenBus(p) ==
  /\ Start(p, "bus", "bus", "setup")
  /\ setup' = [setup EXCEPT ![p] = "tables"]
  /\ UNCHANGED <<seen, admins, applied, ran, pluginVars>>

Setup(p) ==
  /\ stage[p] = "setup"
  /\ SetupStep(p)
  /\ UNCHANGED <<procVars, pluginVars, req, usageVars, crashes>>

\* The statements on the database are done, or one of them failed.
SetupEnds(p) ==
  /\ stage[p] = "setup"
  /\ \/ setup[p] = "ready" /\ To(p, "collector") /\ UNCHANGED <<how, up>>
     \/ setup[p] = "failed" /\ GiveUp(p)
  /\ UNCHANGED <<setupVars, pluginVars, req, usageVars, crashes>>

\* NewCollector starts its goroutine.
StartCollector(p) ==
  /\ stage[p] = "collector"
  /\ Begins(p, "collector") /\ To(p, "plugins")
  /\ UNCHANGED <<setupVars, how, pluginVars, req, usageVars, crashes>>

\* From the directory, which may not be readable; those of the init functions;
\* StartAll; and only then the parsers that are built in.
LoadPlugins(p) ==
  /\ stage[p] = "plugins"
  /\ \E m \in {NoPlugins, LoadedFromDirectory(NoPlugins)} :
       plugin' = [plugin EXCEPT ![p] =
         Registered(AllBecome(WithGlobals(m), "started"),
                    {<<"parser", "json">>, <<"parser", "tle">>})]
  /\ To(p, "telemetry")
  /\ UNCHANGED <<setupVars, how, up, parser, adapter, req, usageVars, crashes>>

Chosen(m, kind, n, old) == IF Offers(m, kind, n) THEN n ELSE old

\* SetParser, whose error is only logged, and Start, which listens.
StartTelemetry(p) ==
  /\ Start(p, "telemetry", "telemetry", "command")
  /\ parser' = [parser EXCEPT ![p] = Chosen(plugin[p], "parser", "json", @)]
  /\ UNCHANGED <<setupVars, plugin, adapter>>

\* The adapter is chosen before it is registered.
StartCommands_ChooseFirst(p) ==
  /\ stage[p] = "command"
  /\ Begins(p, "command") /\ To(p, "grpc")
  /\ plugin' = [plugin EXCEPT ![p] = Registered(@, {<<"adapter", "mock">>})]
  /\ adapter' = [adapter EXCEPT ![p] = Chosen(plugin[p], "adapter", "mock", @)]
  /\ UNCHANGED <<setupVars, how, parser, req, usageVars, crashes>>

\* RegisterAdapter, SetAdapter, Start.
StartCommands(p) ==
  /\ stage[p] = "command"
  /\ Begins(p, "command") /\ To(p, "grpc")
  /\ plugin' = [plugin EXCEPT ![p] = Registered(@, {<<"adapter", "mock">>})]
  /\ adapter' = [adapter EXCEPT ![p] = Chosen(plugin'[p], "adapter", "mock", @)]
  /\ UNCHANGED <<setupVars, how, parser, req, usageVars, crashes>>

StartGrpc(p) == Start(p, "grpc", "grpc", "http") /\ UNCHANGED <<setupVars, pluginVars>>

\* The goroutine that serves HTTP; it may also find the port taken, and
\* runServer returns with everything else running.
StartHttp(p) == Start(p, "http", "http", "serving") /\ UNCHANGED <<setupVars, pluginVars>>

StartStep(p) ==
  \/ OpenDB(p) \/ OpenBus(p) \/ Setup(p) \/ SetupEnds(p) \/ StartCollector(p)
  \/ LoadPlugins(p) \/ StartTelemetry(p) \/ StartCommands(p) \/ StartGrpc(p) \/ StartHttp(p)

-----------------------------------------------------------------------------
(* Requests.                                                               *)

Api(r) == IF r \in HttpRequests THEN "http" ELSE "grpc"
Becomes(r, s) == req' = [req EXCEPT ![r].at = s]

\* Shutdown closes the listener of HTTP at once; gRPC goes on taking requests
\* until it is its turn.
Accept(r) ==
  /\ req[r].at = "idle" /\ Api(r) \in up[Home[r]]
  /\ stage[Home[r]] \in IF Api(r) = "http" THEN {"serving"} ELSE {"http", "serving", "shutdown"}
  /\ \E n \in IF Api(r) = "http" THEN About ELSE {None} :
       req' = [req EXCEPT ![r] = [at |-> "running", name |-> n]]
  /\ UNCHANGED <<setupVars, procVars, pluginVars, usageVars, crashes>>

\* SetTelemetryParser or SetCommandAdapter: what the manager offers ...
Lookup(r) ==
  /\ req[r].at = "running" /\ r \in HttpRequests
  /\ \E kind \in {"parser", "adapter"} :
       Offers(plugin[Home[r]], kind, req[r].name) /\ Becomes(r, kind)
  /\ UNCHANGED <<setupVars, procVars, pluginVars, usageVars, crashes>>

\* ... is stored under a lock of the pipeline's own.
Store(r) ==
  /\ LET p == Home[r]
         Choice(kind, old) == IF req[r].at = kind THEN [old EXCEPT ![p] = req[r].name] ELSE old
     IN /\ req[r].at \in {"parser", "adapter"}
        /\ parser' = Choice("parser", parser) /\ adapter' = Choice("adapter", adapter)
  /\ Becomes(r, "running")
  /\ UNCHANGED <<setupVars, procVars, plugin, usageVars, crashes>>

\* UnloadPlugin; the pipelines keep what they have.
Unload(r) ==
  /\ req[r].at = "running" /\ r \in HttpRequests
  /\ plugin[Home[r]].status[req[r].name] # "absent"
  /\ plugin' = [plugin EXCEPT ![Home[r]] = Unloaded(@, req[r].name)]
  /\ UNCHANGED <<setupVars, procVars, parser, adapter, req, usageVars, crashes>>

\* The handler returns, and its reading goes to the collector, unless that is
\* closed.  A stream of events returns when its client has gone.
Return(r) ==
  /\ req[r].at \in {"running", "late"}
  /\ Becomes(r, "ended")
  /\ IF "collector" \in up[Home[r]]
     THEN /\ buffered' = [buffered EXCEPT ![Home[r]] = @ \union {r}]
          /\ counted' = counted \union {r}
     ELSE UNCHANGED <<buffered, counted>>
  /\ UNCHANGED <<setupVars, procVars, pluginVars, billed, lost, crashes>>

\* The collector's goroutine, now and then.
Flush(p) ==
  /\ "collector" \in up[p] /\ buffered[p] # {}
  /\ billed' = billed \union buffered[p] /\ buffered' = [buffered EXCEPT ![p] = {}]
  /\ UNCHANGED <<setupVars, procVars, pluginVars, req, counted, lost, crashes>>

-----------------------------------------------------------------------------
(* End.                                                                    *)

Signal(p) ==
  /\ stage[p] = "serving"
  /\ To(p, "shutdown") /\ how' = [how EXCEPT ![p] = "signal"]
  /\ UNCHANGED <<setupVars, up, pluginVars, req, usageVars, crashes>>

\* runServer sees the error of the goroutine that served HTTP.
HttpFails(p) ==
  /\ stage[p] = "serving" /\ GiveUp(p)
  /\ UNCHANGED <<setupVars, pluginVars, req, usageVars, crashes>>

Running(p, api) == {r \in api : Home[r] = p /\ req[r].at \in {"running", "parser", "adapter"}}

\* Shutdown waits for every request, however long.
ShutdownHttp_Patient(p) ==
  /\ stage[p] = "shutdown" /\ Running(p, HttpRequests) = {}
  /\ Ends(p, "http") /\ To(p, "grpcStop")
  /\ UNCHANGED <<setupVars, how, pluginVars, req, usageVars, crashes>>

\* Shutdown waits for the requests, or for its ten seconds: some are late then.
ShutdownHttp(p) ==
  /\ stage[p] = "shutdown"
  /\ Ends(p, "http") /\ To(p, "grpcStop")
  /\ req' = [r \in Requests |-> IF r \in Running(p, HttpRequests)
                                THEN [req[r] EXCEPT !.at = "late"] ELSE req[r]]
  /\ UNCHANGED <<setupVars, how, pluginVars, usageVars, crashes>>

Stop(p, from, c, to) ==
  /\ stage[p] = from
  /\ Ends(p, c) /\ To(p, to)
  /\ UNCHANGED <<setupVars, how, req, usageVars, crashes>>

\* Stop cuts the requests off.
StopGrpc_AtOnce(p) == Stop(p, "grpcStop", "grpc", "telemetryStop") /\ UNCHANGED pluginVars

\* GracefulStop, which waits for every request, without a limit.
StopGrpc(p) ==
  /\ Running(p, GrpcRequests) = {}
  /\ Stop(p, "grpcStop", "grpc", "telemetryStop") /\ UNCHANGED pluginVars

StopTelemetry(p) ==
  Stop(p, "telemetryStop", "telemetry", "commandStop") /\ UNCHANGED pluginVars

\* The scheduler's Stop, and StopAll of the plugins.
StopCommands(p) ==
  /\ Stop(p, "commandStop", "command", "busClose")
  /\ plugin' = [plugin EXCEPT ![p] = AllBecome(@, "stopped")]
  /\ UNCHANGED <<parser, adapter>>

\* Close of the bus, and of the event store with it.
CloseBus(p) == Stop(p, "busClose", "bus", "defers") /\ UNCHANGED pluginVars

\* The database is closed first.
CloseCollector_Last(p) ==
  /\ stage[p] = "defers"
  /\ Ends(p, "collector") /\ To(p, "dbClose")
  /\ buffered' = [buffered EXCEPT ![p] = {}]
  /\ UNCHANGED <<setupVars, how, pluginVars, req, counted, billed, lost, crashes>>

\* Close of the collector, if there is one: what it holds is stored.
CloseCollector(p) ==
  /\ stage[p] = "defers"
  /\ Ends(p, "collector") /\ To(p, "dbClose")
  /\ billed' = billed \union buffered[p] /\ buffered' = [buffered EXCEPT ![p] = {}]
  /\ UNCHANGED <<setupVars, how, pluginVars, req, counted, lost, crashes>>

\* Nothing of a process is left: not its requests, not what it had in memory.
Gone(p) ==
  /\ To(p, "down") /\ up' = [up EXCEPT ![p] = {}]
  /\ plugin' = [plugin EXCEPT ![p] = NoPlugins]
  /\ parser' = [parser EXCEPT ![p] = None] /\ adapter' = [adapter EXCEPT ![p] = None]
  /\ req' = [r \in Requests |-> IF Home[r] = p /\ req[r].at # "idle"
                                THEN [req[r] EXCEPT !.at = "ended"] ELSE req[r]]
  /\ setup' = [setup EXCEPT ![p] = "off"] /\ seen' = [seen EXCEPT ![p] = {}]
  /\ buffered' = [buffered EXCEPT ![p] = {}]
  /\ UNCHANGED <<admins, applied, ran, counted, billed>>

\* Close of the database, if there is one, and the end.
CloseDB(p) ==
  /\ stage[p] = "dbClose"
  /\ Gone(p)
  /\ UNCHANGED <<how, lost, crashes>>

EndStep(p) ==
  \/ ShutdownHttp(p) \/ StopGrpc(p) \/ StopTelemetry(p) \/ StopCommands(p)
  \/ CloseBus(p) \/ CloseCollector(p) \/ CloseDB(p)

\* A crash, or a signal while it starts, and it is started again.
Crash(p) ==
  /\ stage[p] # "down" /\ crashes < MaxCrashes
  /\ Gone(p)
  /\ how' = [how EXCEPT ![p] = None]
  /\ lost' = lost \union buffered[p] /\ crashes' = crashes + 1

-----------------------------------------------------------------------------
Next ==
  \/ \E p \in Procs : Boot(p) \/ StartStep(p) \/ EndStep(p) \/ Flush(p)
                        \/ Signal(p) \/ HttpFails(p) \/ Crash(p)
  \/ \E r \in Requests : Accept(r) \/ Lookup(r) \/ Store(r) \/ Unload(r) \/ Return(r)

Spec == Init /\ [][Next]_vars

\* runServer goes on, and the clients of gRPC do not hold on to their streams
\* for ever.  Nothing is asked of the handlers of HTTP.
FairSpec ==
  /\ Spec
  /\ \A p \in Procs : WF_vars(StartStep(p)) /\ WF_vars(EndStep(p))
  /\ \A r \in GrpcRequests : WF_vars(Return(r))

-----------------------------------------------------------------------------
(* Properties.                                                             *)

Components == {"db", "bus", "collector", "telemetry", "command", "grpc", "http"}

\* The statements of runServer, and what it has started and not stopped at each.
UpAt ==
  [down |-> {}, db |-> {}, bus |-> {"db"}, setup |-> {"db", "bus"},
   collector     |-> {"db", "bus"},
   plugins       |-> {"db", "bus", "collector"},
   telemetry     |-> {"db", "bus", "collector"},
   command       |-> Components \ {"command", "grpc", "http"},
   grpc          |-> Components \ {"grpc", "http"},
   http          |-> Components \ {"http"},
   serving       |-> Components,
   shutdown      |-> Components,
   grpcStop      |-> Components \ {"http"},
   telemetryStop |-> Components \ {"grpc", "http"},
   commandStop   |-> {"db", "bus", "collector", "command"},
   busClose      |-> {"db", "bus", "collector"},
   defers        |-> {"db", "collector"},
   dbClose       |-> {"db"}]

ReqStates == [at : {"idle", "running", "parser", "adapter", "late", "ended"},
              name : About \union {None}]

TypeOK ==
  /\ SetupTypeOK
  /\ stage \in [Procs -> DOMAIN UpAt] /\ how \in [Procs -> {None, "signal", "failure"}]
  /\ up \in [Procs -> SUBSET Components]
  /\ plugin \in [Procs -> Managers]
  /\ parser \in [Procs -> Plugins \union {None}] /\ adapter \in [Procs -> Plugins \union {None}]
  /\ req \in [Requests -> ReqStates]
  /\ buffered \in [Procs -> SUBSET Requests]
  /\ counted \subseteq Requests /\ billed \subseteq Requests /\ lost \subseteq Requests
  /\ crashes \in Nat

\* A process serves only when the database is set up, whoever did it, and its
\* pipelines have a parser and an adapter, whatever was unloaded since.
ServingMeansReady ==
  \A p \in Procs : stage[p] = "serving" =>
    /\ admins = 1 /\ applied = Versions
    /\ parser[p] # None /\ adapter[p] # None

\* In the order in which a signal ends the process, nothing is closed that
\* something still works with; only requests over HTTP that outlast the limit
\* of Shutdown are left behind.
NothingUsedAfterClose ==
  \A p \in Procs : how[p] # "failure" =>
    /\ "collector" \in up[p] => "db" \in up[p]
    /\ up[p] \intersect {"telemetry", "command"} # {} => "bus" \in up[p]
    /\ Running(p, Requests) # {} => {"db", "bus", "collector", "telemetry", "command"} \subseteq up[p]

\* Unless the process crashes, what the collector took is stored when it ends:
\* also when its start fails, or a listener.
BilledAtExit ==
  \A r \in counted : r \in billed \union buffered[Home[r]] \union lost

\* A signal ends the process, even when a request over HTTP never returns.
SignalEnds == \A p \in Procs : how[p] = "signal" ~> stage[p] = "down"
=============================================================================
