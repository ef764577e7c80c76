--------------------------- MODULE LifecycleProofs ---------------------------
(***************************************************************************)
(* Proofs about Lifecycle, for any number of processes on one database,    *)
(* any migrations, plugins and requests, failures and crashes anywhere.    *)
(***************************************************************************)
EXTENDS Lifecycle, TLAPS

\* What processes that initialise one database know of it.
Initialising ==
  /\ InitialisedOnce
  /\ \A p \in Procs :
       /\ seen[p] \subseteq applied
       /\ setup[p] \in {"versions", "migrate", "ready"} => admins = 1
       /\ setup[p] = "ready" => applied = Versions

\* The stages, with how the process ends, in which a request may be worked on.
MayServe(r, s, h) ==
  IF h = "failure" THEN s \in {"defers", "dbClose"}
  ELSE IF r \in HttpRequests THEN s \in {"serving", "shutdown"}
  ELSE s \in {"http", "serving", "shutdown", "grpcStop"}

Serves ==
  \A r \in Requests :
    /\ r \in GrpcRequests => req[r].at \notin {"parser", "adapter", "late"}
    /\ req[r].at \in {"running", "parser", "adapter"} =>
         /\ r \in HttpRequests => req[r].name \in About
         /\ MayServe(r, stage[Home[r]], how[Home[r]])

\* What of p is up, and what has been chosen.
Orderly(p) ==
  /\ IF how[p] = "failure" THEN stage[p] \in {"defers", "dbClose", "down"}
                            ELSE up[p] = UpAt[stage[p]]
  /\ stage[p] \in {"collector", "plugins", "telemetry", "command", "grpc", "http",
                   "serving"} => setup[p] = "ready"
  /\ stage[p] = "telemetry" => <<"parser", "json">> \in plugin[p].reg
  /\ stage[p] \in {"command", "grpc", "http", "serving"} => parser[p] # None
  /\ stage[p] \in {"grpc", "http", "serving"} => adapter[p] # None

InOrder == \A p \in Procs : Orderly(p)

\* At the end the collector is empty, and takes nothing more.
Emptied ==
  /\ BilledAtExit
  /\ \A p \in Procs : stage[p] = "dbClose" => "collector" \notin up[p] /\ buffered[p] = {}

IndInv == TypeOK /\ Initialising /\ Serves /\ InOrder /\ Emptied

-----------------------------------------------------------------------------
\* The statements of runServer by name.
LEMMA Stages ==
  /\ DOMAIN UpAt = {"down", "db", "bus", "setup", "collector", "plugins", "telemetry",
                    "command", "grpc", "http", "serving", "shutdown", "grpcStop",
                    "telemetryStop", "commandStop", "busClose", "defers", "dbClose"}
  /\ UpAt["down"] = {} /\ UpAt["db"] = {} /\ UpAt["bus"] = {"db"}
  /\ UpAt["setup"] = {"db", "bus"} /\ UpAt["collector"] = {"db", "bus"}
  /\ UpAt["plugins"] = {"db", "bus", "collector"}
  /\ UpAt["telemetry"] = {"db", "bus", "collector"}
  /\ UpAt["command"] = Components \ {"command", "grpc", "http"}
  /\ UpAt["grpc"] = Components \ {"grpc", "http"}
  /\ UpAt["http"] = Components \ {"http"}
  /\ UpAt["serving"] = Components /\ UpAt["shutdown"] = Components
  /\ UpAt["grpcStop"] = Components \ {"http"}
  /\ UpAt["telemetryStop"] = Components \ {"grpc", "http"}
  /\ UpAt["commandStop"] = {"db", "bus", "collector", "command"}
  /\ UpAt["busClose"] = {"db", "bus", "collector"}
  /\ UpAt["defers"] = {"db", "collector"} /\ UpAt["dbClose"] = {"db"}
BY DEF UpAt

\* From one statement to the next one component is started or stopped.
LEMMA OneByOne ==
  /\ UpAt["bus"] = UpAt["db"] \union {"db"} /\ UpAt["setup"] = UpAt["bus"] \union {"bus"}
  /\ UpAt["command"] = UpAt["telemetry"] \union {"telemetry"}
  /\ UpAt["grpc"] = UpAt["command"] \union {"command"}
  /\ UpAt["http"] = UpAt["grpc"] \union {"grpc"}
  /\ UpAt["serving"] = UpAt["http"] \union {"http"}
  /\ UpAt["grpcStop"] = UpAt["shutdown"] \ {"http"}
  /\ UpAt["telemetryStop"] = UpAt["grpcStop"] \ {"grpc"}
  /\ UpAt["commandStop"] = UpAt["telemetryStop"] \ {"telemetry"}
  /\ UpAt["busClose"] = UpAt["commandStop"] \ {"command"}
  /\ UpAt["defers"] = UpAt["busClose"] \ {"bus"}
  /\ UpAt["dbClose"] = UpAt["defers"] \ {"collector"}
<1>1. /\ UpAt["bus"] = UpAt["db"] \union {"db"} /\ UpAt["setup"] = UpAt["bus"] \union {"bus"}
  BY Stages
<1>2. /\ UpAt["command"] = UpAt["telemetry"] \union {"telemetry"}
      /\ UpAt["grpc"] = UpAt["command"] \union {"command"}
  BY Stages DEF Components
<1>3. /\ UpAt["http"] = UpAt["grpc"] \union {"grpc"}
      /\ UpAt["serving"] = UpAt["http"] \union {"http"}
  BY Stages DEF Components
<1>4. /\ UpAt["grpcStop"] = UpAt["shutdown"] \ {"http"}
      /\ UpAt["telemetryStop"] = UpAt["grpcStop"] \ {"grpc"}
  BY Stages DEF Components
<1>5. /\ UpAt["commandStop"] = UpAt["telemetryStop"] \ {"telemetry"}
      /\ UpAt["busClose"] = UpAt["commandStop"] \ {"command"}
  BY Stages DEF Components
<1>6. /\ UpAt["defers"] = UpAt["busClose"] \ {"bus"}
      /\ UpAt["dbClose"] = UpAt["defers"] \ {"collector"}
  BY Stages
<1> QED
  BY <1>1, <1>2, <1>3, <1>4, <1>5, <1>6

\* What a process that initialises the database does to it.
LEMMA SetupKeeps ==
  ASSUME SetupTypeOK, Initialising, NEW p \in Procs, SetupStep(p)
  PROVE  SetupTypeOK' /\ Initialising'
<1> USE DEF SetupTypeOK, Initialising, InitialisedOnce, Goto
<1>1. CASE CreateTables(p)
  BY <1>1 DEF CreateTables
<1>2. CASE ListUsers(p)
  BY <1>2 DEF ListUsers
<1>3. CASE CreateAdmin(p)
  BY <1>3 DEF CreateAdmin
<1>4. CASE ReadVersions(p)
  BY <1>4 DEF ReadVersions
<1>5. CASE Apply(p)
  <2>1. PICK v \in Versions : Apply(p)!(v)
    BY <1>5 DEF Apply
  <2>2. CASE v \in applied
    BY <2>1, <2>2
  <2>3. CASE v \notin applied
    <3>1. /\ setup' = [setup EXCEPT ![p] = "migrate"] /\ admins' = admins
          /\ seen' = [seen EXCEPT ![p] = @ \union {v}] /\ applied' = applied \union {v}
          /\ ran' = [ran EXCEPT ![v] = @ + 1] /\ setup[p] = "migrate"
      BY <2>1, <2>3
    <3>2. \A w \in Versions : w <= v => w \in applied'
      BY <2>1, <3>1, VersionsAssumption DEF Due, Pending
    <3>3. \A w \in Versions : ran'[w] = IF w \in applied' THEN 1 ELSE 0
      BY <2>3, <3>1
    <3>4. \A q \in Procs : seen'[q] \subseteq applied'
      BY <3>1
    <3> QED
      BY <3>1, <3>2, <3>3, <3>4
  <2> QED
    BY <2>2, <2>3
<1>6. CASE Migrated(p)
  BY <1>6 DEF Migrated, Pending
<1>7. CASE StatementFails(p)
  BY <1>7 DEF StatementFails
<1> QED
  BY <1>1, <1>2, <1>3, <1>4, <1>5, <1>6, <1>7 DEF SetupStep

\* The rest of a process leaves the database to it.
LEMMA InitialisingKept ==
  ASSUME TypeOK, Initialising, [Next]_vars
  PROVE  SetupTypeOK' /\ Initialising'
<1>1. CASE \E p \in Procs : Setup(p)
  BY <1>1, SetupKeeps DEF Setup, TypeOK
<1>2. CASE UNCHANGED setupVars
  BY <1>2 DEF setupVars, TypeOK, SetupTypeOK, Initialising, InitialisedOnce
<1>3. ASSUME NEW p \in Procs, OpenBus(p) \/ Gone(p)
      PROVE  SetupTypeOK' /\ Initialising'
  <2>1. /\ \/ setup' = [setup EXCEPT ![p] = "tables"] /\ seen' = seen
           \/ setup' = [setup EXCEPT ![p] = "off"] /\ seen' = [seen EXCEPT ![p] = {}]
        /\ UNCHANGED <<admins, applied, ran>>
    BY <1>3 DEF OpenBus, Gone
  <2>2. SetupTypeOK
    BY DEF TypeOK
  <2> QED
    BY <2>1, <2>2 DEF SetupTypeOK, Initialising, InitialisedOnce
<1>4. ASSUME NEW p \in Procs, StartStep(p)
      PROVE  Setup(p) \/ OpenBus(p) \/ UNCHANGED setupVars
  BY <1>4 DEF StartStep, OpenDB, SetupEnds, StartCollector, LoadPlugins, StartTelemetry,
              StartCommands, StartGrpc, StartHttp
<1>5. ASSUME NEW p \in Procs, EndStep(p)
      PROVE  Gone(p) \/ UNCHANGED setupVars
  BY <1>5 DEF EndStep, ShutdownHttp, StopGrpc, StopTelemetry, StopCommands, Stop, CloseBus,
              CloseCollector, CloseDB
<1>6. ASSUME NEW p \in Procs, Boot(p) \/ Flush(p) \/ Signal(p) \/ HttpFails(p) \/ Crash(p)
      PROVE  Gone(p) \/ UNCHANGED setupVars
  BY <1>6 DEF Boot, Flush, Signal, HttpFails, Crash
<1>7. ASSUME NEW r \in Requests, Accept(r) \/ Lookup(r) \/ Store(r) \/ Unload(r) \/ Return(r)
      PROVE  UNCHANGED setupVars
  BY <1>7 DEF Accept, Lookup, Store, Unload, Return
<1>8. UNCHANGED vars => UNCHANGED setupVars
  BY DEF vars
<1> QED
  BY <1>1, <1>2, <1>3, <1>4, <1>5, <1>6, <1>7, <1>8 DEF Next

\* What is left of a process when it ends.
LEMMA Ended ==
  ASSUME TypeOK, NEW p \in Procs, Gone(p)
  PROVE  /\ stage' = [stage EXCEPT ![p] = "down"] /\ up' = [up EXCEPT ![p] = {}]
         /\ plugin' = [plugin EXCEPT ![p] = NoPlugins]
         /\ parser' = [parser EXCEPT ![p] = None] /\ adapter' = [adapter EXCEPT ![p] = None]
         /\ req' \in [Requests -> ReqStates]
         /\ \A r \in Requests :
              IF Home[r] = p THEN req'[r].at \in {"idle", "ended"} ELSE req'[r] = req[r]
         /\ buffered' = [buffered EXCEPT ![p] = {}]
         /\ UNCHANGED <<counted, billed>>
<1> USE DEF TypeOK, Gone, To, ReqStates
<1>1. \A r \in Requests :
        /\ req'[r] \in ReqStates
        /\ IF Home[r] = p THEN req'[r].at \in {"idle", "ended"} ELSE req'[r] = req[r]
  OBVIOUS
<1> QED
  BY <1>1

\* What the manager's methods make of a plugin manager is one.
LEMMA ManagersKept ==
  /\ NoPlugins \in Managers
  /\ \A m \in Managers :
       /\ LoadedFromDirectory(m) \in Managers
       /\ \A S \in SUBSET (Kinds \X Plugins) : Registered(m, S) \in Managers
       /\ \A s \in {"started", "stopped"} : AllBecome(m, s) \in Managers
       /\ \A n \in Plugins : Unloaded(m, n) \in Managers
<1> USE DEF Managers
<1>1. NoPlugins \in Managers
  BY DEF NoPlugins
<1>2. ASSUME NEW m \in Managers PROVE LoadedFromDirectory(m) \in Managers
  BY <1>2 DEF LoadedFromDirectory
<1>3. ASSUME NEW m \in Managers, NEW S \in SUBSET (Kinds \X Plugins)
      PROVE  Registered(m, S) \in Managers
  BY <1>3 DEF Registered
<1>4. ASSUME NEW m \in Managers, NEW s \in {"started", "stopped"}
      PROVE  AllBecome(m, s) \in Managers
  BY <1>4 DEF AllBecome
<1>5. ASSUME NEW m \in Managers, NEW n \in Plugins PROVE Unloaded(m, n) \in Managers
  BY <1>5 DEF Unloaded
<1> HIDE DEF Managers
<1> QED
  BY <1>1, <1>2, <1>3, <1>4, <1>5

\* The types of what is not the database, step by step.
LEMMA TypeKept ==
  ASSUME TypeOK, Initialising, Serves, [Next]_vars
  PROVE  TypeOK'
<1> USE LifecycleAssumption DEF TypeOK, procVars, pluginVars, usageVars
<1>1. SetupTypeOK'
  BY InitialisingKept
<1> USE DEF To, Begins, Ends, GiveUp, Start, Stop, Components
<1>2. ASSUME NEW p \in Procs, Boot(p) PROVE TypeOK'
  BY <1>1, <1>2, Stages DEF Boot
<1>3. ASSUME NEW p \in Procs, OpenDB(p) \/ OpenBus(p) PROVE TypeOK'
  BY <1>1, <1>3, Stages DEF OpenDB, OpenBus
<1>4. ASSUME NEW p \in Procs, Setup(p) \/ SetupEnds(p) PROVE TypeOK'
  BY <1>1, <1>4, Stages DEF Setup, SetupEnds
<1>5. ASSUME NEW p \in Procs, StartCollector(p) PROVE TypeOK'
  BY <1>1, <1>5, Stages DEF StartCollector
<1>6. ASSUME NEW p \in Procs, LoadPlugins(p) PROVE TypeOK'
  <2>1. PICK m \in Managers : plugin' = [plugin EXCEPT ![p] =
          Registered(AllBecome(WithGlobals(m), "started"),
                     {<<"parser", "json">>, <<"parser", "tle">>})]
    BY <1>6, ManagersKept DEF LoadPlugins
  <2>2. {<<"parser", "json">>, <<"parser", "tle">>} \in SUBSET (Kinds \X Plugins)
    BY DEF Kinds
  <2>3. plugin' \in [Procs -> Managers]
    BY <2>1, <2>2, ManagersKept DEF WithGlobals
  <2> QED
    BY <1>1, <1>6, <2>3, Stages DEF LoadPlugins
<1>7. ASSUME NEW p \in Procs, StartTelemetry(p) PROVE TypeOK'
  BY <1>1, <1>7, Stages DEF StartTelemetry, Chosen
<1>8. ASSUME NEW p \in Procs, StartCommands(p) PROVE TypeOK'
  <2>1. {<<"adapter", "mock">>} \in SUBSET (Kinds \X Plugins)
    BY DEF Kinds
  <2>2. plugin' \in [Procs -> Managers]
    BY <1>8, <2>1, ManagersKept DEF StartCommands
  <2>3. adapter' \in [Procs -> Plugins \union {None}]
    BY <1>8 DEF StartCommands, Chosen
  <2> QED
    BY <1>1, <1>8, <2>2, <2>3, Stages DEF StartCommands
<1>9. ASSUME NEW p \in Procs, StartGrpc(p) \/ StartHttp(p) PROVE TypeOK'
  BY <1>1, <1>9, Stages DEF StartGrpc, StartHttp
<1>10. ASSUME NEW p \in Procs, Signal(p) \/ HttpFails(p) \/ Flush(p) PROVE TypeOK'
  BY <1>1, <1>10, Stages DEF Signal, HttpFails, Flush
<1>11. ASSUME NEW p \in Procs, ShutdownHttp(p) PROVE TypeOK'
  BY <1>1, <1>11, Stages DEF ShutdownHttp, ReqStates
<1>12. ASSUME NEW p \in Procs, StopGrpc(p) \/ StopTelemetry(p) \/ CloseBus(p) PROVE TypeOK'
  BY <1>1, <1>12, Stages DEF StopGrpc, StopTelemetry, CloseBus
<1>13. ASSUME NEW p \in Procs, StopCommands(p) PROVE TypeOK'
  <2>1. plugin' \in [Procs -> Managers]
    BY <1>13, ManagersKept DEF StopCommands
  <2> QED
    BY <1>1, <1>13, <2>1, Stages DEF StopCommands
<1>14. ASSUME NEW p \in Procs, CloseCollector(p) PROVE TypeOK'
  BY <1>1, <1>14, Stages DEF CloseCollector
<1>15. ASSUME NEW p \in Procs, CloseDB(p) \/ Crash(p) PROVE TypeOK'
  <2>1. Gone(p) /\ how' \in [Procs -> {None, "signal", "failure"}]
        /\ lost' \subseteq Requests /\ crashes' \in Nat
    BY <1>15 DEF CloseDB, Crash
  <2>2. /\ stage' = [stage EXCEPT ![p] = "down"] /\ up' = [up EXCEPT ![p] = {}]
        /\ parser' = [parser EXCEPT ![p] = None] /\ adapter' = [adapter EXCEPT ![p] = None]
        /\ req' \in [Requests -> ReqStates]
        /\ buffered' = [buffered EXCEPT ![p] = {}]
        /\ UNCHANGED <<counted, billed>>
    BY <2>1, Ended
  <2>3. plugin' \in [Procs -> Managers]
    BY <2>1, Ended, ManagersKept
  <2>4. "down" \in DOMAIN UpAt
    BY Stages
  <2> QED
    BY <1>1, <2>1, <2>2, <2>3, <2>4
<1>16. ASSUME NEW r \in Requests, Accept(r) PROVE TypeOK'
  BY <1>1, <1>16 DEF Accept, ReqStates
<1>17. ASSUME NEW r \in Requests, Lookup(r) \/ Return(r) PROVE TypeOK'
  <2>1. req' \in [Requests -> ReqStates]
    <3>1. \E s \in {"parser", "adapter", "ended"} : req' = [req EXCEPT ![r].at = s]
      BY <1>17 DEF Lookup, Return, Becomes
    <3> QED
      BY <3>1 DEF ReqStates
  <2> QED
    BY <1>1, <1>17, <2>1 DEF Lookup, Return
<1>18. ASSUME NEW r \in Requests, Store(r) PROVE TypeOK'
  <2>1. /\ parser' = IF req[r].at = "parser" THEN [parser EXCEPT ![Home[r]] = req[r].name]
                                             ELSE parser
        /\ adapter' = IF req[r].at = "adapter" THEN [adapter EXCEPT ![Home[r]] = req[r].name]
                                               ELSE adapter
    BY <1>18 DEF Store
  <2>2. /\ parser' \in [Procs -> Plugins \union {None}]
        /\ adapter' \in [Procs -> Plugins \union {None}]
    BY <2>1 DEF ReqStates
  <2> QED
    BY <1>1, <1>18, <2>2 DEF Store, Becomes, ReqStates
<1>19. ASSUME NEW r \in Requests, Unload(r) PROVE TypeOK'
  <2>1. req[r].name \in Plugins
    BY <1>19 DEF Unload, Serves
  <2>2. plugin' \in [Procs -> Managers]
    BY <1>19, <2>1, ManagersKept DEF Unload
  <2> QED
    BY <1>1, <1>19, <2>2 DEF Unload
<1>20. CASE UNCHANGED vars
  BY <1>1, <1>20 DEF vars
<1> QED
  BY <1>2, <1>3, <1>4, <1>5, <1>6, <1>7, <1>8, <1>9, <1>10, <1>11, <1>12, <1>13, <1>14,
     <1>15, <1>16, <1>17, <1>18, <1>19, <1>20 DEF Next, StartStep, EndStep

\* A process goes on to a stage where it may still work on its requests.
LEMMA Moves ==
  ASSUME TypeOK, Serves, NEW p \in Procs, UNCHANGED req,
         \A q \in Procs : q # p => stage'[q] = stage[q] /\ how'[q] = how[q],
         \A r \in Running(p, Requests) : MayServe(r, stage'[p], how'[p])
  PROVE  Serves'
<1> SUFFICES ASSUME NEW r \in Requests, req[r].at \in {"running", "parser", "adapter"}
             PROVE  MayServe(r, stage'[Home[r]], how'[Home[r]])
  BY DEF Serves, MayServe
<1>1. CASE Home[r] = p
  BY <1>1 DEF Running
<1>2. CASE Home[r] # p
  BY <1>2, LifecycleAssumption DEF Serves
<1> QED
  BY <1>1, <1>2

\* A process that does not serve yet, or has stopped to, works on no request.
LEMMA Quiet ==
  ASSUME TypeOK, Serves, InOrder, NEW p \in Procs,
         stage[p] \notin {"http", "serving", "shutdown", "grpcStop", "defers", "dbClose"}
  PROVE  Running(p, Requests) = {}
BY DEF Serves, MayServe, Running

\* Requests run only while their process serves them, or after it failed.
LEMMA ServesKept ==
  ASSUME TypeOK, Serves, InOrder, [Next]_vars
  PROVE  Serves'
<1> USE LifecycleAssumption DEF procVars, pluginVars, usageVars, To, GiveUp, Start, Stop
<1> DEFINE Early == {"db", "bus", "setup", "collector", "plugins", "telemetry", "command",
                     "grpc"}
<1>1. ASSUME NEW p \in Procs, Boot(p) \/ StartStep(p), stage[p] \in Early \union {"down"}
      PROVE  Serves'
  <2>1. UNCHANGED req /\ (\A q \in Procs : q # p => stage'[q] = stage[q] /\ how'[q] = how[q])
    BY <1>1 DEF Boot, StartStep, OpenDB, OpenBus, Setup, SetupEnds, StartCollector,
       LoadPlugins, StartTelemetry, StartCommands, StartGrpc, StartHttp, TypeOK
  <2>2. Running(p, Requests) = {}
    BY <1>1, Quiet
  <2> QED
    BY <2>1, <2>2, Moves
<1>2. ASSUME NEW p \in Procs, StartStep(p), stage[p] \notin Early PROVE Serves'
  <2>1. StartHttp(p)
    BY <1>2 DEF StartStep, OpenDB, OpenBus, Setup, SetupEnds, StartCollector,
       LoadPlugins, StartTelemetry, StartCommands, StartGrpc
  <2>2. /\ UNCHANGED req /\ \A q \in Procs : q # p => stage'[q] = stage[q] /\ how'[q] = how[q]
        /\ stage[p] = "http"
        /\ \/ stage'[p] = "serving" /\ how'[p] = how[p]
           \/ stage'[p] = "defers" /\ how'[p] = "failure"
    BY <2>1 DEF StartHttp, TypeOK
  <2>3. \A r \in Running(p, Requests) : MayServe(r, stage'[p], how'[p])
    BY <2>2 DEF Running, Serves, MayServe
  <2> QED
    BY <2>2, <2>3, Moves
<1>3. ASSUME NEW p \in Procs, Signal(p) \/ HttpFails(p) \/ Flush(p) PROVE Serves'
  <2>1. /\ UNCHANGED req /\ \A q \in Procs : q # p => stage'[q] = stage[q] /\ how'[q] = how[q]
        /\ \/ stage'[p] = stage[p] /\ how'[p] = how[p]
           \/ stage[p] = "serving" /\ stage'[p] = "shutdown" /\ how'[p] = "signal"
           \/ stage[p] = "serving" /\ stage'[p] = "defers" /\ how'[p] = "failure"
    BY <1>3 DEF Signal, HttpFails, Flush, TypeOK
  <2>2. \A r \in Running(p, Requests) : MayServe(r, stage'[p], how'[p])
    BY <2>1 DEF Running, Serves, MayServe
  <2> QED
    BY <2>1, <2>2, Moves
<1>4. ASSUME NEW p \in Procs, ShutdownHttp(p) PROVE Serves'
  <2>1. /\ \A q \in Procs : q # p => stage'[q] = stage[q]
        /\ how' = how /\ stage[p] = "shutdown" /\ stage'[p] = "grpcStop"
    BY <1>4 DEF ShutdownHttp, TypeOK
  <2>2. \A r \in Requests : IF r \in HttpRequests /\ r \in Running(p, Requests)
                           THEN req'[r].at = "late" ELSE req'[r] = req[r]
    BY <1>4 DEF ShutdownHttp, Running, TypeOK, ReqStates, Requests
  <2> QED
    BY <2>1, <2>2 DEF Serves, MayServe, Running, Requests
<1>5. ASSUME NEW p \in Procs,
             StopGrpc(p) \/ StopTelemetry(p) \/ StopCommands(p) \/ CloseBus(p)
      PROVE  Serves'
  <2>1. /\ UNCHANGED <<req, how>>
        /\ \A q \in Procs : q # p => stage'[q] = stage[q]
        /\ \/ stage[p] = "grpcStop" /\ Running(p, GrpcRequests) = {}
           \/ stage[p] \in {"telemetryStop", "commandStop", "busClose"}
    BY <1>5 DEF StopGrpc, StopTelemetry, StopCommands, CloseBus, TypeOK
  <2>2. Running(p, Requests) = {}
    BY <2>1 DEF Running, Serves, MayServe, Requests, InOrder
  <2> QED
    BY <2>1, <2>2, Moves
<1>6. ASSUME NEW p \in Procs, CloseCollector(p) PROVE Serves'
  <2>1. /\ UNCHANGED <<req, how>>
        /\ \A q \in Procs : q # p => stage'[q] = stage[q]
        /\ stage[p] = "defers" /\ stage'[p] = "dbClose"
    BY <1>6 DEF CloseCollector, TypeOK
  <2>2. \A r \in Running(p, Requests) : MayServe(r, stage'[p], how'[p])
    BY <2>1 DEF Running, Serves, MayServe
  <2> QED
    BY <2>1, <2>2, Moves
<1>7. ASSUME NEW p \in Procs, CloseDB(p) \/ Crash(p) PROVE Serves'
  <2>1. Gone(p) /\ \A q \in Procs : q # p => how'[q] = how[q]
    BY <1>7 DEF CloseDB, Crash, TypeOK
  <2> QED
    BY <2>1, Ended DEF Serves, MayServe, TypeOK
<1>8. ASSUME NEW r \in Requests, Accept(r) PROVE Serves'
  <2>1. /\ UNCHANGED <<stage, how>> /\ \A q \in Requests : q # r => req'[q] = req[q]
        /\ req'[r].at = "running" /\ (r \in HttpRequests => req'[r].name \in About)
        /\ stage[Home[r]] \in IF r \in HttpRequests THEN {"serving"}
                             ELSE {"http", "serving", "shutdown"}
    BY <1>8 DEF Accept, Api, TypeOK
  <2>2. how[Home[r]] # "failure"
    BY <2>1, LifecycleAssumption DEF InOrder, Orderly
  <2> QED
    BY <2>1, <2>2 DEF Serves, MayServe
<1>9. ASSUME NEW r \in Requests, Lookup(r) \/ Store(r) \/ Unload(r) \/ Return(r)
      PROVE  Serves'
  <2>1. /\ UNCHANGED <<stage, how>> /\ \A q \in Requests : q # r => req'[q] = req[q]
        /\ \/ req'[r] = req[r] \/ req'[r].at = "ended"
           \/ /\ req[r].at \in {"running", "parser", "adapter"} /\ r \notin GrpcRequests
              /\ req'[r].at \in {"running", "parser", "adapter"}
              /\ req'[r].name = req[r].name
    BY <1>9 DEF Lookup, Store, Unload, Return, Becomes, TypeOK, ReqStates, Serves, Requests
  <2> QED
    BY <2>1 DEF Serves, MayServe
<1>10. CASE UNCHANGED vars
  BY <1>10 DEF vars, Serves
<1> QED
  BY <1>1, <1>2, <1>3, <1>4, <1>5, <1>6, <1>7, <1>8, <1>9, <1>10 DEF Next, EndStep, Boot

-----------------------------------------------------------------------------
\* All of a process that the order of its start and end is about.
Same(p) ==
  /\ stage'[p] = stage[p] /\ how'[p] = how[p] /\ up'[p] = up[p] /\ setup'[p] = setup[p]
  /\ plugin'[p] = plugin[p] /\ parser'[p] = parser[p] /\ adapter'[p] = adapter[p]

\* A process does nothing to the others.
LEMMA Alone ==
  ASSUME TypeOK, NEW p \in Procs,
         Boot(p) \/ StartStep(p) \/ EndStep(p) \/ Flush(p) \/ Signal(p) \/ HttpFails(p) \/ Crash(p)
  PROVE  \A q \in Procs : q # p => Same(q)
<1> USE DEF TypeOK, SetupTypeOK, Same, procVars, pluginVars, setupVars, usageVars, To, GiveUp,
            Start, Stop, Begins, Ends
<1>1. CASE Boot(p) \/ Flush(p) \/ Signal(p) \/ HttpFails(p)
  BY <1>1 DEF Boot, Flush, Signal, HttpFails
<1>2. CASE Setup(p)
  BY <1>2 DEF Setup, SetupStep, CreateTables, ListUsers, CreateAdmin, ReadVersions, Apply,
     Migrated, StatementFails, Goto
<1>3. CASE OpenDB(p) \/ OpenBus(p) \/ SetupEnds(p) \/ StartCollector(p) \/ LoadPlugins(p)
  BY <1>3 DEF OpenDB, OpenBus, SetupEnds, StartCollector, LoadPlugins
<1>4. CASE StartTelemetry(p) \/ StartCommands(p) \/ StartGrpc(p) \/ StartHttp(p)
  BY <1>4 DEF StartTelemetry, StartCommands, StartGrpc, StartHttp
<1>5. CASE ShutdownHttp(p) \/ StopGrpc(p) \/ StopTelemetry(p) \/ StopCommands(p)
  BY <1>5 DEF ShutdownHttp, StopGrpc, StopTelemetry, StopCommands
<1>6. CASE CloseBus(p) \/ CloseCollector(p)
  BY <1>6 DEF CloseBus, CloseCollector
<1>7. CASE CloseDB(p) \/ Crash(p)
  BY <1>7 DEF CloseDB, Crash, Gone
<1> QED
  BY <1>1, <1>2, <1>3, <1>4, <1>5, <1>6, <1>7 DEF StartStep, EndStep

\* The start goes on in order, or the process fails.
LEMMA StartInOrder ==
  ASSUME TypeOK, NEW p \in Procs, Orderly(p), Boot(p) \/ StartStep(p)
  PROVE  Orderly(p)'
<1> USE DEF TypeOK, SetupTypeOK, procVars, pluginVars, setupVars, usageVars, To, Start, Begins
<1>1. ASSUME stage'[p] = "defers", how'[p] = "failure" PROVE Orderly(p)'
  BY <1>1 DEF Orderly
<1>2. GiveUp(p) => Orderly(p)'
  BY <1>1 DEF GiveUp
<1>3. CASE Boot(p)
  <2>1. /\ stage[p] = "down" /\ stage'[p] = "db" /\ how[p] = None /\ how'[p] = None
        /\ up'[p] = up[p]
    BY <1>3 DEF Boot
  <2> HIDE DEF TypeOK, SetupTypeOK
  <2> QED
    BY <2>1, Stages DEF Orderly, None
<1>4. CASE OpenDB(p) \/ OpenBus(p)
  <2>1. \/ GiveUp(p)
        \/ /\ how'[p] = how[p]
           /\ \/ stage[p] = "db" /\ stage'[p] = "bus" /\ up'[p] = up[p] \union {"db"}
              \/ stage[p] = "bus" /\ stage'[p] = "setup" /\ up'[p] = up[p] \union {"bus"}
    BY <1>4 DEF OpenDB, OpenBus
  <2> HIDE DEF TypeOK, SetupTypeOK
  <2>2. CASE ~GiveUp(p)
    <3>1. how[p] # "failure" /\ up[p] = UpAt[stage[p]]
      BY <2>1, <2>2 DEF Orderly
    <3>2. up'[p] = UpAt[stage'[p]]
      <4>1. UpAt["bus"] = UpAt["db"] \union {"db"}
        BY OneByOne
      <4>2. UpAt["setup"] = UpAt["bus"] \union {"bus"}
        BY OneByOne
      <4> QED
        BY <2>1, <2>2, <3>1, <4>1, <4>2
    <3>3. stage'[p] \in {"bus", "setup"} /\ how'[p] # "failure"
      BY <2>1, <2>2, <3>1
    <3> QED
      BY <3>2, <3>3 DEF Orderly
  <2> QED
    BY <1>2, <2>2
<1>5. CASE Setup(p)
  BY <1>5 DEF Setup, Orderly
<1>6. CASE SetupEnds(p)
  <2>1. \/ GiveUp(p)
        \/ /\ stage[p] = "setup" /\ stage'[p] = "collector" /\ setup'[p] = "ready"
           /\ how'[p] = how[p] /\ up'[p] = up[p]
    BY <1>6 DEF SetupEnds
  <2> HIDE DEF TypeOK, SetupTypeOK
  <2>2. CASE ~GiveUp(p)
    <3>1. how'[p] # "failure" /\ up'[p] = UpAt["setup"]
      BY <2>1, <2>2 DEF Orderly
    <3>2. UpAt["setup"] = UpAt["collector"]
      BY Stages
    <3> QED
      BY <2>1, <2>2, <3>1, <3>2 DEF Orderly
  <2> QED
    BY <1>2, <2>2
<1>7. CASE StartCollector(p)
  <2>1. /\ stage[p] = "collector" /\ stage'[p] = "plugins" /\ up'[p] = up[p] \union {"collector"}
        /\ how'[p] = how[p] /\ setup'[p] = setup[p]
    BY <1>7 DEF StartCollector
  <2> HIDE DEF TypeOK, SetupTypeOK
  <2> QED
    BY <2>1, Stages DEF Orderly
<1>8. CASE LoadPlugins(p)
  <2>1. /\ stage[p] = "plugins" /\ stage'[p] = "telemetry" /\ up'[p] = up[p]
        /\ how'[p] = how[p] /\ setup'[p] = setup[p]
        /\ <<"parser", "json">> \in plugin'[p].reg
    BY <1>8 DEF LoadPlugins, Registered
  <2> HIDE DEF TypeOK, SetupTypeOK
  <2> QED
    BY <2>1, Stages DEF Orderly
<1>9. CASE StartTelemetry(p)
  <2>1. \/ GiveUp(p)
        \/ /\ stage[p] = "telemetry" /\ stage'[p] = "command"
           /\ up'[p] = up[p] \union {"telemetry"} /\ how'[p] = how[p] /\ setup'[p] = setup[p]
           /\ parser'[p] = Chosen(plugin[p], "parser", "json", parser[p])
    BY <1>9 DEF StartTelemetry
  <2> HIDE DEF TypeOK, SetupTypeOK
  <2>2. CASE ~GiveUp(p)
    <3>1. parser'[p] = "json" /\ how[p] # "failure" /\ up[p] = UpAt["telemetry"]
      BY <2>1, <2>2 DEF Orderly, Chosen, Offers
    <3>2. up'[p] = UpAt["command"]
      BY <2>1, <2>2, <3>1, OneByOne
    <3> QED
      BY <2>1, <2>2, <3>1, <3>2 DEF Orderly, None
  <2> QED
    BY <1>2, <2>2
<1>10. CASE StartCommands(p)
  <2>1. /\ stage[p] = "command" /\ stage'[p] = "grpc" /\ up'[p] = up[p] \union {"command"}
        /\ how'[p] = how[p] /\ setup'[p] = setup[p] /\ parser'[p] = parser[p]
        /\ <<"adapter", "mock">> \in plugin'[p].reg
        /\ adapter'[p] = Chosen(plugin'[p], "adapter", "mock", adapter[p])
    BY <1>10 DEF StartCommands, Registered
  <2> HIDE DEF TypeOK, SetupTypeOK
  <2> QED
    BY <2>1, Stages DEF Orderly, Chosen, Offers, None, Components
<1>11. CASE StartGrpc(p) \/ StartHttp(p)
  <2>1. \/ GiveUp(p)
        \/ /\ \/ stage[p] = "grpc" /\ stage'[p] = "http" /\ up'[p] = up[p] \union {"grpc"}
              \/ stage[p] = "http" /\ stage'[p] = "serving" /\ up'[p] = up[p] \union {"http"}
           /\ how'[p] = how[p] /\ setup'[p] = setup[p] /\ parser'[p] = parser[p]
           /\ adapter'[p] = adapter[p]
    BY <1>11 DEF StartGrpc, StartHttp
  <2> HIDE DEF TypeOK, SetupTypeOK
  <2>2. CASE ~GiveUp(p)
    <3>1. how[p] # "failure" /\ up[p] = UpAt[stage[p]]
      BY <2>1, <2>2 DEF Orderly
    <3>2. up'[p] = UpAt[stage'[p]]
      <4>1. UpAt["http"] = UpAt["grpc"] \union {"grpc"}
        BY OneByOne
      <4>2. UpAt["serving"] = UpAt["http"] \union {"http"}
        BY OneByOne
      <4> QED
        BY <2>1, <2>2, <3>1, <4>1, <4>2
    <3>3. how'[p] # "failure" /\ stage'[p] # "telemetry"
      BY <2>1, <2>2, <3>1
    <3>4. setup'[p] = "ready" /\ parser'[p] # None /\ adapter'[p] # None
      BY <2>1, <2>2 DEF Orderly
    <3> QED
      BY <3>2, <3>3, <3>4 DEF Orderly
  <2> QED
    BY <1>2, <2>2
<1> QED
  BY <1>3, <1>4, <1>5, <1>6, <1>7, <1>8, <1>9, <1>10, <1>11 DEF StartStep

\* The end takes down what is up, from the top.
LEMMA EndInOrder ==
  ASSUME TypeOK, NEW p \in Procs, Orderly(p),
         EndStep(p) \/ Flush(p) \/ Signal(p) \/ HttpFails(p) \/ Crash(p)
  PROVE  Orderly(p)'
<1> USE DEF TypeOK, SetupTypeOK, procVars, pluginVars, setupVars, usageVars, To, Stop, Ends
<1>1. CASE ShutdownHttp(p) \/ StopGrpc(p) \/ StopTelemetry(p) \/ StopCommands(p) \/ CloseBus(p)
  <2>1. /\ how'[p] = how[p]
        /\ \/ stage[p] = "shutdown" /\ stage'[p] = "grpcStop" /\ up'[p] = up[p] \ {"http"}
           \/ stage[p] = "grpcStop" /\ stage'[p] = "telemetryStop" /\ up'[p] = up[p] \ {"grpc"}
           \/ stage[p] = "telemetryStop" /\ stage'[p] = "commandStop"
              /\ up'[p] = up[p] \ {"telemetry"}
           \/ stage[p] = "commandStop" /\ stage'[p] = "busClose" /\ up'[p] = up[p] \ {"command"}
           \/ stage[p] = "busClose" /\ stage'[p] = "defers" /\ up'[p] = up[p] \ {"bus"}
    BY <1>1 DEF ShutdownHttp, StopGrpc, StopTelemetry, StopCommands, CloseBus
  <2> HIDE DEF TypeOK, SetupTypeOK
  <2>2. how[p] # "failure" /\ up[p] = UpAt[stage[p]]
    BY <2>1 DEF Orderly
  <2>3. up'[p] = UpAt[stage'[p]]
    <3>1. CASE stage[p] = "shutdown"
      <4>1. UpAt["grpcStop"] = UpAt["shutdown"] \ {"http"}
        BY OneByOne
      <4> QED
        BY <2>1, <2>2, <3>1, <4>1
    <3>2. CASE stage[p] = "grpcStop"
      <4>1. UpAt["telemetryStop"] = UpAt["grpcStop"] \ {"grpc"}
        BY OneByOne
      <4> QED
        BY <2>1, <2>2, <3>2, <4>1
    <3>3. CASE stage[p] = "telemetryStop"
      <4>1. UpAt["commandStop"] = UpAt["telemetryStop"] \ {"telemetry"}
        BY OneByOne
      <4> QED
        BY <2>1, <2>2, <3>3, <4>1
    <3>4. CASE stage[p] = "commandStop"
      <4>1. UpAt["busClose"] = UpAt["commandStop"] \ {"command"}
        BY OneByOne
      <4> QED
        BY <2>1, <2>2, <3>4, <4>1
    <3>5. CASE stage[p] = "busClose"
      <4>1. UpAt["defers"] = UpAt["busClose"] \ {"bus"}
        BY OneByOne
      <4> QED
        BY <2>1, <2>2, <3>5, <4>1
    <3> QED
      BY <2>1, <3>1, <3>2, <3>3, <3>4, <3>5
  <2>4. /\ stage'[p] \in {"grpcStop", "telemetryStop", "commandStop", "busClose", "defers"}
        /\ how'[p] # "failure"
    BY <2>1, <2>2
  <2> QED
    BY <2>3, <2>4 DEF Orderly
<1>2. CASE CloseCollector(p)
  <2>1. /\ stage[p] = "defers" /\ stage'[p] = "dbClose" /\ up'[p] = up[p] \ {"collector"}
        /\ how'[p] = how[p]
    BY <1>2 DEF CloseCollector
  <2> HIDE DEF TypeOK, SetupTypeOK
  <2> QED
    BY <2>1, Stages DEF Orderly
<1>3. CASE CloseDB(p) \/ Crash(p)
  <2>1. stage'[p] = "down" /\ up'[p] = {}
    BY <1>3, Ended DEF CloseDB, Crash
  <2> HIDE DEF TypeOK, SetupTypeOK
  <2> QED
    BY <2>1, Stages DEF Orderly
<1>4. CASE Flush(p)
  BY <1>4 DEF Flush, Orderly
<1>5. CASE Signal(p) \/ HttpFails(p)
  <2>1. /\ stage[p] = "serving" /\ up'[p] = up[p]
        /\ \/ stage'[p] = "shutdown" /\ how'[p] = "signal"
           \/ stage'[p] = "defers" /\ how'[p] = "failure"
    BY <1>5 DEF Signal, HttpFails, GiveUp
  <2> HIDE DEF TypeOK, SetupTypeOK
  <2> QED
    BY <2>1, Stages DEF Orderly
<1> QED
  BY <1>1, <1>2, <1>3, <1>4, <1>5 DEF EndStep

\* Requests leave the order alone: an unloaded plugin stays with its pipeline.
LEMMA RequestsInOrder ==
  ASSUME TypeOK, Serves, InOrder, NEW r \in Requests,
         Accept(r) \/ Lookup(r) \/ Store(r) \/ Unload(r) \/ Return(r)
  PROVE  InOrder'
<1> USE DEF procVars, pluginVars, setupVars, usageVars
<1> SUFFICES ASSUME NEW p \in Procs PROVE Orderly(p)'
  BY DEF InOrder
<1>1. Orderly(p)
  BY DEF InOrder
<1>2. CASE Accept(r) \/ Lookup(r) \/ Return(r)
  BY <1>1, <1>2 DEF Accept, Lookup, Return, Orderly
<1>3. CASE Store(r)
  <2>1. /\ UNCHANGED <<setup, stage, how, up, plugin>>
        /\ parser'[p] \in {parser[p], req[r].name} /\ adapter'[p] \in {adapter[p], req[r].name}
        /\ req[r].name # None
    BY <1>3, LifecycleAssumption DEF Store, TypeOK, Serves, Requests
  <2> QED
    BY <1>1, <2>1 DEF Orderly
<1>4. CASE Unload(r)
  <2>1. /\ UNCHANGED <<setup, stage, how, up, parser, adapter>>
        /\ p = Home[r] \/ plugin'[p] = plugin[p]
        /\ r \in HttpRequests /\ req[r].at = "running"
    BY <1>4, LifecycleAssumption DEF Unload, TypeOK
  <2>2. stage[Home[r]] # "telemetry"
    BY <2>1 DEF Serves, MayServe
  <2> QED
    BY <1>1, <2>1, <2>2 DEF Orderly
<1> QED
  BY <1>2, <1>3, <1>4

\* The order of the start and of the end.
LEMMA InOrderKept ==
  ASSUME TypeOK, Serves, InOrder, [Next]_vars
  PROVE  InOrder'
<1>1. ASSUME NEW p \in Procs, \/ Boot(p) \/ StartStep(p) \/ EndStep(p) \/ Flush(p)
                              \/ Signal(p) \/ HttpFails(p) \/ Crash(p)
      PROVE  InOrder'
  <2>1. Orderly(p)'
    BY <1>1, StartInOrder, EndInOrder DEF InOrder
  <2>2. ASSUME NEW q \in Procs, q # p PROVE Orderly(q)'
    BY <1>1, <2>2, Alone DEF InOrder, Orderly, Same
  <2> QED
    BY <2>1, <2>2 DEF InOrder
<1>2. CASE UNCHANGED vars
  BY <1>2 DEF vars, setupVars, procVars, pluginVars, InOrder, Orderly
<1> QED
  BY <1>1, <1>2, RequestsInOrder DEF Next

-----------------------------------------------------------------------------
\* What the collector took is stored, still in memory, or was lost in a crash.
LEMMA EmptiedKept ==
  ASSUME TypeOK, Emptied, [Next]_vars
  PROVE  Emptied'
<1> USE LifecycleAssumption DEF TypeOK, Emptied, BilledAtExit, procVars, pluginVars, usageVars, To
<1>1. ASSUME NEW p \in Procs, Boot(p) \/ StartStep(p) PROVE Emptied'
  <2>1. /\ UNCHANGED usageVars /\ \A q \in Procs : stage'[q] = "dbClose" =>
             stage[q] = "dbClose" /\ "collector" \notin up'[q]
    BY <1>1 DEF Boot, StartStep, OpenDB, OpenBus, Setup, SetupEnds, StartCollector, LoadPlugins,
       StartTelemetry, StartCommands, StartGrpc, StartHttp, Start, Begins, GiveUp
  <2> QED
    BY <2>1
<1>2. ASSUME NEW p \in Procs, Signal(p) \/ HttpFails(p) PROVE Emptied'
  BY <1>2 DEF Signal, HttpFails, GiveUp
<1>3. ASSUME NEW p \in Procs, Flush(p) PROVE Emptied'
  BY <1>3 DEF Flush
<1>4. ASSUME NEW p \in Procs, \/ ShutdownHttp(p) \/ StopGrpc(p) \/ StopTelemetry(p)
                              \/ StopCommands(p) \/ CloseBus(p)
      PROVE  Emptied'
  BY <1>4 DEF ShutdownHttp, StopGrpc, StopTelemetry, StopCommands, CloseBus, Stop, Ends
<1>5. ASSUME NEW p \in Procs, CloseCollector(p) PROVE Emptied'
  BY <1>5 DEF CloseCollector, Ends
<1>6. ASSUME NEW p \in Procs, CloseDB(p) PROVE Emptied'
  BY <1>6, Ended DEF CloseDB
<1>7. ASSUME NEW p \in Procs, Crash(p) PROVE Emptied'
  BY <1>7, Ended DEF Crash
<1>8. ASSUME NEW r \in Requests, Accept(r) \/ Lookup(r) \/ Store(r) \/ Unload(r) PROVE Emptied'
  BY <1>8 DEF Accept, Lookup, Store, Unload
<1>9. ASSUME NEW r \in Requests, Return(r) PROVE Emptied'
  BY <1>9 DEF Return
<1>10. CASE UNCHANGED vars
  BY <1>10 DEF vars
<1> QED
  BY <1>1, <1>2, <1>3, <1>4, <1>5, <1>6, <1>7, <1>8, <1>9, <1>10 DEF Next, EndStep

-----------------------------------------------------------------------------
\* Before any process starts.
LEMMA InitIndInv == Init => IndInv
<1> SUFFICES ASSUME Init PROVE IndInv
  OBVIOUS
<1>1. TypeOK
  BY ManagersKept, Stages, LifecycleAssumption
     DEF Init, SetupInit, TypeOK, SetupTypeOK, Requests, ReqStates
<1>2. Initialising
  BY DEF Init, SetupInit, Initialising, InitialisedOnce
<1>3. Serves /\ Emptied
  BY LifecycleAssumption DEF Init, Serves, Emptied, BilledAtExit
<1>4. InOrder
  BY Stages DEF Init, SetupInit, InOrder, Orderly, None
<1> QED
  BY <1>1, <1>2, <1>3, <1>4 DEF IndInv

\* The inductive invariant.
THEOREM Invariance == Spec => []IndInv
<1>1. IndInv /\ [Next]_vars => IndInv'
  BY InitialisingKept, TypeKept, ServesKept, InOrderKept, EmptiedKept DEF IndInv
<1> QED
  BY <1>1, InitIndInv, PTL DEF Spec

\* Type correctness of the processes, the plugin managers and the requests.
THEOREM TypeCorrect == Spec => []TypeOK
<1>1. IndInv => TypeOK
  BY DEF IndInv
<1> QED
  BY <1>1, Invariance, PTL

\* However many processes start on one database, in whatever order, and whichever
\* of them fail or die: the administrator and every migration are there once.
THEOREM InitialisesOnce == Spec => []InitialisedOnce
<1>1. IndInv => InitialisedOnce
  BY DEF IndInv, Initialising
<1> QED
  BY <1>1, Invariance, PTL

\* A process that serves has an initialised database, a parser and an adapter,
\* whatever requests unloaded.
THEOREM ServesReady == Spec => []ServingMeansReady
<1>1. IndInv => ServingMeansReady
  BY DEF IndInv, Initialising, InOrder, Orderly, ServingMeansReady
<1> QED
  BY <1>1, Invariance, PTL

\* In the order of the shutdown nothing is closed under something that runs.
THEOREM ClosesInOrder == Spec => []NothingUsedAfterClose
<1>1. ASSUME IndInv, NEW p \in Procs, how[p] # "failure"
      PROVE  /\ "collector" \in up[p] => "db" \in up[p]
             /\ up[p] \intersect {"telemetry", "command"} # {} => "bus" \in up[p]
             /\ Running(p, Requests) # {} =>
                  {"db", "bus", "collector", "telemetry", "command"} \subseteq up[p]
  <2>1. up[p] = UpAt[stage[p]] /\ stage[p] \in DOMAIN UpAt
    BY <1>1 DEF IndInv, InOrder, Orderly, TypeOK
  <2>2. Running(p, Requests) # {} => stage[p] \in {"http", "serving", "shutdown", "grpcStop"}
    BY <1>1 DEF IndInv, Serves, MayServe, Running
  <2>3. \A s \in DOMAIN UpAt : "collector" \in UpAt[s] => "db" \in UpAt[s]
    BY DEF UpAt, Components
  <2>4. \A s \in DOMAIN UpAt : "telemetry" \in UpAt[s] \/ "command" \in UpAt[s] => "bus" \in UpAt[s]
    BY DEF UpAt, Components
  <2>5. \A s \in {"http", "serving", "shutdown", "grpcStop"} :
          {"db", "bus", "collector", "telemetry", "command"} \subseteq UpAt[s]
    BY DEF UpAt, Components
  <2> QED
    BY <2>1, <2>2, <2>3, <2>4, <2>5
<1>2. IndInv => NothingUsedAfterClose
  BY <1>1 DEF NothingUsedAfterClose
<1> QED
  BY <1>2, Invariance, PTL

\* A process that does not crash leaves no reading in memory, also when a
\* component failed to start or a listener failed.
THEOREM BillsAtExit == Spec => []BilledAtExit
<1>1. IndInv => BilledAtExit
  BY DEF IndInv, Emptied
<1> QED
  BY <1>1, Invariance, PTL
=============================================================================
