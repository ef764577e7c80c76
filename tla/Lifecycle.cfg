\* Two processes on one database, two migrations, five plugins of which one
\* fails to start, one request over HTTP and one stream over gRPC.
SPECIFICATION FairSpec
CONSTANTS
  Procs = {"a", "b"}
  Versions = {1, 2}
  Plugins = {"json", "tle", "mock", "dummy", "bad"}
  Manifests = {"dummy"}
  Broken = {"bad"}
  Globals <- MCGlobals
  HttpRequests = {"h"}
  GrpcRequests = {"g"}
  Home <- MCHome
  About = {"json", "dummy"}
  MaxCrashes = 1
INVARIANTS
  InitialisedOnce
  ServingMeansReady
  NothingUsedAfterClose
  

  
CHECK_DEADLOCK FALSE
