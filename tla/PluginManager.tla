--------------------------- MODULE PluginManager ---------------------------
(***************************************************************************)
(* The plugin manager (internal/plugin/manager.go): the instances and the  *)
(* registries of the extension points, as a value m and what the methods   *)
(* make of it.  Each method holds the manager's lock, so it is one step of *)
(* whoever calls it.                                                       *)
(***************************************************************************)
EXTENDS Naturals, FiniteSets

CONSTANTS
  Plugins,     \* names
  Manifests,   \* the names that have a manifest in the directory
  Broken,      \* the names that have one that does not load
  Globals      \* <<kind, name>>: what init functions registered

Kinds == {"parser", "adapter", "sub", "hook"}

Managers ==
  [status : [Plugins -> {"absent", "loaded", "error", "started", "stopped"}],
   reg    : SUBSET (Kinds \X Plugins)]

NoPlugins == [status |-> [n \in Plugins |-> "absent"], reg |-> {}]

\* LoadManifest reads a file of the directory, and Validate looks at it; of one
\* that fails the manager keeps the error.
Loads(n) == n \in Manifests \ Broken

\* LoadFromDirectory: an instance for every manifest, instead of any before it.
LoadedFromDirectory(m) ==
  [m EXCEPT !.status = [n \in Plugins |-> IF Loads(n) THEN "loaded"
                                          ELSE IF n \in Broken THEN "error" ELSE @[n]]]

\* RegisterParser, RegisterAdapter and the others, for each <<kind, name>> of S.
Registered(m, S) ==
  [status |-> [n \in Plugins |-> IF m.status[n] = "absent" /\ \E k \in Kinds : <<k, n>> \in S
                                 THEN "loaded" ELSE m.status[n]],
   reg    |-> m.reg \union S]

\* LoadGlobals: what the init functions put into the registry of the package is
\* registered under the same names.
WithGlobals(m) == Registered(m, Globals)

\* StartAll and StopAll, also of what failed to load.
AllBecome(m, s) ==
  [m EXCEPT !.status = [n \in Plugins |-> IF @[n] = "absent" THEN "absent" ELSE s]]

\* Unload, of an instance that is there.
Unloaded(m, n) ==
  [status |-> [m.status EXCEPT ![n] = "absent"], reg |-> {e \in m.reg : e[2] # n}]

\* GetParser and GetAdapter.
Offers(m, kind, n) == <<kind, n>> \in m.reg
=============================================================================
