--------------------------- MODULE DatabaseSetup ---------------------------
(***************************************************************************)
(* What a process does to the database before it serves: the tables of     *)
(* the users and the clients, the first administrator, the migrations      *)
(* (internal/auth, internal/storage, as main calls them).  Processes that  *)
(* share a database - PostgreSQL, or one SQLite file - start as they will: *)
(* every statement is a step, a migration is a transaction.  Any of them   *)
(* may fail, and then the process does not start.                          *)
(***************************************************************************)
EXTENDS Naturals, FiniteSets

CONSTANTS
  Procs,      \* the processes
  Versions    \* the versions of the migrations, numbers

ASSUME VersionsAssumption == Versions \subseteq Nat

VARIABLES
  setup,      \* the statement each process is at
  seen,       \* the versions each process takes for applied
  admins,     \* rows of the table users; the name is unique
  applied,    \* rows of the table schema_migrations
  ran         \* how often the statements of each migration were committed

setupVars == <<setup, seen, admins, applied, ran>>

SetupInit ==
  /\ setup = [p \in Procs |-> "off"] /\ seen = [p \in Procs |-> {}]
  /\ admins = 0 /\ applied = {} /\ ran = [v \in Versions |-> 0]

Goto(p, from, to) == setup[p] = from /\ setup' = [setup EXCEPT ![p] = to]

\* CREATE TABLE IF NOT EXISTS, of the users and of the clients.
CreateTables(p) == Goto(p, "tables", "admin") /\ UNCHANGED <<seen, admins, applied, ran>>

\* EnsureDefaultAdmin lists the users, and is content with any ...
ListUsers(p) ==
  /\ Goto(p, "admin", IF admins = 0 THEN "create" ELSE "versions")
  /\ UNCHANGED <<seen, admins, applied, ran>>

\* ... or creates the administrator, which fails when another process has.
CreateAdmin(p) ==
  /\ IF admins = 0 THEN Goto(p, "create", "versions") /\ admins' = 1
                   ELSE Goto(p, "create", "failed") /\ UNCHANGED admins
  /\ UNCHANGED <<seen, applied, ran>>

\* Migrate creates its table, and reads which versions are applied ...
ReadVersions(p) ==
  /\ Goto(p, "versions", "migrate")
  /\ seen' = [seen EXCEPT ![p] = applied]
  /\ UNCHANGED <<admins, applied, ran>>

Pending(p) == Versions \ seen[p]

\* ... sorts the others, and takes the lowest.
Due(p, v) == v \in Pending(p) /\ \A w \in Pending(p) : v <= w

\* The version is recorded when it is not yet there, the statements run anyway.
Apply_Anyway(p) ==
  \E v \in Versions :
    /\ Due(p, v) /\ Goto(p, "migrate", "migrate")
    /\ seen' = [seen EXCEPT ![p] = @ \union {v}]
    /\ applied' = applied \union {v} /\ ran' = [ran EXCEPT ![v] = @ + 1]
    /\ UNCHANGED admins

\* The statements and the INSERT of the version commit together; the INSERT
\* fails when another process has applied the migration since.
Apply(p) ==
  \E v \in Versions :
    /\ Due(p, v)
    /\ IF v \in applied
       THEN Goto(p, "migrate", "failed") /\ UNCHANGED <<seen, applied, ran>>
       ELSE /\ Goto(p, "migrate", "migrate")
            /\ seen' = [seen EXCEPT ![p] = @ \union {v}]
            /\ applied' = applied \union {v} /\ ran' = [ran EXCEPT ![v] = @ + 1]
    /\ UNCHANGED admins

Migrated(p) ==
  /\ Pending(p) = {} /\ Goto(p, "migrate", "ready")
  /\ UNCHANGED <<seen, admins, applied, ran>>

\* A statement fails: the database is busy, or gone.
StatementFails(p) ==
  /\ setup[p] \in {"tables", "admin", "create", "versions", "migrate"}
  /\ Goto(p, setup[p], "failed") /\ UNCHANGED <<seen, admins, applied, ran>>

SetupStep(p) ==
  \/ CreateTables(p) \/ ListUsers(p) \/ CreateAdmin(p)
  \/ ReadVersions(p) \/ Apply(p) \/ Migrated(p) \/ StatementFails(p)

-----------------------------------------------------------------------------
(* Properties.                                                             *)

SetupTypeOK ==
  /\ setup \in [Procs -> {"off", "tables", "admin", "create", "versions", "migrate",
                          "ready", "failed"}]
  /\ seen \in [Procs -> SUBSET Versions] /\ applied \subseteq Versions
  /\ admins \in Nat /\ ran \in [Versions -> Nat]

\* However many processes start, fail, die and start again: there is one
\* administrator, the statements of a migration were committed once and with its
\* version, and never before those of a lower version.
InitialisedOnce ==
  /\ admins <= 1
  /\ \A v \in Versions : ran[v] = IF v \in applied THEN 1 ELSE 0
  /\ \A v \in applied, w \in Versions : w <= v => w \in applied
=============================================================================
