\* Three requests, of an administrator and of a client whose tokens last one tick.
SPECIFICATION Spec
CONSTANTS
  Users = {"root", "eve"}
  Clients = {"sat", "new"}
  FirstClients = {"sat"}
  Roles <- MCRoles
  Tenant <- MCTenant
  SignedIn = {"root"}
  FirstUsers = {"root", "eve"}
  Requests = {1, 2, 3}
  Calls <- MCCalls
  Life = 1
  MaxNow = 1
INVARIANTS
  RevokedKeyIsUseless
  IngestAttributed
  
PROPERTIES
  RefusedChangesNothing
CONSTRAINT Distinct
CHECK_DEADLOCK FALSE
