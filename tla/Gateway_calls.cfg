\* What the comment of the metering middleware promises.
SPECIFICATION Spec
CONSTANTS
  Users = {"root", "eve"}
  Clients = {"sat", "new"}
  FirstClients = {"sat"}
  Roles <- MCRoles
  Tenant <- MCTenant
  SignedIn = {"root"}
  FirstUsers = {"root", "eve"}
  Requests = {1, 2}
  Calls <- MCCalls
  Life = 1
  MaxNow = 1
INVARIANT CallsAttributed
CONSTRAINT Distinct
CHECK_DEADLOCK FALSE
