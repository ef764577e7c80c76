------------------------------ MODULE Gateway ------------------------------
(***************************************************************************)
(* A request on its way through the layers main puts around the handlers:  *)
(* the metering middleware, the authentication and the permission of its   *)
(* route (internal/api/rest/router.go, internal/auth), the handler, and    *)
(* the metering again; or, on gRPC, the interceptor and the handler.       *)
(* Other requests create and delete users, create and revoke clients, and  *)
(* have tokens issued meanwhile.  Every statement on a table is a step.    *)
(* Tokens carry what their subject was when it signed in; nothing looks    *)
(* at the tables again while a token lasts.  Signatures, hashes and the    *)
(* bodies of requests and answers are left out.                            *)
(***************************************************************************)
EXTENDS Naturals

CONSTANTS
  Users, Clients,   \* the names of users and the ids of clients that rows may have
  Roles, Tenant,    \* of each user and client: roles, community
  FirstUsers, FirstClients,   \* the rows at the start
  SignedIn,         \* those who have a token then
  Requests, Calls,  \* the requests, and what each may ask for
  Life, MaxNow      \* how long a token lasts; the bound of the clock

None == "none"

\* Identities are unique, and no identity is the empty one; users and clients are
\* managed over REST.
ASSUME IdentityAssumption ==
  /\ Users \intersect Clients = {} /\ None \notin Users \union Clients
  /\ FirstUsers \subseteq Users /\ FirstClients \subseteq Clients
  /\ SignedIn \subseteq Users \union Clients
  /\ \A call \in Calls :
       /\ call.op \in {"login", "createUser"} => call.arg \in Users
       /\ call.op = "revokeClient" => call.arg \in Clients
       /\ call.op \in {"createUser", "deleteUser", "createClient", "revokeClient"}
            => call.api = "rest"
  /\ Life \in Nat /\ MaxNow \in Nat

VARIABLES
  now,
  users,     \* rows of the table users
  clients,   \* status of each row of the table clients, None without a row
  issued,    \* the tokens that were handed out
  req,       \* each request
  readings   \* what went to the usage collector

vars == <<now, users, clients, issued, req, readings>>
tables == <<users, clients>>

NoCred == [kind |-> None, sub |-> None, exp |-> 0]
NoCall == [api |-> None, op |-> None, arg |-> None]

Init ==
  /\ now = 0
  /\ users = FirstUsers
  /\ clients = [c \in Clients |-> IF c \in FirstClients THEN "active" ELSE None]
  /\ issued = {[kind |-> "token", sub |-> p, exp |-> Life] : p \in SignedIn} /\ readings = {}
  /\ req = [r \in Requests |-> [at |-> "idle", call |-> NoCall, cred |-> NoCred,
                                sub |-> None, status |-> 0, gone |-> {}]]

Tick == now < MaxNow /\ now' = now + 1 /\ UNCHANGED <<tables, issued, req, readings>>

-----------------------------------------------------------------------------
(* The tables of SQLiteUserStore and SQLiteClientStore: a statement each.  *)

Gone == {c \in Clients : clients[c] = "revoked"}

HasUser(u) == u \in users
InsertUser(u) == u \notin users /\ users' = users \union {u} /\ UNCHANGED clients
RemoveUser(u) == users' = users \ {u} /\ UNCHANGED clients

HasClient(c) == clients[c] # None
ListedClients == {c \in Clients : HasClient(c)}
InsertClient(c) ==
  ~HasClient(c) /\ clients' = [clients EXCEPT ![c] = "active"] /\ UNCHANGED users
UpdateClient(c, status) ==
  HasClient(c) /\ clients' = [clients EXCEPT ![c] = status] /\ UNCHANGED users

-----------------------------------------------------------------------------
(* Roles and routes.                                                       *)

ViewerPermissions == {"node.read", "graph.query", "event.subscribe", "event.replay"}
OperatorPermissions == ViewerPermissions \union
  {"node.create", "node.update", "relationship.create", "event.publish", "command.send"}
AdminPermissions == OperatorPermissions \union
  {"node.delete", "relationship.delete", "plugin.manage", "user.manage"}

HasPermission(p, perm) ==
  \/ "admin" \in Roles[p] /\ perm \in AdminPermissions
  \/ "operator" \in Roles[p] /\ perm \in OperatorPermissions
  \/ "viewer" \in Roles[p] /\ perm \in ViewerPermissions

\* What a route asks of a request: nothing, an identity, or a permission.
Open   == {"login", "token", "health"}
NeedsIdentity == {"refresh", "me", "ingest"}
Permission(op) ==
  CASE op \in {"listUsers", "getUser", "createUser", "deleteUser",
               "listClients", "getClient", "createClient", "revokeClient"} -> "user.manage"
    [] op = "readNode"   -> "node.read"
    [] op = "deleteNode" -> "node.delete"
    [] op = "command"    -> "command.send"
    [] OTHER             -> "plugin.manage"

-----------------------------------------------------------------------------
(* Credentials: none, the key of a client, a token.                        *)

Key(c)        == [kind |-> "key", sub |-> c, exp |-> 0]
Token(p, t)   == [kind |-> "token", sub |-> p, exp |-> t + Life]
Parses(cred)  == cred.kind = "token" /\ now < cred.exp

Renewed(cred) == Token(cred.sub, now)   \* also of a token that has expired

\* The row of a revoked client still matches its key.
KeyMatches_Revoked(cred) == cred.kind = "key" /\ cred.sub \in ListedClients

\* ExchangeAPIKey looks for the key in the rows that are not revoked.
KeyMatches(cred) ==
  cred.kind = "key" /\ cred.sub \in ListedClients /\ clients[cred.sub] # "revoked"

Set(r, f) == req' = [req EXCEPT ![r] = f]
Reply(r, status) == Set(r, [req[r] EXCEPT !.at = "replied", !.status = status])
Goto(r, at, sub) == Set(r, [req[r] EXCEPT !.at = at, !.sub = sub])

\* What callers were given: keys when clients were created, tokens.
Credentials == {NoCred} \union issued \union {Key(c) : c \in ListedClients}

\* A request arrives, at the metering middleware or at the interceptor.
Arrive(r) ==
  /\ req[r].at = "idle"
  /\ \E call \in Calls, cred \in Credentials :
       Set(r, [at |-> "arrived", call |-> call, cred |-> cred, sub |-> None,
               status |-> 0, gone |-> Gone])
  /\ UNCHANGED <<now, tables, issued, readings>>

-----------------------------------------------------------------------------
(* Authentication and permission.                                          *)

\* The permission is looked at after the handler.
Admit_Late(r, p) == Goto(r, "handler", p)

\* RequirePermission, on the routes that have it; the gRPC server asks for an
\* identity only.
Admit(r, p) ==
  IF \/ req[r].call.api = "grpc" \/ req[r].call.op \in NeedsIdentity
     \/ HasPermission(p, Permission(req[r].call.op))
  THEN Goto(r, "handler", p)
  ELSE Reply(r, 403)

\* APIAuthMiddleware: a token that parses, or a key that matches, or 401 - also
\* when the query for the keys fails.
Authenticate(r) ==
  /\ req[r].at = "arrived" /\ req[r].call.api = "rest"
  /\ LET cred == req[r].cred IN
     IF req[r].call.op \in Open THEN Goto(r, "handler", None)
     ELSE \/ Parses(cred) /\ Admit(r, cred.sub)
          \/ KeyMatches(cred) /\ Goto(r, "sign", cred.sub)
          \/ ~Parses(cred) /\ Reply(r, 401)
  /\ UNCHANGED <<now, tables, issued, readings>>

\* AuthInterceptor.authenticate; no method is open.
GrpcAuthenticate(r) ==
  /\ req[r].at = "arrived" /\ req[r].call.api = "grpc"
  /\ LET cred == req[r].cred IN
       \/ Parses(cred) /\ Admit(r, cred.sub)
       \/ KeyMatches(cred) /\ Goto(r, "sign", cred.sub)
       \/ ~Parses(cred) /\ Reply(r, 401)
  /\ UNCHANGED <<now, tables, issued, readings>>

\* A token is signed for the row that was read, and parsed on the spot.
SignForKey(r) ==
  /\ req[r].at = "sign"
  /\ Admit(r, req[r].sub)
  /\ UNCHANGED <<now, tables, issued, readings>>

-----------------------------------------------------------------------------
(* The handlers.  arg is the user or the client a call is about.           *)

Handling(r, op) == req[r].at = "handler" /\ req[r].call.op = op
Arg(r) == req[r].call.arg

\* Login reads the row; there is none, or the password is another ...
Login(r) ==
  /\ Handling(r, "login")
  /\ \/ HasUser(Arg(r)) /\ Goto(r, "issue", Arg(r))
     \/ Reply(r, 401)
  /\ UNCHANGED <<now, tables, issued, readings>>

\* ExchangeToken looks for the client of a key ...
ExchangeToken(r) ==
  /\ Handling(r, "token")
  /\ IF KeyMatches(req[r].cred) THEN Goto(r, "issue", req[r].cred.sub)
     ELSE Reply(r, 401)
  /\ UNCHANGED <<now, tables, issued, readings>>

\* ... and both sign for what they read.
Issue(r) ==
  /\ req[r].at = "issue"
  /\ issued' = issued \union {Token(req[r].sub, now)}
  /\ Reply(r, 200)
  /\ UNCHANGED <<now, tables, readings>>

\* A token, even one that expired since it was parsed, is signed anew; a key
\* in its place is refused.
RefreshToken(r) ==
  /\ Handling(r, "refresh")
  /\ IF req[r].cred.kind = "token"
     THEN Reply(r, 200) /\ issued' = issued \union {Renewed(req[r].cred)}
     ELSE Reply(r, 401) /\ UNCHANGED issued
  /\ UNCHANGED <<now, tables, readings>>

\* A second user of the same name fails.
CreateUser(r) ==
  /\ Handling(r, "createUser")
  /\ \/ InsertUser(Arg(r)) /\ Reply(r, 201)
     \/ HasUser(Arg(r)) /\ Reply(r, 400) /\ UNCHANGED tables
  /\ UNCHANGED <<now, issued, readings>>

\* A DELETE, of a row or of none.
DeleteUser(r) ==
  /\ Handling(r, "deleteUser")
  /\ RemoveUser(Arg(r)) /\ Reply(r, 204)
  /\ UNCHANGED <<now, issued, readings>>

\* Every client gets an id that was not in use.
CreateClient(r) ==
  /\ Handling(r, "createClient")
  /\ \E c \in Clients : InsertClient(c)
  /\ Reply(r, 201)
  /\ UNCHANGED <<now, issued, readings>>

\* RevokeClient reads the row ...
RevokeRead(r) ==
  /\ Handling(r, "revokeClient")
  /\ IF HasClient(Arg(r)) THEN Goto(r, "revoke", req[r].sub) ELSE Reply(r, 404)
  /\ UNCHANGED <<now, tables, issued, readings>>

\* ... and writes it back, revoked and without its key.
RevokeWrite(r) ==
  /\ req[r].at = "revoke"
  /\ UpdateClient(Arg(r), "revoked")
  /\ Reply(r, 204)
  /\ UNCHANGED <<now, issued, readings>>

GetUser(r) ==
  /\ Handling(r, "getUser")
  /\ Reply(r, IF HasUser(Arg(r)) THEN 200 ELSE 404)
  /\ UNCHANGED <<now, tables, issued, readings>>

GetClient(r) ==
  /\ Handling(r, "getClient")
  /\ Reply(r, IF HasClient(Arg(r)) THEN 200 ELSE 404)
  /\ UNCHANGED <<now, tables, issued, readings>>

\* The row of a user who is there, or else what the token says.
GetMe(r) ==
  /\ Handling(r, "me")
  /\ Reply(r, 200)
  /\ UNCHANGED <<now, tables, issued, readings>>

\* The reading is taken from the outer request.
Ingest_Outer(r) ==
  /\ Handling(r, "ingest")
  /\ readings' = readings \union {[of |-> r, unit |-> "frames", tenant |-> None]}
  /\ Reply(r, 202)
  /\ UNCHANGED <<now, tables, issued>>

\* IngestTelemetry counts its frames for the tenant of the request's claims.
Ingest(r) ==
  /\ Handling(r, "ingest")
  /\ readings' = readings \union {[of |-> r, unit |-> "frames",
                                   tenant |-> Tenant[req[r].sub]]}
  /\ Reply(r, 202)
  /\ UNCHANGED <<now, tables, issued>>

\* The handlers of other components; and any handler may fail, or panic and be
\* recovered.
Work(r) ==
  /\ req[r].at \in {"handler", "issue", "revoke"}
  /\ \/ Reply(r, 500)
     \/ /\ req[r].call.op \in {"health", "listUsers", "listClients",
                               "readNode", "deleteNode", "command"}
        /\ Reply(r, 200)
  /\ UNCHANGED <<now, tables, issued, readings>>

Handle(r) ==
  \/ Login(r) \/ ExchangeToken(r) \/ Issue(r) \/ RefreshToken(r)
  \/ CreateUser(r) \/ DeleteUser(r) \/ CreateClient(r) \/ RevokeRead(r) \/ RevokeWrite(r)
  \/ GetUser(r) \/ GetClient(r) \/ GetMe(r) \/ Ingest(r) \/ Work(r)

-----------------------------------------------------------------------------
\* Only answers without an error are counted.
Meter_Successes(r) ==
  /\ req[r].at = "replied"
  /\ Set(r, [req[r] EXCEPT !.at = "done"])
  /\ readings' = IF req[r].call.api = "rest" /\ req[r].status < 400
                 THEN readings \union {[of |-> r, unit |-> "calls", tenant |-> None]}
                 ELSE readings
  /\ UNCHANGED <<now, tables, issued>>

\* The metering middleware, when the handler has returned: one call, for the
\* identity in the context of the request it was given - the outer one, which
\* never carries claims.  On gRPC nothing counts calls.
Meter(r) ==
  /\ req[r].at = "replied"
  /\ Set(r, [req[r] EXCEPT !.at = "done"])
  /\ readings' = IF req[r].call.api = "rest"
                 THEN readings \union {[of |-> r, unit |-> "calls", tenant |-> None]}
                 ELSE readings
  /\ UNCHANGED <<now, tables, issued>>

Step(r) == Authenticate(r) \/ GrpcAuthenticate(r) \/ SignForKey(r) \/ Handle(r) \/ Meter(r)

Next == Tick \/ \E r \in Requests : Arrive(r) \/ Step(r)

Spec == Init /\ [][Next]_vars

-----------------------------------------------------------------------------
(* Properties.                                                             *)

Tokens == [kind : {"token"}, sub : Users \union Clients, exp : 0..(MaxNow + Life)]
Stages == {"idle", "arrived", "sign", "handler", "issue", "revoke", "replied", "done"}
ReqStates ==
  [at : Stages, call : Calls \union {NoCall},
   cred : Tokens \union {Key(c) : c \in Clients} \union {NoCred},
   sub : Users \union Clients \union {None}, status : Nat, gone : SUBSET Clients]

TypeOK ==
  /\ now \in 0..MaxNow
  /\ users \subseteq Users /\ clients \in [Clients -> {None, "active", "revoked"}]
  /\ issued \subseteq Tokens
  /\ req \in [Requests -> ReqStates]
  /\ \A m \in readings : m.of \in Requests

\* A client that was revoked before a request came is not the subject of it,
\* and gets no token from it, by its key: only a token can outlast it.
RevokedKeyIsUseless ==
  \A r \in Requests : req[r].sub \in req[r].gone => req[r].cred.kind = "token"

\* A table changes only on behalf of someone who may manage users, and a
\* request that ends in 401 or 403 changed nothing on its way, not even in the
\* step that refuses it.
RefusedChangesNothing ==
  [][\A r \in Requests : req'[r] # req[r] =>
       /\ tables' # tables => HasPermission(req[r].sub, "user.manage")
       /\ req'[r].at = "replied" /\ req'[r].status \in {401, 403}
            => UNCHANGED <<tables, issued, readings>>]_vars

\* Frames are counted for the tenant of whoever sent them, over REST and gRPC,
\* with a token and with a key.
IngestAttributed ==
  \A m \in readings : m.unit = "frames" => m.tenant = Tenant[req[m.of].cred.sub]

\* Every call over REST that has ended is counted, also one that was refused,
\* failed, or panicked.
EveryCallCounted ==
  \A r \in Requests : req[r].at = "done" /\ req[r].call.api = "rest" =>
    \E m \in readings : m.of = r /\ m.unit = "calls"

\* What the comment of HTTPMiddleware says: a call is counted for the tenant
\* of the one who made it.
CallsAttributed ==
  \A m \in readings : m.unit = "calls" /\ req[m.of].status < 400 =>
    req[m.of].sub = None \/ m.tenant = Tenant[req[m.of].sub]
=============================================================================
