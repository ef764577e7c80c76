---------------------------- MODULE GatewayProofs ----------------------------
(***************************************************************************)
(* Proofs about Gateway, for any users, clients, roles, calls and number   *)
(* of requests, whose steps interleave as they may.                        *)
(***************************************************************************)
EXTENDS Gateway, TLAPS

Managing == {"createUser", "deleteUser", "createClient", "revokeClient"}

\* What is known of a request on its way.
OnItsWay(r) ==
  /\ req[r].at # "idle" => req[r].call \in Calls
  /\ req[r].at = "issue" => req[r].sub # None
  /\ req[r].at \in {"sign", "handler"} /\ req[r].call.op \notin Open => req[r].sub = req[r].cred.sub
  /\ req[r].at = "revoke" => req[r].call.op = "revokeClient"
  /\ req[r].at \in {"handler", "revoke"} /\ req[r].call.op \in Managing
       => HasPermission(req[r].sub, "user.manage")
  /\ req[r].gone \subseteq Gone
  /\ req[r].sub \in req[r].gone => req[r].cred.kind = "token"

\* What is known of the readings.
Read ==
  /\ EveryCallCounted /\ IngestAttributed
  /\ \A m \in readings : req[m.of].at # "idle"

IndInv == TypeOK /\ (\A r \in Requests : OnItsWay(r)) /\ Read

-----------------------------------------------------------------------------
\* A step of r goes on to another stage, with another subject and status; the
\* call, the credential, and what was gone when it arrived stay.
Advances(r, a, p, n) ==
  /\ req' \in [Requests -> ReqStates]
  /\ \A q \in Requests : q # r => req'[q] = req[q]
  /\ req'[r].at = a /\ req'[r].sub = p /\ req'[r].status = n
  /\ req'[r].call = req[r].call /\ req'[r].cred = req[r].cred /\ req'[r].gone = req[r].gone

LEMMA GotoAdvances ==
  ASSUME TypeOK, NEW r \in Requests, NEW a \in Stages,
         NEW p \in Users \union Clients \union {None}, Goto(r, a, p)
  PROVE  Advances(r, a, p, req[r].status)
<1> DEFINE f == [req[r] EXCEPT !.at = a, !.sub = p]
<1>1. req \in [Requests -> ReqStates] /\ req[r] \in ReqStates
  BY DEF TypeOK
<1>2. /\ f \in ReqStates /\ f.at = a /\ f.sub = p /\ f.status = req[r].status
      /\ f.call = req[r].call /\ f.cred = req[r].cred /\ f.gone = req[r].gone
  BY <1>1 DEF ReqStates
<1>3. req' = [req EXCEPT ![r] = f]
  BY DEF Goto, Set
<1> HIDE DEF f
<1> QED
  BY <1>1, <1>2, <1>3 DEF Advances

LEMMA ReplyAdvances ==
  ASSUME TypeOK, NEW r \in Requests, NEW n \in Nat, Reply(r, n)
  PROVE  Advances(r, "replied", req[r].sub, n)
<1> DEFINE f == [req[r] EXCEPT !.at = "replied", !.status = n]
<1>1. req \in [Requests -> ReqStates] /\ req[r] \in ReqStates
  BY DEF TypeOK
<1>2. /\ f \in ReqStates /\ f.at = "replied" /\ f.sub = req[r].sub /\ f.status = n
      /\ f.call = req[r].call /\ f.cred = req[r].cred /\ f.gone = req[r].gone
  BY <1>1 DEF ReqStates, Stages
<1>3. req' = [req EXCEPT ![r] = f]
  BY DEF Reply, Set
<1> HIDE DEF f
<1> QED
  BY <1>1, <1>2, <1>3 DEF Advances

\* A request that is admitted goes on as p, to a handler it has the permission
\* for, or is refused.
LEMMA AdmitAdvances ==
  ASSUME TypeOK, NEW r \in Requests, NEW p \in Users \union Clients \union {None},
         req[r].call \in Calls, Admit(r, p)
  PROVE  \/ /\ Advances(r, "handler", p, req[r].status)
            /\ req[r].call.op \in Managing => HasPermission(p, "user.manage")
         \/ Advances(r, "replied", req[r].sub, 403)
<1> DEFINE permitted == \/ req[r].call.api = "grpc" \/ req[r].call.op \in NeedsIdentity
                        \/ HasPermission(p, Permission(req[r].call.op))
<1>1. CASE permitted
  <2>1. Advances(r, "handler", p, req[r].status)
    BY <1>1, GotoAdvances DEF Stages, Admit
  <2>2. ASSUME req[r].call.op \in Managing PROVE HasPermission(p, "user.manage")
    <3>1. req[r].call.api = "rest"
      BY <2>2, IdentityAssumption DEF Managing
    <3>2. req[r].call.op \notin NeedsIdentity /\ Permission(req[r].call.op) = "user.manage"
      BY <2>2 DEF Managing, NeedsIdentity, Permission
    <3> QED
      BY <1>1, <3>1, <3>2
  <2> QED
    BY <2>1, <2>2
<1>2. CASE ~permitted
  BY <1>2, ReplyAdvances DEF Admit
<1> QED
  BY <1>1, <1>2

\* Authentication finds the subject of the credential.  One that a key finds has
\* not been revoked.
LEMMA Authenticates ==
  ASSUME TypeOK, NEW r \in Requests, req[r].call \in Calls,
         Authenticate(r) \/ GrpcAuthenticate(r)
  PROVE  /\ req[r].at = "arrived" /\ UNCHANGED <<now, tables, issued, readings>>
         /\ \/ req[r].call.op \in Open /\ Advances(r, "handler", None, req[r].status)
               /\ req[r].call.op \notin Managing
            \/ /\ req[r].cred.kind = "token" \/ req[r].cred.sub \notin Gone
               /\ \/ Advances(r, "sign", req[r].cred.sub, req[r].status)
                  \/ /\ Advances(r, "handler", req[r].cred.sub, req[r].status)
                     /\ req[r].call.op \in Managing => HasPermission(req[r].cred.sub, "user.manage")
            \/ \E n \in {401, 403} : Advances(r, "replied", req[r].sub, n)
<1> DEFINE cred == req[r].cred
<1>1. cred.sub \in Users \union Clients \union {None}
  BY DEF TypeOK, Tokens, Key, NoCred, ReqStates
<1>2. req[r].at = "arrived" /\ UNCHANGED <<now, tables, issued, readings>>
  BY DEF Authenticate, GrpcAuthenticate
<1>3. CASE Goto(r, "handler", None) /\ req[r].call.op \in Open
  BY <1>2, <1>3, GotoAdvances DEF Stages, Open, Managing
<1>4. CASE Parses(cred) /\ Admit(r, cred.sub)
  BY <1>1, <1>2, <1>4, AdmitAdvances DEF Parses
<1>5. CASE KeyMatches(cred) /\ Goto(r, "sign", cred.sub)
  <2>1. cred.sub \notin Gone
    BY <1>5 DEF KeyMatches, Gone
  <2>2. Advances(r, "sign", cred.sub, req[r].status)
    BY <1>1, <1>5, GotoAdvances DEF Stages
  <2> QED
    BY <1>2, <2>1, <2>2
<1>6. CASE Reply(r, 401)
  BY <1>2, <1>6, ReplyAdvances
<1> QED
  BY <1>3, <1>4, <1>5, <1>6 DEF Authenticate, GrpcAuthenticate

\* A client that was revoked stays revoked.
LEMMA GoneStays ==
  ASSUME TypeOK, \/ UNCHANGED clients
                 \/ \E c \in Clients : InsertClient(c) \/ UpdateClient(c, "revoked")
  PROVE  Gone \subseteq Gone' /\ clients' \in [Clients -> {None, "active", "revoked"}]
BY DEF TypeOK, Gone, InsertClient, UpdateClient, HasClient, None

\* What a handler does: it goes on for the same subject or the one it has just
\* authenticated, or it replies; what it changes, and what it is refused for.
LEMMA Handles ==
  ASSUME TypeOK, NEW r \in Requests, OnItsWay(r), Handle(r)
  PROVE  /\ req[r].at \in {"handler", "issue", "revoke"} /\ now' = now
         /\ \/ \E n \in Nat : /\ Advances(r, "replied", req[r].sub, n)
                              /\ n \in {401, 403} => UNCHANGED <<tables, issued, readings>>
            \/ \E p \in Users \union Clients :
                 /\ Advances(r, "issue", p, req[r].status)
                 /\ p \in Users \/ p \notin Gone
            \/ /\ Advances(r, "revoke", req[r].sub, req[r].status)
               /\ req[r].at = "handler" /\ req[r].call.op = "revokeClient"
         /\ users' \subseteq Users /\ issued' \subseteq Tokens
         /\ \/ UNCHANGED clients
            \/ \E c \in Clients : InsertClient(c) \/ UpdateClient(c, "revoked")
         /\ tables' # tables => req[r].at \in {"handler", "revoke"} /\ req[r].call.op \in Managing
         /\ \/ UNCHANGED readings
            \/ /\ req[r].at = "handler" /\ req[r].call.op = "ingest"
               /\ readings' = readings \union {[of |-> r, unit |-> "frames",
                                                tenant |-> Tenant[req[r].sub]]}
<1> USE DEF Handling, Arg, tables
<1>1. CASE Login(r)
  <2>1. req[r].call \in Calls
    BY <1>1 DEF Login, OnItsWay
  <2>2. req[r].call.arg \in Users
    BY <1>1, <2>1, IdentityAssumption DEF Login
  <2> QED
    BY <1>1, <2>2, GotoAdvances, ReplyAdvances DEF Login, Stages, TypeOK
<1>2. CASE ExchangeToken(r)
  <2>1. CASE KeyMatches(req[r].cred)
    <3>1. req[r].cred.sub \in Clients \ Gone
      BY <2>1 DEF KeyMatches, ListedClients, Gone
    <3> QED
      BY <1>2, <2>1, <3>1, GotoAdvances DEF ExchangeToken, Stages, TypeOK
  <2>2. CASE ~KeyMatches(req[r].cred)
    BY <1>2, <2>2, ReplyAdvances DEF ExchangeToken, TypeOK
  <2> QED
    BY <2>1, <2>2
<1>3. CASE Issue(r)
  <2>1. Token(req[r].sub, now) \in Tokens
    BY <1>3, IdentityAssumption DEF Issue, OnItsWay, TypeOK, Token, Tokens, ReqStates
  <2> QED
    BY <1>3, <2>1, ReplyAdvances DEF Issue, TypeOK
<1>4. CASE RefreshToken(r)
  <2>1. req[r].cred.kind = "token" => Renewed(req[r].cred) \in Tokens
    BY IdentityAssumption DEF TypeOK, Renewed, Token, Tokens, Key, NoCred, None, ReqStates
  <2>2. CASE req[r].cred.kind = "token"
    BY <1>4, <2>1, <2>2, ReplyAdvances DEF RefreshToken, TypeOK
  <2>3. CASE req[r].cred.kind # "token"
    BY <1>4, <2>3, ReplyAdvances DEF RefreshToken, TypeOK
  <2> QED
    BY <2>2, <2>3
<1>5. CASE CreateUser(r)
  <2>1. req[r].call.arg \in Users
    BY <1>5, IdentityAssumption DEF CreateUser, OnItsWay
  <2> QED
    BY <1>5, <2>1, ReplyAdvances DEF CreateUser, InsertUser, TypeOK, Managing
<1>6. CASE DeleteUser(r)
  BY <1>6, ReplyAdvances DEF DeleteUser, RemoveUser, TypeOK, Managing
<1>7. CASE CreateClient(r)
  <2>1. \E c \in Clients : InsertClient(c)
    BY <1>7 DEF CreateClient
  <2>2. Advances(r, "replied", req[r].sub, 201)
    BY <1>7, ReplyAdvances DEF CreateClient
  <2>3. req[r].at = "handler" /\ req[r].call.op \in Managing
        /\ UNCHANGED <<now, users, issued, readings>>
    BY <1>7 DEF CreateClient, InsertClient, Managing
  <2> QED
    BY <2>1, <2>2, <2>3 DEF TypeOK
<1>8. CASE RevokeRead(r)
  <2>1. Goto(r, "revoke", req[r].sub) => Advances(r, "revoke", req[r].sub, req[r].status)
    BY GotoAdvances DEF TypeOK, Stages, ReqStates
  <2>2. /\ req[r].at = "handler" /\ req[r].call.op = "revokeClient"
        /\ UNCHANGED <<now, users, clients, issued, readings>>
    BY <1>8 DEF RevokeRead
  <2>3. Advances(r, "revoke", req[r].sub, req[r].status) \/ Advances(r, "replied", req[r].sub, 404)
    BY <1>8, <2>1, ReplyAdvances DEF RevokeRead
  <2> QED
    BY <2>2, <2>3 DEF TypeOK
<1>9. CASE RevokeWrite(r)
  <2>1. req[r].call.op = "revokeClient" /\ req[r].call.arg \in Clients
    BY <1>9, IdentityAssumption DEF RevokeWrite, OnItsWay
  <2>2. Advances(r, "replied", req[r].sub, 204)
    BY <1>9, ReplyAdvances DEF RevokeWrite
  <2>3. req[r].at = "revoke" /\ UNCHANGED <<now, users, issued, readings>>
        /\ UpdateClient(req[r].call.arg, "revoked")
    BY <1>9 DEF RevokeWrite, UpdateClient
  <2> QED
    BY <2>1, <2>2, <2>3 DEF TypeOK, Managing
<1>10. CASE GetUser(r) \/ GetClient(r) \/ GetMe(r) \/ Work(r)
  BY <1>10, ReplyAdvances DEF GetUser, GetClient, GetMe, Work, TypeOK
<1>11. CASE Ingest(r)
  BY <1>11, ReplyAdvances DEF Ingest, TypeOK
<1> QED
  BY <1>1, <1>2, <1>3, <1>4, <1>5, <1>6, <1>7, <1>8, <1>9, <1>10, <1>11 DEF Handle

\* The middleware counts the call it saw return.
LEMMA Meters ==
  ASSUME TypeOK, NEW r \in Requests, Meter(r)
  PROVE  /\ req[r].at = "replied" /\ Advances(r, "done", req[r].sub, req[r].status)
         /\ UNCHANGED <<now, users, clients, issued>>
         /\ readings \subseteq readings'
         /\ \A m \in readings' \ readings : m.of = r /\ m.unit = "calls"
         /\ req[r].call.api = "rest" =>
              \E m \in readings' : m.of = r /\ m.unit = "calls"
<1>1. req[r].at = "replied" /\ UNCHANGED <<now, users, clients, issued>>
  BY DEF Meter, tables
<1>2. Advances(r, "done", req[r].sub, req[r].status)
  BY DEF Meter, Set, Advances, TypeOK, Stages, ReqStates
<1>3. readings' = IF req[r].call.api = "rest"
                  THEN readings \union {[of |-> r, unit |-> "calls", tenant |-> None]}
                  ELSE readings
  BY DEF Meter
<1> DEFINE reading == [of |-> r, unit |-> "calls", tenant |-> None]
<1>4. reading.of = r /\ reading.unit = "calls"
  OBVIOUS
<1> HIDE DEF reading
<1>5. CASE req[r].call.api = "rest"
  <2>1. readings' = readings \union {reading}
    BY <1>3, <1>5 DEF reading
  <2> QED
    BY <1>1, <1>2, <1>4, <2>1
<1>6. CASE req[r].call.api # "rest"
  BY <1>1, <1>2, <1>3, <1>6
<1> QED
  BY <1>5, <1>6

\* A request arrives with one of the calls and a credential that was given out.
LEMMA Arrives ==
  ASSUME TypeOK, NEW r \in Requests, Arrive(r)
  PROVE  /\ req[r].at = "idle" /\ UNCHANGED <<now, users, clients, issued, readings>>
         /\ TypeOK' /\ \A q \in Requests : q # r => req'[q] = req[q]
         /\ req'[r].at = "arrived" /\ req'[r].call \in Calls /\ req'[r].sub = None
         /\ req'[r].gone = Gone
<1>1. PICK call \in Calls, cred \in Credentials :
        req' = [req EXCEPT ![r] = [at |-> "arrived", call |-> call, cred |-> cred,
                                   sub |-> None, status |-> 0, gone |-> Gone]]
  BY DEF Arrive, Set
<1>2. cred \in Tokens \union {Key(c) : c \in Clients} \union {NoCred}
  BY DEF Credentials, ListedClients, TypeOK
<1>3. Gone \subseteq Clients
  BY DEF Gone
<1>4. req[r].at = "idle" /\ UNCHANGED <<now, users, clients, issued, readings>>
  BY DEF Arrive, tables
<1>5. req' \in [Requests -> ReqStates]
  BY <1>1, <1>2, <1>3 DEF TypeOK, Stages, ReqStates
<1>6. TypeOK'
  BY <1>4, <1>5 DEF TypeOK, Stages
<1> QED
  BY <1>1, <1>4, <1>6 DEF TypeOK

-----------------------------------------------------------------------------
\* A request that goes on: those that do not are as they were, with more gone.
LEMMA StepKeeps ==
  ASSUME IndInv, NEW r \in Requests, Arrive(r) \/ Step(r)
  PROVE  TypeOK' /\ \A q \in Requests : OnItsWay(q)'
<1> USE DEF IndInv
<1>1. ASSUME Gone \subseteq Gone', \A q \in Requests : q # r => req'[q] = req[q]
      PROVE  \A q \in Requests : q # r => OnItsWay(q)'
  BY <1>1 DEF OnItsWay
<1>2. None \notin Clients /\ \A q \in Requests : req[q].gone \subseteq Clients
  BY IdentityAssumption DEF TypeOK, ReqStates
<1>3. CASE Arrive(r)
  <2>1. Gone' = Gone
    BY <1>3, Arrives DEF Gone
  <2>2. OnItsWay(r)'
    BY <1>2, <1>3, <2>1, Arrives DEF OnItsWay, Gone
  <2> QED
    BY <1>1, <1>3, <2>1, <2>2, Arrives
<1>4. CASE Authenticate(r) \/ GrpcAuthenticate(r)
  <2>1. req[r].call \in Calls
    BY <1>4 DEF OnItsWay, Authenticate, GrpcAuthenticate
  <2>2. TypeOK' /\ Gone' = Gone /\ (\A q \in Requests : q # r => req'[q] = req[q])
    BY <1>4, <2>1, Authenticates DEF Advances, TypeOK, tables, Gone, Stages
  <2>3. CASE req[r].call.op \in Open /\ Advances(r, "handler", None, req[r].status)
             /\ req[r].call.op \notin Managing
    BY <1>2, <2>1, <2>2, <2>3 DEF OnItsWay, Advances
  <2>4. CASE /\ req[r].cred.kind = "token" \/ req[r].cred.sub \notin Gone
             /\ \/ Advances(r, "sign", req[r].cred.sub, req[r].status)
                \/ /\ Advances(r, "handler", req[r].cred.sub, req[r].status)
                   /\ req[r].call.op \in Managing => HasPermission(req[r].cred.sub, "user.manage")
    BY <2>1, <2>2, <2>4 DEF OnItsWay, Advances
  <2>5. CASE \E n \in {401, 403} : Advances(r, "replied", req[r].sub, n)
    BY <2>1, <2>2, <2>5 DEF OnItsWay, Advances
  <2>6. OnItsWay(r)'
    BY <1>4, <2>1, <2>3, <2>4, <2>5, Authenticates
  <2> QED
    BY <1>1, <2>2, <2>6
<1>5. CASE SignForKey(r)
  <2>1. /\ req[r].at = "sign" /\ req[r].call \in Calls
        /\ UNCHANGED <<now, tables, issued, readings>>
        /\ req[r].sub \in Users \union Clients \union {None}
    BY <1>5 DEF SignForKey, OnItsWay, TypeOK, ReqStates
  <2>2. \/ /\ Advances(r, "handler", req[r].sub, req[r].status)
           /\ req[r].call.op \in Managing => HasPermission(req[r].sub, "user.manage")
        \/ Advances(r, "replied", req[r].sub, 403)
    BY <1>5, <2>1, AdmitAdvances DEF SignForKey
  <2>3. TypeOK' /\ Gone' = Gone /\ (\A q \in Requests : q # r => req'[q] = req[q])
    BY <2>1, <2>2 DEF Advances, TypeOK, tables, Gone, Stages
  <2>4. OnItsWay(r)'
    BY <2>1, <2>2, <2>3 DEF OnItsWay, Advances
  <2> QED
    BY <1>1, <2>3, <2>4
<1>6. CASE Handle(r)
  <2>1. Gone \subseteq Gone' /\ clients' \in [Clients -> {None, "active", "revoked"}]
    BY <1>6, Handles, GoneStays
  <2>2. /\ req[r].at \in {"handler", "issue", "revoke"} /\ req[r].call \in Calls
    BY <1>6, Handles DEF OnItsWay
  <2>3. req' \in [Requests -> ReqStates] => TypeOK'
    <3>1. \A m \in readings' : m.of \in Requests
      BY <1>6, Handles DEF TypeOK
    <3>2. now' \in 0..MaxNow /\ users' \subseteq Users /\ issued' \subseteq Tokens
      BY <1>6, Handles DEF TypeOK
    <3> QED
      BY <2>1, <3>1, <3>2 DEF TypeOK
  <2>4. \/ \E n \in Nat : /\ Advances(r, "replied", req[r].sub, n)
                          /\ n \in {401, 403} => UNCHANGED <<tables, issued, readings>>
        \/ \E p \in Users \union Clients :
             /\ Advances(r, "issue", p, req[r].status)
             /\ p \in Users \/ p \notin Gone
        \/ /\ Advances(r, "revoke", req[r].sub, req[r].status)
           /\ req[r].at = "handler" /\ req[r].call.op = "revokeClient"
    BY <1>6, Handles
  <2>5. CASE \E n \in Nat : /\ Advances(r, "replied", req[r].sub, n)
                            /\ n \in {401, 403} => UNCHANGED <<tables, issued, readings>>
    <3>1. /\ req' \in [Requests -> ReqStates] /\ \A q \in Requests : q # r => req'[q] = req[q]
          /\ req'[r].at = "replied" /\ req'[r].sub = req[r].sub /\ req'[r].call = req[r].call
          /\ req'[r].cred = req[r].cred /\ req'[r].gone = req[r].gone
      BY <2>5 DEF Advances
    <3>2. OnItsWay(r)'
      BY <2>1, <2>2, <3>1 DEF OnItsWay
    <3> QED
      BY <1>1, <2>1, <2>3, <3>1, <3>2
  <2>6. CASE \E p \in Users \union Clients :
               /\ Advances(r, "issue", p, req[r].status)
               /\ p \in Users \/ p \notin Gone
    <3>1. PICK p \in Users \union Clients : /\ Advances(r, "issue", p, req[r].status)
                                            /\ p \in Users \/ p \notin Gone
      BY <2>6
    <3>2. /\ req' \in [Requests -> ReqStates] /\ \A q \in Requests : q # r => req'[q] = req[q]
          /\ req'[r].at = "issue" /\ req'[r].sub = p /\ req'[r].call = req[r].call
          /\ req'[r].cred = req[r].cred /\ req'[r].gone = req[r].gone
      BY <3>1 DEF Advances
    <3>3. p # None /\ p \notin req[r].gone
      BY <1>2, <3>1, IdentityAssumption DEF OnItsWay
    <3>4. OnItsWay(r)'
      BY <2>1, <2>2, <3>2, <3>3 DEF OnItsWay
    <3> QED
      BY <1>1, <2>1, <2>3, <3>2, <3>4
  <2>7. CASE /\ Advances(r, "revoke", req[r].sub, req[r].status)
             /\ req[r].at = "handler" /\ req[r].call.op = "revokeClient"
    <3>1. OnItsWay(r)'
      BY <2>1, <2>2, <2>7 DEF OnItsWay, Advances, Managing
    <3> QED
      BY <1>1, <2>1, <2>3, <2>7, <3>1 DEF Advances
  <2> QED
    BY <2>4, <2>5, <2>6, <2>7
<1>7. CASE Meter(r)
  <2>1. Gone' = Gone /\ (\A q \in Requests : q # r => req'[q] = req[q])
    BY <1>7, Meters DEF Gone, Advances
  <2>2. TypeOK'
    <3>1. \A m \in readings' : m.of \in Requests
      BY <1>7, Meters DEF TypeOK
    <3> QED
      BY <1>7, <3>1, Meters DEF TypeOK, Advances, Stages
  <2>3. OnItsWay(r)'
    BY <1>7, <2>1, Meters DEF OnItsWay, Advances
  <2> QED
    BY <1>1, <2>1, <2>2, <2>3
<1> QED
  BY <1>3, <1>4, <1>5, <1>6, <1>7 DEF Step

\* Readings: whoever is counted has arrived; a step counts what it should.
LEMMA StepReads ==
  ASSUME IndInv, NEW r \in Requests, Arrive(r) \/ Step(r)
  PROVE  Read'
<1> USE DEF IndInv
<1>1. ASSUME req[r].at # "done", req'[r].at # "idle", req'[r].cred = req[r].cred,
             \A q \in Requests : q # r => req'[q] = req[q],
             readings \subseteq readings',
             \A m \in readings' \ readings :
               m.of = r /\ (m.unit = "frames" => m.tenant = Tenant[req[r].cred.sub]),
             req'[r].at = "done" /\ req'[r].call.api = "rest" =>
               \E m \in readings' : m.of = r /\ m.unit = "calls"
      PROVE  Read'
  <2>1. \A m \in readings' : m.of \in Requests /\ (m \in readings => req[m.of].at # "idle")
    BY <1>1 DEF TypeOK, Read
  <2>2. EveryCallCounted'
    BY <1>1 DEF Read, EveryCallCounted
  <2>3. IngestAttributed'
    BY <1>1, <2>1 DEF Read, IngestAttributed
  <2>4. \A m \in readings' : req'[m.of].at # "idle"
    BY <1>1, <2>1
  <2> QED
    BY <2>2, <2>3, <2>4 DEF Read
<1>2. CASE Arrive(r)
  <2>1. \A m \in readings : m.of \in Requests /\ m.of # r
    BY <1>2, Arrives DEF TypeOK, Read
  <2> QED
    BY <1>2, <2>1, Arrives DEF Read, EveryCallCounted, IngestAttributed
<1>3. CASE Authenticate(r) \/ GrpcAuthenticate(r)
  <2>1. req[r].call \in Calls
    BY <1>3 DEF OnItsWay, Authenticate, GrpcAuthenticate
  <2>2. /\ req[r].at = "arrived" /\ UNCHANGED readings
        /\ req'[r].at \in {"handler", "sign", "replied"} /\ req'[r].cred = req[r].cred
        /\ \A q \in Requests : q # r => req'[q] = req[q]
    BY <1>3, <2>1, Authenticates DEF Advances
  <2> QED
    BY <1>1, <2>2
<1>4. CASE SignForKey(r)
  <2>1. /\ req[r].at = "sign" /\ req[r].call \in Calls /\ UNCHANGED readings
        /\ req[r].sub \in Users \union Clients \union {None}
    BY <1>4 DEF SignForKey, OnItsWay, TypeOK, ReqStates
  <2>2. /\ req'[r].at \in {"handler", "replied"} /\ req'[r].cred = req[r].cred
        /\ \A q \in Requests : q # r => req'[q] = req[q]
    BY <1>4, <2>1, AdmitAdvances DEF SignForKey, Advances
  <2> QED
    BY <1>1, <2>1, <2>2
<1>5. CASE Handle(r)
  <2>1. /\ req[r].at \in {"handler", "issue", "revoke"}
        /\ req'[r].at \in {"issue", "revoke", "replied"} /\ req'[r].cred = req[r].cred
        /\ \A q \in Requests : q # r => req'[q] = req[q]
    BY <1>5, Handles DEF Advances, ReqStates
  <2>2. CASE UNCHANGED readings
    BY <1>1, <2>1, <2>2
  <2>3. CASE /\ req[r].at = "handler" /\ req[r].call.op = "ingest"
             /\ readings' = readings \union {[of |-> r, unit |-> "frames",
                                              tenant |-> Tenant[req[r].sub]]}
    <3>1. req[r].sub = req[r].cred.sub
      BY <2>3 DEF OnItsWay, Open
    <3> QED
      BY <1>1, <2>1, <2>3, <3>1
  <2> QED
    BY <1>5, <2>2, <2>3, Handles
<1>6. CASE Meter(r)
  BY <1>1, <1>6, Meters DEF Advances
<1> QED
  BY <1>2, <1>3, <1>4, <1>5, <1>6 DEF Step

-----------------------------------------------------------------------------
\* The inductive invariant.
THEOREM Invariance == Spec => []IndInv
<1>1. Init => IndInv
  <2> SUFFICES ASSUME Init PROVE IndInv
    OBVIOUS
  <2>1. issued \subseteq Tokens
    BY IdentityAssumption DEF Init, Tokens
  <2>2. TypeOK
    BY <2>1, IdentityAssumption DEF Init, TypeOK, ReqStates, Stages
  <2>3. (\A r \in Requests : OnItsWay(r)) /\ Read
    BY DEF Init, OnItsWay, Read, EveryCallCounted, IngestAttributed
  <2> QED
    BY <2>2, <2>3 DEF IndInv
<1>2. IndInv /\ Tick => IndInv'
  BY IdentityAssumption DEF Tick, IndInv, TypeOK, OnItsWay, Read, Gone, tables, EveryCallCounted,
     IngestAttributed
<1>3. IndInv /\ UNCHANGED vars => IndInv'
  BY DEF vars, IndInv, TypeOK, OnItsWay, Read, Gone, EveryCallCounted, IngestAttributed
<1>4. IndInv /\ [Next]_vars => IndInv'
  BY <1>2, <1>3, StepKeeps, StepReads DEF Next, IndInv
<1> QED
  BY <1>1, <1>4, PTL DEF Spec

\* A key of a client that was revoked before the request came does nothing.
THEOREM RevokedKeysUseless == Spec => []RevokedKeyIsUseless
<1>1. IndInv => RevokedKeyIsUseless
  BY DEF IndInv, OnItsWay, RevokedKeyIsUseless
<1> QED
  BY <1>1, Invariance, PTL

\* Frames are counted for the tenant of whoever sent them.
THEOREM IngestsAttributed == Spec => []IngestAttributed
<1>1. IndInv => IngestAttributed
  BY DEF IndInv, Read
<1> QED
  BY <1>1, Invariance, PTL

\* Every call over REST is counted, however it ended.
THEOREM CallsCounted == Spec => []EveryCallCounted
<1>1. IndInv => EveryCallCounted
  BY DEF IndInv, Read
<1> QED
  BY <1>1, Invariance, PTL

\* Who is refused has changed nothing, and who changes the tables may.
THEOREM RefusalsChangeNothing == Spec => RefusedChangesNothing
<1> DEFINE Refused(r) ==
      req'[r] # req[r] =>
        /\ tables' # tables => HasPermission(req[r].sub, "user.manage")
        /\ req'[r].at = "replied" /\ req'[r].status \in {401, 403}
             => UNCHANGED <<tables, issued, readings>>
<1>1. ASSUME IndInv, NEW r \in Requests, Arrive(r) \/ Step(r), NEW q \in Requests
      PROVE  Refused(q)
  <2> USE DEF IndInv
  <2>1. CASE Arrive(r)
    BY <1>1, <2>1, Arrives DEF tables
  <2>2. CASE Authenticate(r) \/ GrpcAuthenticate(r)
    BY <2>2 DEF Authenticate, GrpcAuthenticate
  <2>3. CASE SignForKey(r)
    BY <2>3 DEF SignForKey
  <2>4. CASE Handle(r)
    <3>1. \A s \in Requests : s # r => req'[s] = req[s]
      BY <1>1, <2>4, Handles DEF Advances
    <3>2. tables' # tables => HasPermission(req[r].sub, "user.manage")
      BY <1>1, <2>4, Handles DEF OnItsWay
    <3>3. req'[r].at = "replied" /\ req'[r].status \in {401, 403}
            => UNCHANGED <<tables, issued, readings>>
      BY <1>1, <2>4, Handles DEF Advances
    <3> QED
      BY <3>1, <3>2, <3>3
  <2>5. CASE Meter(r)
    BY <1>1, <2>5, Meters DEF Advances, tables
  <2> QED
    BY <1>1, <2>1, <2>2, <2>3, <2>4, <2>5 DEF Step
<1>2. IndInv /\ [Next]_vars => [\A r \in Requests : Refused(r)]_vars
  BY <1>1 DEF Next, Tick, vars
<1> QED
  BY <1>2, Invariance, PTL DEF Spec, RefusedChangesNothing
=============================================================================
