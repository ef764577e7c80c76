----------------------------- MODULE MCGateway -----------------------------
(* An administrator who is there from the start, a user with the least role, *)
(* a client that may send commands.                                          *)
EXTENDS Gateway, FiniteSets

MCRoles  == [p \in {"root", "eve", "sat", "new"} |->
              CASE p = "root" -> {"admin"} [] p = "eve" -> {"viewer"} [] OTHER -> {"operator"}]
MCTenant == [p \in {"root", "eve", "sat", "new"} |-> IF p = "root" THEN "t0" ELSE "t1"]
Call(api, op, arg) == [api |-> api, op |-> op, arg |-> arg]
MCCalls ==
  {Call("rest", "login", "root"), Call("rest", "token", "sat"), Call("rest", "refresh", "root"),
   Call("rest", "createClient", "new"), Call("rest", "revokeClient", "sat"),
   Call("rest", "ingest", "sat"), Call("grpc", "ingest", "sat"),
   Call("rest", "createUser", "eve"), Call("rest", "deleteUser", "eve"),
   Call("rest", "getUser", "eve"), Call("rest", "getClient", "new"),
   Call("rest", "me", "eve"), Call("rest", "command", "sat")}

Busy == {r \in Requests : req[r].at \notin {"idle", "done"}}

\* Two requests at a time.  They are alike, so they arrive by number; the third
\* tries what the others left of its credential.  What a login carries besides
\* is not looked at.
Distinct ==
  /\ Cardinality(Busy) <= 2
  /\ \A r \in Requests :
       /\ r > 1 /\ req[r].at # "idle" => req[r - 1].at # "idle"
       /\ req[r].at # "idle" /\ req[r].call.op = "login" => req[r].cred = NoCred
       /\ r = 3 /\ req[r].at # "idle" => req[r].call.op \in {"token", "refresh", "ingest", "command"}
=============================================================================
