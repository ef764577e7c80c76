--------------------------- MODULE KnowledgeGraph ---------------------------
(***************************************************************************)
(* The knowledge graph of internal/core: KGService over the tables of      *)
(* nodes and of relationships, called by the REST and gRPC handlers.  An   *)
(* operation is a sequence of database statements and of events published  *)
(* afterwards.  Nothing excludes another client between two of them, and   *)
(* the operation may end at any of them with what it did so far.  Only     *)
(* DeleteNode has a transaction, if the service was given the database.    *)
(*                                                                         *)
(* A subscriber that follows the events keeps a copy of the graph, here    *)
(* shownStatus and shownRels.  The properties compare it with the tables.  *)
(*                                                                         *)
(* An operator named X_Mistake is X with one plausible mistake, and not    *)
(* part of the specification.                                              *)
(***************************************************************************)
EXTENDS GraphTables, Naturals, FiniteSets

CONSTANTS
  Clients,    \* requests that are served at the same time
  Statuses,   \* values of a node's status
  Keep,       \* an update that does not mention the status
  None,       \* no subject
  MaxCalls    \* bound: requests in a behaviour

ASSUME GraphAssumption ==
  /\ Nodes \intersect Rels = {}
  /\ "absent" \notin Statuses /\ Keep \notin Statuses
  /\ None \notin Nodes \union Rels
  /\ MaxCalls \in Nat

VARIABLES
  hasDB,        \* KGService.db is set: DeleteNode uses a transaction
  status,       \* the nodes table: a node's status, or "absent"
  rels,         \* the relationships table
  shownStatus,  \* what the events told of each node's status
  shownRels,    \* and of the relationships
  \* The requests being served.
  pc,           \* the next statement or event of each
  on,           \* the node or relationship it is about
  want,         \* the status asked for, or Keep
  row,          \* UpdateNode: the status read
  todo,         \* DeleteNode: the relationships listed and not yet deleted
  checked,      \* CreateRelationship: how many of its four look-ups are done
  \* History.
  calls,        \* how many requests began
  unused,       \* relationship identifiers no request has had yet
  before,       \* what DeleteNode found and nobody has deleted since
  contended,    \* subjects two requests have worked on at the same time
  broken        \* subjects of a request that ended after a change, before its event

tables  == <<status, rels>>
copy    == <<shownStatus, shownRels>>
request == <<pc, on, want, row, todo, checked>>
vars    == <<hasDB, tables, copy, request, calls, unused, before, contended, broken>>

RegisterSteps == {"insertNode", "sayRegistered", "sayInitial"}
UpdateSteps   == {"getNode", "writeNode", "sayState", "sayUpdated"}
DeleteSteps   == {"findNode", "deleteTx", "listOut", "listIn", "deleteListed",
                  "deleteNode", "sayDeleted"}
LinkSteps     == {"checkEnds", "insertRel", "sayCreated"}
UnlinkSteps   == {"deleteRel", "sayRemoved"}
Steps         == RegisterSteps \union UpdateSteps \union DeleteSteps
                   \union LinkSteps \union UnlinkSteps

Outgoing(n) == {r \in Rels : From[r] = n}
Incoming(n) == {r \in Rels : To[r] = n}
Incident(n) == Outgoing(n) \union Incoming(n)

\* What a request may change: all relationships of a node that it deletes.
Scope(c) ==
  IF pc[c] = "idle" THEN {}
  ELSE {on[c]} \union IF pc[c] \in DeleteSteps THEN Incident(on[c]) ELSE {}

\* The service starts on the tables that earlier runs left, whole and known to
\* the subscriber, or on empty ones.
Init ==
  /\ hasDB \in BOOLEAN
  /\ status \in [Nodes -> Statuses \union {"absent"}]
  /\ rels \in SUBSET {r \in Rels : status[From[r]] # "absent" /\ status[To[r]] # "absent"}
  /\ shownStatus = status /\ shownRels = rels
  /\ pc   = [c \in Clients |-> "idle"]
  /\ on   = [c \in Clients |-> None]
  /\ want = [c \in Clients |-> Keep]
  /\ row  = [c \in Clients |-> Keep]
  /\ todo = [c \in Clients |-> {}]
  /\ checked = [c \in Clients |-> 0]
  /\ calls = 0
  /\ unused = Rels \ rels
  /\ before = [c \in Clients |-> {}]
  /\ contended = {} /\ broken = {}

-----------------------------------------------------------------------------
(* Requests begin, go on and end.                                          *)

\* A handler calls the service for x; scope is what the call may change.
Begin(c, step, x, scope) ==
  /\ pc[c] = "idle" /\ calls < MaxCalls
  /\ calls' = calls + 1
  /\ pc' = [pc EXCEPT ![c] = step]
  /\ on' = [on EXCEPT ![c] = x]
  /\ contended' = contended \union (scope \intersect UNION {Scope(d) : d \in Clients})
  /\ UNCHANGED <<hasDB, tables, copy, row, todo, checked, broken>>

GoTo(c, step) ==
  /\ pc' = [pc EXCEPT ![c] = step]
  /\ UNCHANGED <<hasDB, on, want, checked, calls, unused, contended, broken>>

Finish(c) ==
  /\ pc'   = [pc EXCEPT ![c] = "idle"]
  /\ on'   = [on EXCEPT ![c] = None]
  /\ want' = [want EXCEPT ![c] = Keep]
  /\ row'  = [row EXCEPT ![c] = Keep]
  /\ todo' = [todo EXCEPT ![c] = {}]
  /\ checked' = [checked EXCEPT ![c] = 0]
  /\ before'  = [before EXCEPT ![c] = {}]
  /\ UNCHANGED <<hasDB, calls, unused, contended>>

\* The operation returns, with an error or at its end, and nothing changes.
Leave(c) == Finish(c) /\ UNCHANGED <<tables, copy, broken>>

\* A row was changed and its event is still to come.
Unannounced == {"sayRegistered", "sayInitial", "sayState", "deleteListed",
                "deleteNode", "sayDeleted", "sayCreated", "sayRemoved"}

\* A statement or Publish fails (the request's context is over, the database
\* or the bus is closed), or the process dies here: what was done stays done.
\* An event that got out although Publish failed is the next step, then this.
Interrupted(c) ==
  /\ pc[c] # "idle"
  /\ broken' = broken \union IF pc[c] \in Unannounced THEN Scope(c) ELSE {}
  /\ Finish(c)
  /\ UNCHANGED <<tables, copy>>

-----------------------------------------------------------------------------
(* RegisterNode.                                                           *)

RegisterNode(c, n, s) ==
  /\ Begin(c, "insertNode", n, {n})
  /\ want' = [want EXCEPT ![c] = s]
  /\ UNCHANGED <<unused, before>>

\* The primary key refuses an identifier that is taken.
InsertNode(c) ==
  /\ pc[c] = "insertNode"
  /\ \/ /\ status[on[c]] = "absent"
        /\ status' = [status EXCEPT ![on[c]] = want[c]]
        /\ GoTo(c, "sayRegistered")
        /\ UNCHANGED <<rels, copy, row, todo, before>>
     \/ status[on[c]] # "absent" /\ Leave(c)

\* NodeRegistered, which tells no status.
SayRegistered(c) ==
  /\ pc[c] = "sayRegistered"
  /\ GoTo(c, "sayInitial")
  /\ UNCHANGED <<tables, copy, row, todo, before>>

\* StateUpdated, from "" to the status; then the hooks of the plugins.
SayInitial(c) ==
  /\ pc[c] = "sayInitial"
  /\ shownStatus' = [shownStatus EXCEPT ![on[c]] = want[c]]
  /\ Finish(c)
  /\ UNCHANGED <<tables, shownRels, broken>>

-----------------------------------------------------------------------------
(* UpdateNode.                                                             *)

UpdateNode(c, n, s) ==
  /\ Begin(c, "getNode", n, {n})
  /\ want' = [want EXCEPT ![c] = s]
  /\ UNCHANGED <<unused, before>>

\* The whole row is read, outside a transaction.
GetNode(c) ==
  /\ pc[c] = "getNode"
  /\ \/ /\ status[on[c]] # "absent"
        /\ row' = [row EXCEPT ![c] = status[on[c]]]
        /\ GoTo(c, "writeNode")
        /\ UNCHANGED <<tables, copy, todo, before>>
     \/ status[on[c]] = "absent" /\ Leave(c)

\* applyChanges: the status asked for, or the one that was read.
NewStatus(c) == IF want[c] = Keep THEN row[c] ELSE want[c]

\* The old status is taken after the changes were applied, and never differs.
WriteNode_NoDifference(c) ==
  /\ pc[c] = "writeNode"
  /\ \/ /\ status[on[c]] # "absent"
        /\ status' = [status EXCEPT ![on[c]] = NewStatus(c)]
        /\ GoTo(c, "sayUpdated")
        /\ UNCHANGED <<rels, copy, row, todo, before>>
     \/ status[on[c]] = "absent" /\ Leave(c)

\* The whole row is written, whatever it has become since; a row that is gone
\* stays gone.
WriteNode(c) ==
  /\ pc[c] = "writeNode"
  /\ \/ /\ status[on[c]] # "absent"
        /\ status' = [status EXCEPT ![on[c]] = NewStatus(c)]
        /\ GoTo(c, IF NewStatus(c) # row[c] THEN "sayState" ELSE "sayUpdated")
        /\ UNCHANGED <<rels, copy, row, todo, before>>
     \/ status[on[c]] = "absent" /\ Leave(c)

SayState(c) ==
  /\ pc[c] = "sayState"
  /\ shownStatus' = [shownStatus EXCEPT ![on[c]] = NewStatus(c)]
  /\ GoTo(c, "sayUpdated")
  /\ UNCHANGED <<tables, shownRels, row, todo, before>>

\* NodeUpdated, then the hooks.
SayUpdated(c) ==
  /\ pc[c] = "sayUpdated"
  /\ Leave(c)

-----------------------------------------------------------------------------
(* DeleteNode.                                                             *)

\* A row of relationships is deleted: no request can count on it any more.
Forget(gone) == before' = [d \in Clients |-> before[d] \ gone]

DeleteNode(c, n) ==
  /\ Begin(c, "findNode", n, {n} \union Incident(n))
  /\ UNCHANGED <<want, unused, before>>

\* The handler looks for the node first; then the service begins.
FindNode(c) ==
  /\ pc[c] = "findNode"
  /\ \/ /\ status[on[c]] # "absent"
        /\ GoTo(c, IF hasDB THEN "deleteTx" ELSE "listOut")
        /\ before' = [before EXCEPT ![c] = rels \intersect Incident(on[c])]
        /\ UNCHANGED <<tables, copy, row, todo>>
     \/ status[on[c]] = "absent" /\ Leave(c)

\* The statement names one end only.
DeleteTx_OutOnly(c) ==
  /\ pc[c] = "deleteTx"
  /\ \/ /\ status[on[c]] # "absent"
        /\ status' = [status EXCEPT ![on[c]] = "absent"]
        /\ rels' = rels \ Outgoing(on[c])
        /\ Forget(Outgoing(on[c]))
        /\ GoTo(c, "sayDeleted")
        /\ UNCHANGED <<copy, row, todo>>
     \/ status[on[c]] = "absent" /\ Leave(c)

\* deleteNodeInTx up to its commit; without a node it rolls back.  It is one
\* step: SQLite has a single connection, and what another request may do
\* between the statements on PostgreSQL it may as well do before or after.
DeleteTx(c) ==
  /\ pc[c] = "deleteTx"
  /\ \/ /\ status[on[c]] # "absent"
        /\ status' = [status EXCEPT ![on[c]] = "absent"]
        /\ rels' = rels \ Incident(on[c])
        /\ Forget(Incident(on[c]))
        /\ GoTo(c, "sayDeleted")
        /\ UNCHANGED <<copy, row, todo>>
     \/ status[on[c]] = "absent" /\ Leave(c)

\* deleteNodeNoTx lists the relationships in two queries ...
ListOut(c) ==
  /\ pc[c] = "listOut"
  /\ todo' = [todo EXCEPT ![c] = {"out"} \X (rels \intersect Outgoing(on[c]))]
  /\ GoTo(c, "listIn")
  /\ UNCHANGED <<tables, copy, row, before>>

ListIn(c) ==
  /\ pc[c] = "listIn"
  /\ todo' = [todo EXCEPT ![c] = @ \union {"in"} \X (rels \intersect Incoming(on[c]))]
  /\ GoTo(c, "deleteListed")
  /\ UNCHANGED <<tables, copy, row, before>>

\* The loop over the relationships ends after one of them.
DeleteListed_First(c) ==
  /\ pc[c] = "deleteListed"
  /\ \/ \E p \in todo[c] :
          /\ rels' = rels \ {p[2]}
          /\ Forget({p[2]})
          /\ GoTo(c, "deleteNode")
     \/ /\ todo[c] = {}
        /\ GoTo(c, "deleteNode")
        /\ UNCHANGED <<rels, before>>
  /\ UNCHANGED <<status, copy, row, todo>>

\* ... and deletes them one by one, the outgoing ones first, and one that
\* joins the node to itself twice.
DeleteListed(c) ==
  /\ pc[c] = "deleteListed"
  /\ \/ \E p \in todo[c] :
          /\ p[1] = "in" => \A q \in todo[c] : q[1] = "in"
          /\ rels' = rels \ {p[2]}
          /\ Forget({p[2]})
          /\ todo' = [todo EXCEPT ![c] = @ \ {p}]
          /\ GoTo(c, "deleteListed")
     \/ /\ todo[c] = {}
        /\ GoTo(c, "deleteNode")
        /\ UNCHANGED <<rels, todo, before>>
  /\ UNCHANGED <<status, copy, row>>

\* Then the node, which may be gone already.
DeleteRow(c) ==
  /\ pc[c] = "deleteNode"
  /\ status' = [status EXCEPT ![on[c]] = "absent"]
  /\ GoTo(c, "sayDeleted")
  /\ UNCHANGED <<rels, copy, row, todo, before>>

\* NodeDeleted: a subscriber drops the node and what was joined to it.
SayDeleted(c) ==
  /\ pc[c] = "sayDeleted"
  /\ shownStatus' = [shownStatus EXCEPT ![on[c]] = "absent"]
  /\ shownRels' = shownRels \ Incident(on[c])
  /\ Finish(c)
  /\ UNCHANGED <<tables, broken>>

-----------------------------------------------------------------------------
(* CreateRelationship and DeleteRelationship.                              *)

CreateRelationship(c, r) ==
  /\ r \in unused
  /\ Begin(c, "checkEnds", r, {r})
  /\ unused' = unused \ {r}
  /\ UNCHANGED <<want, before>>

\* The service looks for both ends, then the repository does so again.
CheckEnds(c) ==
  /\ pc[c] = "checkEnds"
  /\ LET end == IF checked[c] % 2 = 0 THEN From[on[c]] ELSE To[on[c]]
     IN  \/ /\ status[end] # "absent"
            /\ checked' = [checked EXCEPT ![c] = @ + 1]
            /\ pc' = [pc EXCEPT ![c] = IF checked[c] = 3 THEN "insertRel" ELSE @]
            /\ UNCHANGED <<hasDB, tables, copy, on, want, row, todo, calls, unused,
                           before, contended, broken>>
         \/ status[end] = "absent" /\ Leave(c)

\* The insertion itself looks at nothing: the table has no foreign key.
InsertRel(c) ==
  /\ pc[c] = "insertRel"
  /\ rels' = rels \union {on[c]}
  /\ GoTo(c, "sayCreated")
  /\ UNCHANGED <<status, copy, row, todo, before>>

SayCreated(c) ==
  /\ pc[c] = "sayCreated"
  /\ shownRels' = shownRels \union {on[c]}
  /\ Finish(c)
  /\ UNCHANGED <<tables, shownStatus, broken>>

\* Clients know the identifiers of relationships that were created.
DeleteRelationship(c, r) ==
  /\ r \notin unused
  /\ Begin(c, "deleteRel", r, {r})
  /\ UNCHANGED <<want, unused, before>>

\* Whether there was such a row is not looked at.
DeleteRel(c) ==
  /\ pc[c] = "deleteRel"
  /\ rels' = rels \ {on[c]}
  /\ Forget({on[c]})
  /\ GoTo(c, "sayRemoved")
  /\ UNCHANGED <<status, copy, row, todo>>

SayRemoved(c) ==
  /\ pc[c] = "sayRemoved"
  /\ shownRels' = shownRels \ {on[c]}
  /\ Finish(c)
  /\ UNCHANGED <<tables, shownStatus, broken>>

-----------------------------------------------------------------------------
Call(c) ==
  \/ \E n \in Nodes : \/ \E s \in Statuses : RegisterNode(c, n, s)
                      \/ \E s \in Statuses \union {Keep} : UpdateNode(c, n, s)
                      \/ DeleteNode(c, n)
  \/ \E r \in Rels : CreateRelationship(c, r) \/ DeleteRelationship(c, r)

Step(c) ==
  \/ InsertNode(c) \/ SayRegistered(c) \/ SayInitial(c)
  \/ GetNode(c) \/ WriteNode(c) \/ SayState(c) \/ SayUpdated(c)
  \/ FindNode(c) \/ DeleteTx(c) \/ ListOut(c) \/ ListIn(c) \/ DeleteListed(c)
  \/ DeleteRow(c) \/ SayDeleted(c)
  \/ CheckEnds(c) \/ InsertRel(c) \/ SayCreated(c)
  \/ DeleteRel(c) \/ SayRemoved(c)

Next == \E c \in Clients : Call(c) \/ Step(c) \/ Interrupted(c)

Spec == Init /\ [][Next]_vars

-----------------------------------------------------------------------------
(* Properties.                                                             *)

\* The type invariant.
TypeOK ==
  /\ hasDB \in BOOLEAN /\ calls \in 0..MaxCalls
  /\ status \in [Nodes -> Statuses \union {"absent"}]
  /\ shownStatus \in [Nodes -> Statuses \union {"absent"}]
  /\ rels \subseteq Rels /\ shownRels \subseteq Rels /\ unused \subseteq Rels
  /\ pc \in [Clients -> Steps \union {"idle"}]
  /\ on \in [Clients -> Nodes \union Rels \union {None}]
  /\ want \in [Clients -> Statuses \union {Keep}]
  /\ row \in [Clients -> Statuses \union {Keep}]
  /\ todo \in [Clients -> SUBSET ({"out", "in"} \X Rels)]
  /\ checked \in [Clients -> 0..4]
  /\ before \in [Clients -> SUBSET Rels]
  /\ contended \subseteq Nodes \union Rels
  /\ broken \subseteq Nodes \union Rels

\* A relationship joins two nodes that exist, in the middle of a deletion and
\* after one that failed half-way too, with a transaction and without, unless
\* another request worked on the relationship while it was created or its
\* node deleted (CreateRelationship, DeleteNode).
NoDangling ==
  \A r \in rels \ contended :
    status[From[r]] # "absent" /\ status[To[r]] # "absent"

\* When a DeleteNode announces the deletion, none of the relationships it
\* found as it began is left, whatever others do meanwhile; only those created
\* later can be.
DeletionComplete ==
  \A c \in Clients : pc[c] = "sayDeleted" => before[c] = {}

Quiet(x) == x \notin contended \union broken
            /\ \A c \in Clients : x \notin Scope(c)

\* Between requests a subscriber's copy agrees with the tables, wherever no two
\* requests met and none was interrupted: every path that changes a row
\* announces what is stored, and nothing else.  The relationships deleted with
\* a node have no event of their own.
CopyAgrees ==
  /\ \A n \in Nodes : Quiet(n) => shownStatus[n] = status[n]
  /\ \A r \in Rels : Quiet(r) => (r \in shownRels <=> r \in rels)
-----------------------------------------------------------------------------
(* The inductive invariant behind the properties above.                    *)

\* What a request is about at each step.
Shape ==
  \A c \in Clients :
    /\ pc[c] \in RegisterSteps \union UpdateSteps \union DeleteSteps => on[c] \in Nodes
    /\ pc[c] \in LinkSteps \union UnlinkSteps => on[c] \in Rels
    /\ pc[c] \in RegisterSteps => want[c] \in Statuses
    /\ pc[c] \in {"writeNode", "sayState", "sayUpdated"} => row[c] \in Statuses
    /\ pc[c] = "idle" => checked[c] = 0
    /\ pc[c] = "checkEnds" => checked[c] < 4
    /\ \A p \in todo[c] : pc[c] \in DeleteSteps /\ p[2] \in Incident(on[c])

\* Nothing two requests work on escapes the history.
Overlaps ==
  \A c, d \in Clients : c # d => Scope(c) \intersect Scope(d) \subseteq contended

\* The relationships in S that belong to the node n a request deletes are listed
\* when they should be, and gone when the node goes.
Covered(step, n, listed, S) ==
  /\ step = "listIn" => S \intersect Outgoing(n) \subseteq listed
  /\ step = "deleteListed" => S \intersect Incident(n) \subseteq listed
  /\ step \in {"deleteNode", "sayDeleted"} => S \intersect Incident(n) = {}

Listed(c) == {p[2] : p \in todo[c]}

\* Where the service, past the handler's look-up, is deleting.
Removing == {"deleteTx", "listOut", "listIn", "deleteListed", "deleteNode", "sayDeleted"}

Deleting ==
  \A c \in Clients :
    /\ Covered(pc[c], on[c], Listed(c), rels \ contended)
    /\ Covered(pc[c], on[c], Listed(c), before[c])
    /\ before[c] \subseteq rels
    /\ pc[c] \in Removing => before[c] \subseteq Incident(on[c])

\* The ends that were looked up are still there.
Linking ==
  \A c \in Clients :
    pc[c] \in {"checkEnds", "insertRel"} /\ on[c] \notin contended =>
      /\ checked[c] >= 1 \/ pc[c] = "insertRel" => status[From[on[c]]] # "absent"
      /\ checked[c] >= 2 \/ pc[c] = "insertRel" => status[To[on[c]]] # "absent"

\* How the tables and the copy differ while one request works on a node ...
NodeCopy(c, n) ==
  /\ pc[c] \in {"insertNode", "getNode", "writeNode", "sayUpdated"} \union
               (DeleteSteps \ {"sayDeleted"}) => shownStatus[n] = status[n]
  /\ pc[c] = "writeNode" => status[n] = row[c]
  /\ pc[c] \in {"sayRegistered", "sayInitial"} => status[n] = want[c]
  /\ pc[c] = "sayState" => status[n] = NewStatus(c)
  /\ pc[c] = "sayDeleted" => status[n] = "absent"

\* ... and on a relationship.
RelCopy(c, r) ==
  /\ pc[c] \in {"findNode", "deleteTx", "listOut", "listIn", "checkEnds", "insertRel",
                "deleteRel"} => (r \in shownRels <=> r \in rels)
  /\ pc[c] \in {"deleteListed", "deleteNode"} => (r \in rels => r \in shownRels)
  /\ pc[c] = "sayCreated" => r \in rels
  /\ pc[c] \in {"sayDeleted", "sayRemoved"} => r \notin rels

Copying ==
  /\ CopyAgrees
  /\ \A c \in Clients :
       \A x \in Scope(c) \ (contended \union broken) :
         IF x \in Nodes THEN NodeCopy(c, x) ELSE RelCopy(c, x)

IndInv ==
  TypeOK /\ Shape /\ Overlaps /\ Deleting /\ Linking /\ NoDangling /\ Copying
=============================================================================
