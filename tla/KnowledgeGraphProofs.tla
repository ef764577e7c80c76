------------------------ MODULE KnowledgeGraphProofs ------------------------
(***************************************************************************)
(* Proofs about KnowledgeGraph, for any number of requests at a time, any  *)
(* nodes, relationships and statuses, failures and crashes anywhere; and   *)
(* about GraphTraversal, for any depth and any changes while it runs.      *)
(***************************************************************************)
EXTENDS KnowledgeGraph, GraphTraversal, WellFoundedInduction, TLAPS

\* What an action of c leaves alone: the other requests ...
Others(c) ==
  \A d \in Clients : d # c =>
    /\ pc'[d] = pc[d] /\ on'[d] = on[d] /\ want'[d] = want[d]
    /\ row'[d] = row[d] /\ todo'[d] = todo[d] /\ checked'[d] = checked[d]

\* ... and a node or a relationship, in the tables and in the copy.
SameNode(n) == status'[n] = status[n] /\ shownStatus'[n] = shownStatus[n]
SameRel(r)  == (r \in rels' <=> r \in rels) /\ (r \in shownRels' <=> r \in shownRels)

-----------------------------------------------------------------------------
\* The first steps of the operations and what they are about.
LEMMA CallBegins ==
  ASSUME NEW c \in Clients, Call(c)
  PROVE  /\ UNCHANGED <<row, todo, checked, before>>
         /\ \/ \E n \in Nodes :
                 \/ /\ Begin(c, "insertNode", n, {n})
                    /\ \E s \in Statuses : want' = [want EXCEPT ![c] = s]
                    /\ UNCHANGED unused
                 \/ /\ Begin(c, "getNode", n, {n})
                    /\ \E s \in Statuses \union {Keep} : want' = [want EXCEPT ![c] = s]
                    /\ UNCHANGED unused
                 \/ /\ Begin(c, "findNode", n, {n} \union Incident(n))
                    /\ UNCHANGED <<want, unused>>
            \/ \E r \in Rels :
                 /\ \/ Begin(c, "checkEnds", r, {r}) /\ unused' = unused \ {r}
                    \/ Begin(c, "deleteRel", r, {r}) /\ UNCHANGED unused
                 /\ UNCHANGED want
BY DEF Call, RegisterNode, UpdateNode, DeleteNode, CreateRelationship,
       DeleteRelationship, Begin

\* A request works on the same subjects from its beginning to its end.
LEMMA StepScope ==
  ASSUME TypeOK, NEW c \in Clients, Step(c) \/ Interrupted(c)
  PROVE  /\ Others(c) /\ contended' = contended /\ broken \subseteq broken'
         /\ pc[c] # "idle"
         /\ \/ pc'[c] = "idle"
            \/ on'[c] = on[c] /\ (pc[c] \in DeleteSteps <=> pc'[c] \in DeleteSteps)
<1> USE DEF TypeOK, Others, GoTo, Finish, Leave, Steps, RegisterSteps, UpdateSteps,
            DeleteSteps, LinkSteps, UnlinkSteps, tables, copy
<1>1. CASE InsertNode(c)
  BY <1>1 DEF InsertNode
<1>2. CASE SayRegistered(c) \/ SayInitial(c)
  BY <1>2 DEF SayRegistered, SayInitial
<1>3. CASE GetNode(c)
  BY <1>3 DEF GetNode
<1>4. CASE WriteNode(c)
  BY <1>4 DEF WriteNode
<1>5. CASE SayState(c) \/ SayUpdated(c)
  BY <1>5 DEF SayState, SayUpdated
<1>6. CASE FindNode(c)
  BY <1>6 DEF FindNode
<1>7. CASE DeleteTx(c)
  BY <1>7 DEF DeleteTx
<1>8. CASE ListOut(c) \/ ListIn(c)
  BY <1>8 DEF ListOut, ListIn
<1>9. CASE DeleteListed(c)
  BY <1>9 DEF DeleteListed
<1>10. CASE DeleteRow(c) \/ SayDeleted(c)
  BY <1>10 DEF DeleteRow, SayDeleted
<1>11. CASE CheckEnds(c)
  BY <1>11 DEF CheckEnds
<1>12. CASE InsertRel(c) \/ SayCreated(c)
  BY <1>12 DEF InsertRel, SayCreated
<1>13. CASE DeleteRel(c) \/ SayRemoved(c)
  BY <1>13 DEF DeleteRel, SayRemoved
<1>14. CASE Interrupted(c)
  BY <1>14 DEF Interrupted
<1> QED
  BY <1>1, <1>2, <1>3, <1>4, <1>5, <1>6, <1>7, <1>8, <1>9, <1>10, <1>11, <1>12,
     <1>13, <1>14 DEF Step
-----------------------------------------------------------------------------
\* Every step keeps the types.
LEMMA TypeKeeps ==
  ASSUME TypeOK, Shape, [Next]_vars
  PROVE  TypeOK'
<1> USE DEF TypeOK, GoTo, Finish, Leave, Steps, RegisterSteps, UpdateSteps,
            DeleteSteps, LinkSteps, UnlinkSteps, tables, copy
<1>1. ASSUME NEW c \in Clients, Call(c) PROVE TypeOK'
  <2>1. ASSUME NEW step \in Steps, NEW x \in Nodes \union Rels,
               NEW scope \in SUBSET (Nodes \union Rels), Begin(c, step, x, scope),
               want' \in [Clients -> Statuses \union {Keep}], unused' \subseteq Rels,
               UNCHANGED before
        PROVE  TypeOK'
    BY <2>1, GraphAssumption DEF Begin
  <2>2. \A n : Incident(n) \subseteq Rels
    BY DEF Incident, Outgoing, Incoming
  <2>3. UNCHANGED before
    BY <1>1, CallBegins
  <2>4. CASE \E n \in Nodes :
               \/ \E s \in Statuses \union {Keep} : RegisterNode(c, n, s) \/ UpdateNode(c, n, s)
               \/ DeleteNode(c, n)
    <3>1. PICK n \in Nodes :
               \/ \E s \in Statuses \union {Keep} : RegisterNode(c, n, s) \/ UpdateNode(c, n, s)
               \/ DeleteNode(c, n)
      BY <2>4
    <3>2. want' \in [Clients -> Statuses \union {Keep}] /\ unused' \subseteq Rels
      BY <3>1 DEF RegisterNode, UpdateNode, DeleteNode
    <3>3. \E step \in Steps, scope \in SUBSET (Nodes \union Rels) : Begin(c, step, n, scope)
      BY <3>1, <2>2 DEF RegisterNode, UpdateNode, DeleteNode
    <3> QED
      BY <2>1, <2>3, <3>2, <3>3
  <2>5. CASE \E r \in Rels : CreateRelationship(c, r) \/ DeleteRelationship(c, r)
    <3>1. PICK r \in Rels : CreateRelationship(c, r) \/ DeleteRelationship(c, r)
      BY <2>5
    <3>2. want' \in [Clients -> Statuses \union {Keep}] /\ unused' \subseteq Rels
      BY <3>1 DEF CreateRelationship, DeleteRelationship
    <3>3. \E step \in Steps, scope \in SUBSET (Nodes \union Rels) : Begin(c, step, r, scope)
      BY <3>1 DEF CreateRelationship, DeleteRelationship
    <3> QED
      BY <2>1, <2>3, <3>2, <3>3
  <2> QED
    BY <1>1, <2>4, <2>5 DEF Call
<1>2. ASSUME NEW c \in Clients, Interrupted(c) PROVE TypeOK'
  <2>1. Scope(c) \subseteq Nodes \union Rels \union {None}
    BY DEF Scope, Incident, Outgoing, Incoming
  <2>2. on[c] # None
    BY <1>2, GraphAssumption DEF Interrupted, Shape
  <2>3. Scope(c) \subseteq Nodes \union Rels
    BY <2>2 DEF Scope, Incident, Outgoing, Incoming
  <2> QED
    BY <1>2, <2>3 DEF Interrupted
<1>3. ASSUME NEW c \in Clients, Step(c) PROVE TypeOK'
  <2>1. CASE InsertNode(c)
    BY <2>1 DEF InsertNode, Shape
  <2>2. CASE SayRegistered(c)
    BY <2>2 DEF SayRegistered
  <2>3. CASE SayInitial(c)
    BY <2>3 DEF SayInitial, Shape
  <2>4. CASE GetNode(c)
    BY <2>4 DEF GetNode, Shape
  <2>5. CASE WriteNode(c)
    BY <2>5 DEF WriteNode, NewStatus, Shape
  <2>6. CASE SayState(c)
    BY <2>6 DEF SayState, NewStatus, Shape
  <2>7. CASE SayUpdated(c)
    BY <2>7 DEF SayUpdated
  <2>8. CASE FindNode(c)
    BY <2>8 DEF FindNode, Incident, Outgoing, Incoming
  <2>9. CASE DeleteTx(c)
    BY <2>9 DEF DeleteTx, Forget
  <2>10. CASE ListOut(c)
    BY <2>10 DEF ListOut, Outgoing
  <2>11. CASE ListIn(c)
    BY <2>11 DEF ListIn, Incoming
  <2>12. CASE DeleteListed(c)
    BY <2>12 DEF DeleteListed, Forget
  <2>13. CASE DeleteRow(c)
    BY <2>13 DEF DeleteRow
  <2>14. CASE SayDeleted(c)
    <3>1. Incident(on[c]) \subseteq Rels
      BY DEF Incident, Outgoing, Incoming
    <3>2. /\ shownRels' = shownRels \ Incident(on[c])
          /\ shownStatus' = [shownStatus EXCEPT ![on[c]] = "absent"]
      BY <2>14 DEF SayDeleted
    <3>3. /\ shownRels' \subseteq Rels
          /\ shownStatus' \in [Nodes -> Statuses \union {"absent"}]
      BY <3>1, <3>2
    <3> QED
      BY <2>14, <3>3 DEF SayDeleted
  <2>15. CASE CheckEnds(c)
    BY <2>15 DEF CheckEnds, Shape
  <2>16. CASE InsertRel(c)
    BY <2>16 DEF InsertRel, Shape
  <2>17. CASE SayCreated(c)
    BY <2>17 DEF SayCreated, Shape
  <2>18. CASE DeleteRel(c)
    BY <2>18 DEF DeleteRel, Forget
  <2>19. CASE SayRemoved(c)
    BY <2>19 DEF SayRemoved
  <2> QED
    BY <1>3, <2>1, <2>2, <2>3, <2>4, <2>5, <2>6, <2>7, <2>8, <2>9, <2>10, <2>11,
       <2>12, <2>13, <2>14, <2>15, <2>16, <2>17, <2>18, <2>19 DEF Step
<1>4. CASE UNCHANGED vars
  BY <1>4 DEF vars, request
<1> QED
  BY <1>1, <1>2, <1>3, <1>4 DEF Next

\* Every step leaves the requests in shape.
LEMMA ShapeKeeps ==
  ASSUME TypeOK, Shape, [Next]_vars
  PROVE  Shape'
<1> USE DEF TypeOK, GoTo, Finish, Leave, Steps, RegisterSteps, UpdateSteps,
            DeleteSteps, LinkSteps, UnlinkSteps, tables, copy,
            Incident, Outgoing, Incoming
<1>1. ASSUME NEW c \in Clients, Call(c) PROVE Shape'
  <2>1. UNCHANGED <<row, todo, checked>> /\ pc[c] = "idle" /\ todo[c] = {}
    BY <1>1, CallBegins DEF Begin, Shape
  <2>2. \A d \in Clients : d # c =>
          pc'[d] = pc[d] /\ on'[d] = on[d] /\ want'[d] = want[d]
    BY <1>1, CallBegins DEF Begin
  <2>3. \/ pc'[c] = "insertNode" /\ on'[c] \in Nodes /\ want'[c] \in Statuses
        \/ pc'[c] \in {"getNode", "findNode"} /\ on'[c] \in Nodes
        \/ pc'[c] = "checkEnds" /\ on'[c] \in Rels
        \/ pc'[c] = "deleteRel" /\ on'[c] \in Rels
    BY <1>1, CallBegins DEF Begin
  <2>4. checked[c] = 0
    BY <2>1 DEF Shape
  <2> QED
    BY <2>1, <2>2, <2>3, <2>4 DEF Shape
<1>2. ASSUME NEW c \in Clients, Interrupted(c) PROVE Shape'
  BY <1>2 DEF Interrupted, Shape
<1>3. ASSUME NEW c \in Clients, Step(c) PROVE Shape'
  <2>1. CASE InsertNode(c)
    BY <2>1 DEF InsertNode, Shape
  <2>2. CASE SayRegistered(c)
    BY <2>2 DEF SayRegistered, Shape
  <2>3. CASE SayInitial(c)
    BY <2>3 DEF SayInitial, Shape
  <2>4. CASE GetNode(c)
    BY <2>4 DEF GetNode, Shape
  <2>5. CASE WriteNode(c)
    BY <2>5 DEF WriteNode, NewStatus, Shape
  <2>6. CASE SayState(c)
    BY <2>6 DEF SayState, NewStatus, Shape
  <2>7. CASE SayUpdated(c)
    BY <2>7 DEF SayUpdated, Shape
  <2>8. CASE FindNode(c)
    BY <2>8 DEF FindNode, Shape
  <2>9. CASE DeleteTx(c)
    BY <2>9 DEF DeleteTx, Shape
  <2>10. CASE ListOut(c)
    BY <2>10 DEF ListOut, Shape
  <2>11. CASE ListIn(c)
    BY <2>11 DEF ListIn, Shape
  <2>12. CASE DeleteListed(c)
    <3>1. /\ todo'[c] \subseteq todo[c]
          /\ \A d \in Clients : d # c => todo'[d] = todo[d] /\ pc'[d] = pc[d]
      <4>1. CASE \E p : /\ todo' = [todo EXCEPT ![c] = @ \ {p}]
                        /\ pc' = [pc EXCEPT ![c] = "deleteListed"]
        BY <4>1
      <4>2. CASE todo' = todo /\ pc' = [pc EXCEPT ![c] = "deleteNode"]
        BY <4>2
      <4> QED
        BY <2>12, <4>1, <4>2, Zenon DEF DeleteListed, GoTo
    <3>2. /\ UNCHANGED <<on, want, row, checked>>
          /\ pc[c] = "deleteListed" /\ pc'[c] \in {"deleteListed", "deleteNode"}
      BY <2>12 DEF DeleteListed
    <3>3. \A d \in Clients : \A p \in todo'[d] :
            pc'[d] \in DeleteSteps /\ p[2] \in Incident(on'[d])
      BY <3>1, <3>2 DEF Shape
    <3> HIDE DEF Incident
    <3>4. \A d \in Clients : d # c => todo'[d] = todo[d] /\ pc'[d] = pc[d]
      BY <3>1
    <3> QED
      BY <3>2, <3>3, <3>4 DEF Shape, Incident
  <2>13. CASE DeleteRow(c)
    BY <2>13 DEF DeleteRow, Shape
  <2>14. CASE SayDeleted(c)
    BY <2>14 DEF SayDeleted, Shape
  <2>15. CASE CheckEnds(c)
    BY <2>15 DEF CheckEnds, Shape
  <2>16. CASE InsertRel(c)
    BY <2>16 DEF InsertRel, Shape
  <2>17. CASE SayCreated(c)
    BY <2>17 DEF SayCreated, Shape
  <2>18. CASE DeleteRel(c)
    BY <2>18 DEF DeleteRel, Shape
  <2>19. CASE SayRemoved(c)
    BY <2>19 DEF SayRemoved, Shape
  <2> QED
    BY <1>3, <2>1, <2>2, <2>3, <2>4, <2>5, <2>6, <2>7, <2>8, <2>9, <2>10, <2>11,
       <2>12, <2>13, <2>14, <2>15, <2>16, <2>17, <2>18, <2>19 DEF Step
<1>4. CASE UNCHANGED vars
  BY <1>4 DEF vars, request, Shape
<1> QED
  BY <1>1, <1>2, <1>3, <1>4 DEF Next
-----------------------------------------------------------------------------
\* A request that begins changes nothing but the history, which keeps what it
\* shares with the others.
LEMMA CallScope ==
  ASSUME TypeOK, NEW c \in Clients, Call(c)
  PROVE  /\ Others(c) /\ UNCHANGED <<tables, copy, broken, before>>
         /\ pc[c] = "idle" /\ pc'[c] # "idle"
         /\ contended \subseteq contended'
         /\ \A d \in Clients : Scope(c)' \intersect Scope(d) \subseteq contended'
<1> DEFINE began(scope) ==
      contended' = contended \union (scope \intersect UNION {Scope(d) : d \in Clients})
<1>1. /\ pc[c] = "idle" /\ pc'[c] # "idle" /\ UNCHANGED <<tables, copy, broken, before>>
      /\ UNCHANGED <<row, todo, checked>>
  BY CallBegins DEF Begin, TypeOK
<1>2. Others(c)
  BY CallBegins DEF Begin, TypeOK, Others
<1>3. began(Scope(c)')
  <2>1. CASE \E n \in Nodes :
               \/ \E s \in Statuses \union {Keep} : RegisterNode(c, n, s) \/ UpdateNode(c, n, s)
               \/ DeleteNode(c, n)
    <3>1. PICK n \in Nodes :
               \/ \E s \in Statuses \union {Keep} : RegisterNode(c, n, s) \/ UpdateNode(c, n, s)
               \/ DeleteNode(c, n)
      BY <2>1
    <3>2. CASE \E s \in Statuses \union {Keep} : RegisterNode(c, n, s) \/ UpdateNode(c, n, s)
      <4>1. began({n}) /\ pc'[c] \in {"insertNode", "getNode"} /\ on'[c] = n
        BY <3>2 DEF RegisterNode, UpdateNode, Begin, TypeOK
      <4>2. Scope(c)' = {n}
        BY <4>1 DEF Scope, DeleteSteps
      <4> QED
        BY <4>1, <4>2
    <3>3. CASE DeleteNode(c, n)
      <4>1. began({n} \union Incident(n)) /\ pc'[c] = "findNode" /\ on'[c] = n
        BY <3>3 DEF DeleteNode, Begin, TypeOK
      <4>2. Scope(c)' = {n} \union Incident(n)
        BY <4>1 DEF Scope, DeleteSteps, Incident, Outgoing, Incoming
      <4> QED
        BY <4>1, <4>2
    <3> QED
      BY <3>1, <3>2, <3>3
  <2>2. CASE \E r \in Rels : CreateRelationship(c, r) \/ DeleteRelationship(c, r)
    <3>1. PICK r \in Rels : CreateRelationship(c, r) \/ DeleteRelationship(c, r)
      BY <2>2
    <3>2. began({r}) /\ pc'[c] \in {"checkEnds", "deleteRel"} /\ on'[c] = r
      BY <3>1 DEF CreateRelationship, DeleteRelationship, Begin, TypeOK
    <3>3. Scope(c)' = {r}
      BY <3>2 DEF Scope, DeleteSteps
    <3> QED
      BY <3>2, <3>3
  <2> QED
    BY <2>1, <2>2 DEF Call
<1> HIDE DEF began
<1>4. contended \subseteq contended'
  BY <1>3 DEF began
<1>5. ASSUME NEW d \in Clients PROVE Scope(c)' \intersect Scope(d) \subseteq contended'
  BY <1>3 DEF began
<1> QED
  BY <1>1, <1>2, <1>4, <1>5

\* Actions of c leave the scope of the others alone, and keep that of c or end it.
LEMMA ScopeOfOthers ==
  ASSUME NEW c \in Clients, Others(c), NEW d \in Clients, d # c
  PROVE  Scope(d)' = Scope(d)
BY DEF Others, Scope, Incident, Outgoing, Incoming

LEMMA ScopeOfStep ==
  ASSUME TypeOK, NEW c \in Clients, Step(c) \/ Interrupted(c)
  PROVE  \/ pc'[c] = "idle" /\ Scope(c)' = {}
         \/ pc'[c] # "idle" /\ Scope(c)' = Scope(c)
<1>1. CASE pc'[c] = "idle"
  BY <1>1 DEF Scope
<1>2. CASE pc'[c] # "idle"
  <2>1. /\ pc[c] # "idle" /\ on'[c] = on[c]
        /\ pc[c] \in DeleteSteps <=> pc'[c] \in DeleteSteps
    BY <1>2, StepScope
  <2>2. Incident(on[c])' = Incident(on[c])
    BY <2>1 DEF Incident, Outgoing, Incoming
  <2>3. DeleteSteps' = DeleteSteps
    BY DEF DeleteSteps
  <2> QED
    BY <1>2, <2>1, <2>2, <2>3 DEF Scope
<1> QED
  BY <1>1, <1>2

\* What two requests share is in the history.
LEMMA OverlapsKeeps ==
  ASSUME TypeOK, Overlaps, [Next]_vars
  PROVE  Overlaps'
<1>1. ASSUME NEW c \in Clients, Call(c) PROVE Overlaps'
  <2>1. \A d \in Clients : d # c => Scope(d)' = Scope(d)
    BY <1>1, CallScope, ScopeOfOthers
  <2>2. /\ contended \subseteq contended'
        /\ \A d \in Clients : Scope(c)' \intersect Scope(d) \subseteq contended'
    BY <1>1, CallScope
  <2> QED
    BY <2>1, <2>2 DEF Overlaps
<1>2. ASSUME NEW c \in Clients, Step(c) \/ Interrupted(c) PROVE Overlaps'
  <2>1. \A d \in Clients : Scope(d)' \subseteq Scope(d)
    BY <1>2, StepScope, ScopeOfStep, ScopeOfOthers
  <2>2. contended' = contended
    BY <1>2, StepScope
  <2> QED
    BY <2>1, <2>2 DEF Overlaps
<1>3. CASE UNCHANGED vars
  BY <1>3 DEF vars, request, Overlaps, Scope, Incident, Outgoing, Incoming
<1> QED
  BY <1>1, <1>2, <1>3 DEF Next

-----------------------------------------------------------------------------
\* A request touches only what it is about.
LEMMA StepLocal ==
  ASSUME TypeOK, Shape, NEW c \in Clients, Step(c) \/ Interrupted(c)
  PROVE  /\ \A n \in Nodes : n \notin Scope(c) => SameNode(n)
         /\ \A r \in Rels : r \notin Scope(c) => SameRel(r)
<1>1. pc[c] # "idle"
  BY StepScope
<1>2. /\ on[c] \in Scope(c)
      /\ pc[c] \in DeleteSteps => Incident(on[c]) \subseteq Scope(c)
  BY <1>1 DEF Scope
<1> USE DEF TypeOK, SameNode, SameRel, GoTo, Leave, tables, copy
<1>3. CASE InsertNode(c) \/ SayRegistered(c) \/ SayInitial(c)
  BY <1>2, <1>3 DEF InsertNode, SayRegistered, SayInitial
<1>4. CASE GetNode(c) \/ WriteNode(c) \/ SayState(c) \/ SayUpdated(c)
  BY <1>2, <1>4 DEF GetNode, WriteNode, SayState, SayUpdated
<1>5. CASE FindNode(c) \/ ListOut(c) \/ ListIn(c) \/ DeleteRow(c)
  BY <1>2, <1>5 DEF FindNode, ListOut, ListIn, DeleteRow
<1>6. CASE DeleteTx(c) \/ SayDeleted(c)
  BY <1>2, <1>6 DEF DeleteTx, SayDeleted, DeleteSteps
<1>7. CASE DeleteListed(c)
  <2>1. UNCHANGED <<status, copy>>
    BY <1>7 DEF DeleteListed
  <2>2. rels' = rels \/ \E p \in todo[c] : rels' = rels \ {p[2]}
    BY <1>7, Zenon DEF DeleteListed
  <2>3. \A p \in todo[c] : p[2] \in Scope(c)
    BY <1>2 DEF Shape
  <2> QED
    BY <2>1, <2>2, <2>3
<1>8. CASE CheckEnds(c) \/ InsertRel(c) \/ SayCreated(c)
  BY <1>2, <1>8 DEF CheckEnds, InsertRel, SayCreated
<1>9. CASE DeleteRel(c) \/ SayRemoved(c)
  BY <1>2, <1>9 DEF DeleteRel, SayRemoved
<1>10. CASE Interrupted(c)
  BY <1>10 DEF Interrupted
<1> QED
  BY <1>3, <1>4, <1>5, <1>6, <1>7, <1>8, <1>9, <1>10 DEF Step
-----------------------------------------------------------------------------
\* A node goes only when a request deletes it, and a relationship comes only
\* when a request creates it.
LEMMA NodeGoes ==
  ASSUME TypeOK, Shape, NEW c \in Clients, Step(c) \/ Interrupted(c),
         NEW n \in Nodes, status[n] # "absent", status'[n] = "absent"
  PROVE  /\ n = on[c]
         /\ \/ pc[c] = "deleteTx" /\ rels' = rels \ Incident(n)
            \/ pc[c] = "deleteNode" /\ rels' = rels
<1> USE DEF TypeOK, Leave, tables
<1>1. CASE InsertNode(c)
  BY <1>1 DEF InsertNode, Shape, RegisterSteps
<1>2. CASE WriteNode(c)
  BY <1>2, GraphAssumption DEF WriteNode, NewStatus, Shape
<1>3. CASE DeleteTx(c)
  BY <1>3 DEF DeleteTx
<1>4. CASE DeleteRow(c)
  BY <1>4 DEF DeleteRow
<1>5. CASE UNCHANGED status
  BY <1>5
<1> QED
  BY <1>1, <1>2, <1>3, <1>4, <1>5 DEF Step, Interrupted, SayRegistered, SayInitial,
     GetNode, SayState, SayUpdated, FindNode, ListOut, ListIn, DeleteListed,
     SayDeleted, CheckEnds, InsertRel, SayCreated, DeleteRel, SayRemoved

LEMMA RelComes ==
  ASSUME TypeOK, NEW c \in Clients, Step(c) \/ Interrupted(c),
         NEW r \in rels', r \notin rels
  PROVE  InsertRel(c) /\ r = on[c]
<1> USE DEF TypeOK, Leave, tables
<1>1. CASE InsertRel(c)
  BY <1>1 DEF InsertRel
<1>2. CASE DeleteListed(c)
  BY <1>2, Zenon DEF DeleteListed
<1>3. CASE rels' \subseteq rels
  BY <1>3
<1> QED
  BY <1>1, <1>2, <1>3 DEF Step, Interrupted, InsertNode, SayRegistered, SayInitial,
     GetNode, WriteNode, SayState, SayUpdated, FindNode, DeleteTx, ListOut, ListIn,
     DeleteRow, SayDeleted, CheckEnds, SayCreated, DeleteRel, SayRemoved

\* A request that checked the ends of a relationship keeps them from going
\* unnoticed.
LEMMA LinkingKeeps ==
  ASSUME TypeOK, Shape, Overlaps, Linking, [Next]_vars
  PROVE  Linking'
<1>1. ASSUME NEW c \in Clients, Call(c) PROVE Linking'
  <2>1. UNCHANGED <<status, checked>> /\ pc[c] = "idle" /\ contended \subseteq contended'
    BY <1>1, CallScope, CallBegins DEF tables
  <2>2. checked'[c] = 0 /\ pc'[c] # "insertRel"
    BY <1>1, <2>1, CallBegins DEF Begin, Shape, TypeOK
  <2>3. \A d \in Clients : d # c => pc'[d] = pc[d] /\ on'[d] = on[d]
    BY <1>1, CallScope DEF Others
  <2> QED
    BY <2>1, <2>2, <2>3 DEF Linking
<1>2. ASSUME NEW c \in Clients, Step(c) \/ Interrupted(c) PROVE Linking'
  <2> SUFFICES ASSUME NEW d \in Clients, pc'[d] \in {"checkEnds", "insertRel"},
                      on'[d] \notin contended'
               PROVE  /\ checked'[d] >= 1 \/ pc'[d] = "insertRel"
                           => status'[From[on'[d]]] # "absent"
                      /\ checked'[d] >= 2 \/ pc'[d] = "insertRel"
                           => status'[To[on'[d]]] # "absent"
    BY DEF Linking
  <2>1. contended' = contended /\ Others(c)
    BY <1>2, StepScope
  <2>2. CASE d # c
    <3>1. /\ pc'[d] = pc[d] /\ on'[d] = on[d] /\ checked'[d] = checked[d]
          /\ on[d] \in Rels /\ on[d] \notin contended
      BY <2>1, <2>2 DEF Others, Shape, LinkSteps
    <3>2. on[d] \in Scope(d)
      BY <3>1 DEF Scope
    <3>3. on[d] \notin Scope(c)
      BY <2>2, <3>1, <3>2 DEF Overlaps
    <3>4. ASSUME NEW n \in {From[on[d]], To[on[d]]}, status[n] # "absent"
          PROVE  status'[n] # "absent"
      <4> SUFFICES ASSUME status'[n] = "absent" PROVE FALSE
        OBVIOUS
      <4>1. n \in Nodes
        BY <3>1, EndsAssumption
      <4>2. n = on[c] /\ pc[c] \in DeleteSteps
        BY <1>2, <3>4, <4>1, NodeGoes DEF DeleteSteps
      <4>3. on[d] \in Incident(on[c])
        BY <3>1, <4>2 DEF Incident, Outgoing, Incoming
      <4> QED
        BY <3>3, <4>2, <4>3 DEF Scope, DeleteSteps
    <3> QED
      BY <3>1, <3>4 DEF Linking
  <2>3. CASE d = c
    <3>1. CheckEnds(c)
      BY <1>2, <2>3 DEF Step, Interrupted, Finish, Leave, GoTo, TypeOK, InsertNode,
         SayRegistered, SayInitial, GetNode, WriteNode, SayState, SayUpdated, FindNode,
         DeleteTx, ListOut, ListIn, DeleteListed, DeleteRow, SayDeleted, InsertRel,
         SayCreated, DeleteRel, SayRemoved
    <3>2. /\ pc[c] = "checkEnds" /\ on'[c] = on[c] /\ status' = status
          /\ checked'[c] = checked[c] + 1 /\ checked[c] \in 0..3
          /\ pc'[c] = "insertRel" => checked[c] = 3
          /\ status[IF checked[c] % 2 = 0 THEN From[on[c]] ELSE To[on[c]]] # "absent"
      BY <2>3, <3>1 DEF CheckEnds, Leave, Finish, TypeOK, Shape, tables
    <3>3. checked[c] = 0 => status[From[on[c]]] # "absent"
      BY <3>2
    <3>4. checked[c] = 1 => status[To[on[c]]] # "absent"
      BY <3>2
    <3> QED
      BY <2>1, <2>3, <3>2, <3>3, <3>4 DEF Linking
  <2> QED
    BY <2>2, <2>3
<1>3. CASE UNCHANGED vars
  BY <1>3 DEF vars, tables, request, Linking
<1> QED
  BY <1>1, <1>2, <1>3 DEF Next

\* Nobody leaves a relationship without its ends.
LEMMA NoDanglingKeeps ==
  ASSUME TypeOK, Shape, Overlaps, Deleting, Linking, NoDangling, [Next]_vars
  PROVE  NoDangling'
<1>1. ASSUME NEW c \in Clients, Call(c) PROVE NoDangling'
  BY <1>1, CallScope DEF tables, NoDangling
<1>2. ASSUME NEW c \in Clients, Step(c) \/ Interrupted(c) PROVE NoDangling'
  <2> SUFFICES ASSUME NEW r \in rels' \ contended',
                      NEW n \in {From[r], To[r]}, status'[n] = "absent"
               PROVE  FALSE
    BY DEF NoDangling
  <2>1. contended' = contended
    BY <1>2, StepScope
  <2>2. CASE r \in rels
    <3>1. r \in Rels /\ n \in Nodes /\ status[n] # "absent"
      BY <2>1, <2>2, EndsAssumption DEF NoDangling, TypeOK
    <3>2. r \in Incident(n)
      BY <3>1 DEF Incident, Outgoing, Incoming
    <3>3. n = on[c] /\ pc[c] = "deleteNode"
      BY <1>2, <3>1, <3>2, NodeGoes
    <3> QED
      BY <2>1, <2>2, <3>2, <3>3 DEF Deleting, Covered
  <2>3. CASE r \notin rels
    <3>1. InsertRel(c) /\ r = on[c]
      BY <1>2, <2>3, RelComes
    <3> QED
      BY <2>1, <3>1 DEF InsertRel, Linking
  <2> QED
    BY <2>2, <2>3
<1>3. CASE UNCHANGED vars
  BY <1>3 DEF vars, tables, NoDangling
<1> QED
  BY <1>1, <1>2, <1>3 DEF Next
-----------------------------------------------------------------------------
\* Fewer relationships are covered all the more.
LEMMA CoveredShrinks ==
  ASSUME NEW step, NEW n, NEW listed, NEW S, NEW T, Covered(step, n, listed, S),
         step \in DeleteSteps => T \intersect Incident(n) \subseteq S
  PROVE  Covered(step, n, listed, T)
BY DEF Covered, DeleteSteps, Incident

\* One step of a deletion: T, what remains of S, is as covered as it should be
\* for the next step.
LEMMA CoveredStep ==
  ASSUME TypeOK, NEW c \in Clients, Step(c) \/ Interrupted(c),
         NEW S, NEW T, Covered(pc[c], on[c], Listed(c), S),
         T \subseteq rels', pc[c] \in Removing => T \subseteq S
  PROVE  Covered(pc'[c], on'[c], Listed(c)', T)
<1> USE DEF TypeOK, GoTo, Finish, Leave, tables
<1>1. CASE ListOut(c)
  <2>1. /\ pc'[c] = "listIn" /\ on'[c] = on[c] /\ rels' = rels
        /\ todo'[c] = {"out"} \X (rels \intersect Outgoing(on[c]))
    BY <1>1 DEF ListOut
  <2>2. \A r \in rels \intersect Outgoing(on[c]) : r \in Listed(c)'
    <3> TAKE r \in rels \intersect Outgoing(on[c])
    <3>1. <<"out", r>> \in todo'[c] /\ <<"out", r>>[2] = r
      BY <2>1
    <3> QED
      BY <3>1 DEF Listed
  <2> QED
    BY <2>1, <2>2 DEF Covered
<1>2. CASE ListIn(c)
  <2>1. /\ pc[c] = "listIn" /\ pc'[c] = "deleteListed" /\ on'[c] = on[c] /\ rels' = rels
        /\ todo'[c] = todo[c] \union {"in"} \X (rels \intersect Incoming(on[c]))
    BY <1>2 DEF ListIn
  <2>2. \A r \in rels \intersect Incoming(on[c]) : r \in Listed(c)'
    <3> TAKE r \in rels \intersect Incoming(on[c])
    <3>1. <<"in", r>> \in todo'[c] /\ <<"in", r>>[2] = r
      BY <2>1
    <3> QED
      BY <3>1 DEF Listed
  <2>3. Listed(c) \subseteq Listed(c)'
    BY <2>1 DEF Listed
  <2>4. T \intersect Outgoing(on[c]) \subseteq Listed(c)
    BY <2>1 DEF Covered, Removing
  <2> QED
    BY <2>1, <2>2, <2>3, <2>4 DEF Covered, Incident
<1>3. CASE DeleteListed(c)
  <2>1. on'[c] = on[c] /\ T \intersect Incident(on[c]) \subseteq Listed(c)
    BY <1>3 DEF DeleteListed, Covered, Removing
  <2>2. CASE \E p \in todo[c] : /\ rels' = rels \ {p[2]}
                                /\ todo' = [todo EXCEPT ![c] = @ \ {p}]
                                /\ pc' = [pc EXCEPT ![c] = "deleteListed"]
    <3>1. PICK p \in todo[c] : /\ rels' = rels \ {p[2]}
                               /\ todo' = [todo EXCEPT ![c] = @ \ {p}]
                               /\ pc' = [pc EXCEPT ![c] = "deleteListed"]
      BY <2>2
    <3>2. Listed(c) \ {p[2]} \subseteq Listed(c)'
      BY <3>1 DEF Listed
    <3>3. T \intersect Incident(on[c]) \subseteq Listed(c)'
      BY <2>1, <3>1, <3>2
    <3> QED
      BY <2>1, <3>1, <3>3 DEF Covered
  <2>3. CASE todo[c] = {} /\ pc'[c] = "deleteNode"
    <3>1. Listed(c) = {}
      BY <2>3 DEF Listed
    <3> QED
      BY <2>1, <2>3, <3>1 DEF Covered
  <2>4. \/ \E p \in todo[c] : /\ rels' = rels \ {p[2]}
                              /\ todo' = [todo EXCEPT ![c] = @ \ {p}]
                              /\ pc' = [pc EXCEPT ![c] = "deleteListed"]
        \/ todo[c] = {} /\ pc' = [pc EXCEPT ![c] = "deleteNode"]
    BY <1>3, Zenon DEF DeleteListed
  <2> QED
    BY <2>2, <2>3, <2>4
<1>4. CASE DeleteRow(c)
  BY <1>4 DEF DeleteRow, Covered, Removing
<1>5. CASE DeleteTx(c)
  BY <1>5 DEF DeleteTx, Covered
<1>6. CASE pc'[c] \notin {"listIn", "deleteListed", "deleteNode", "sayDeleted"}
  BY <1>6 DEF Covered
<1> QED
  BY <1>1, <1>2, <1>3, <1>4, <1>5, <1>6 DEF Step, Interrupted, InsertNode,
     SayRegistered, SayInitial, GetNode, WriteNode, SayState, SayUpdated, FindNode,
     SayDeleted, CheckEnds, InsertRel, SayCreated, DeleteRel, SayRemoved

\* What a deletion found goes as the relationships go, and grows only as a
\* deletion begins.
LEMMA BeforeStep ==
  ASSUME TypeOK, NEW c \in Clients, Step(c) \/ Interrupted(c),
         \A d \in Clients : before[d] \subseteq rels
  PROVE  /\ \A d \in Clients : before'[d] \subseteq rels'
         /\ \A d \in Clients : \/ before'[d] \subseteq before[d]
                               \/ d = c /\ pc[c] = "findNode"
         /\ pc[c] = "findNode" /\ pc'[c] # "idle" => before'[c] \subseteq Incident(on[c])
<1> USE DEF TypeOK, GoTo, Finish, Leave, tables
<1>1. CASE FindNode(c)
  BY <1>1 DEF FindNode
<1>2. CASE pc[c] # "findNode" /\ rels \subseteq rels'
           /\ \A d \in Clients : before'[d] \subseteq before[d]
  BY <1>2
<1>3. CASE pc[c] # "findNode" /\ \E gone : rels' = rels \ gone /\ Forget(gone)
  BY <1>3 DEF Forget
<1>4. CASE Interrupted(c)
  BY <1>4 DEF Interrupted
<1>5. CASE DeleteListed(c)
  <2>1. pc[c] = "deleteListed"
    BY <1>5 DEF DeleteListed
  <2>2. \/ \E gone : rels' = rels \ gone /\ Forget(gone)
        \/ rels' = rels /\ before' = before
    BY <1>5, Zenon DEF DeleteListed
  <2> QED
    BY <1>2, <1>3, <2>1, <2>2
<1> QED
  BY <1>1, <1>2, <1>3, <1>4, <1>5 DEF Step, InsertNode, SayRegistered, SayInitial, GetNode,
     WriteNode, SayState, SayUpdated, DeleteTx, ListOut, ListIn, DeleteRow, SayDeleted,
     CheckEnds, InsertRel, SayCreated, DeleteRel, SayRemoved

\* A deletion misses nothing it found, and nothing that is its own alone.
LEMMA DeletingKeeps ==
  ASSUME TypeOK, Shape, Overlaps, Deleting, [Next]_vars
  PROVE  Deleting'
<1>1. ASSUME NEW c \in Clients, Call(c) PROVE Deleting'
  <2> SUFFICES ASSUME NEW d \in Clients
               PROVE  /\ Covered(pc'[d], on'[d], Listed(d)', rels' \ contended')
                      /\ Covered(pc'[d], on'[d], Listed(d)', before'[d])
                      /\ before'[d] \subseteq rels'
                      /\ pc'[d] \in Removing => before'[d] \subseteq Incident(on'[d])
    BY DEF Deleting, Removing, Incident, Outgoing, Incoming
  <2>1. UNCHANGED <<rels, before>> /\ contended \subseteq contended'
    BY <1>1, CallScope DEF tables
  <2>2. CASE d # c
    <3>1. pc'[d] = pc[d] /\ on'[d] = on[d] /\ todo'[d] = todo[d]
      BY <1>1, <2>2, CallScope DEF Others
    <3>2. Listed(d)' = Listed(d)
      BY <3>1 DEF Listed
    <3>3. Covered(pc[d], on[d], Listed(d), rels' \ contended')
      BY <2>1, CoveredShrinks DEF Deleting
    <3> QED
      BY <2>1, <3>1, <3>2, <3>3 DEF Deleting
  <2>3. CASE d = c
    <3>1. pc'[c] \in {"insertNode", "getNode", "findNode", "checkEnds", "deleteRel"}
      BY <1>1, CallBegins DEF Begin, TypeOK
    <3> QED
      BY <2>1, <2>3, <3>1 DEF Deleting, Covered, Removing
  <2> QED
    BY <2>2, <2>3
<1>2. ASSUME NEW c \in Clients, Step(c) \/ Interrupted(c) PROVE Deleting'
  <2> SUFFICES ASSUME NEW d \in Clients
               PROVE  /\ Covered(pc'[d], on'[d], Listed(d)', rels' \ contended')
                      /\ Covered(pc'[d], on'[d], Listed(d)', before'[d])
                      /\ before'[d] \subseteq rels'
                      /\ pc'[d] \in Removing => before'[d] \subseteq Incident(on'[d])
    BY DEF Deleting, Removing, Incident, Outgoing, Incoming
  <2>1. contended' = contended /\ Others(c) /\ pc[c] # "idle"
    BY <1>2, StepScope
  <2>2. /\ before'[d] \subseteq rels'
        /\ \/ before'[d] \subseteq before[d]
           \/ d = c /\ pc[c] = "findNode"
    BY <1>2, BeforeStep DEF Deleting
  <2>3. ASSUME NEW r \in rels', r \notin rels
        PROVE  r = on[c] /\ pc[c] = "insertRel" /\ r \in Scope(c)
    BY <1>2, <2>1, <2>3, RelComes DEF InsertRel, Scope
  <2>4. CASE d # c
    <3>1. pc'[d] = pc[d] /\ on'[d] = on[d] /\ todo'[d] = todo[d]
      BY <2>1, <2>4 DEF Others
    <3>2. Listed(d)' = Listed(d)
      BY <3>1 DEF Listed
    <3>3. ASSUME pc[d] \in DeleteSteps, NEW r \in (rels' \ contended') \intersect Incident(on[d])
          PROVE  r \in rels \ contended
      <4>1. r \in Scope(d)
        BY <3>3 DEF Scope, DeleteSteps
      <4>2. r \notin Scope(c)
        BY <2>1, <2>4, <3>3, <4>1 DEF Overlaps
      <4> QED
        BY <2>1, <2>3, <3>3, <4>2
    <3>4. Covered(pc[d], on[d], Listed(d), rels' \ contended')
      BY <3>3, CoveredShrinks DEF Deleting
    <3>5. Covered(pc[d], on[d], Listed(d), before'[d])
      BY <2>2, <2>4, CoveredShrinks DEF Deleting
    <3> QED
      BY <2>2, <2>4, <3>1, <3>2, <3>4, <3>5 DEF Deleting
  <2>5. CASE d = c
    <3>1. pc[c] \in Removing => before'[c] \subseteq before[c]
      BY <2>2, <2>5 DEF Removing
    <3>2. pc[c] \in Removing => rels' \ contended' \subseteq rels \ contended
      BY <2>1, <2>3 DEF Removing
    <3>3. Covered(pc'[c], on'[c], Listed(c)', rels' \ contended')
      BY <1>2, <3>2, CoveredStep DEF Deleting
    <3>4. Covered(pc'[c], on'[c], Listed(c)', before'[c])
      BY <1>2, <2>2, <2>5, <3>1, CoveredStep DEF Deleting
    <3>5. ASSUME pc'[c] \in Removing PROVE before'[c] \subseteq Incident(on'[c])
      <4>1. pc[c] \in Removing \union {"findNode"} /\ pc'[c] # "idle" /\ on'[c] = on[c]
        BY <1>2, <3>5, StepScope DEF Removing, DeleteSteps
      <4>2. CASE pc[c] = "findNode"
        BY <1>2, <4>1, <4>2, BeforeStep DEF Deleting
      <4>3. CASE pc[c] \in Removing
        BY <3>1, <4>1, <4>3 DEF Deleting
      <4> QED
        BY <4>1, <4>2, <4>3
    <3> QED
      BY <2>2, <2>5, <3>3, <3>4, <3>5
  <2> QED
    BY <2>4, <2>5
<1>3. CASE UNCHANGED vars
  BY <1>3 DEF vars, tables, request, Deleting, Listed, Incident, Outgoing, Incoming
<1> QED
  BY <1>1, <1>2, <1>3 DEF Next
-----------------------------------------------------------------------------
\* The copy of the node a request works on, one step later.
LEMMA NodeCopyStep ==
  ASSUME TypeOK, Shape, NEW c \in Clients, Step(c) \/ Interrupted(c),
         NEW n \in Nodes, n \in Scope(c), n \notin broken', NodeCopy(c, n)
  PROVE  IF pc'[c] = "idle" THEN shownStatus'[n] = status'[n] ELSE NodeCopy(c, n)'
<1>1. n = on[c] /\ pc[c] # "idle"
  BY GraphAssumption DEF Scope, Incident, Outgoing, Incoming, TypeOK
<1>0. pc[c] \in RegisterSteps \union UpdateSteps \union DeleteSteps
  BY <1>1, GraphAssumption DEF TypeOK, Shape, Steps
<1> USE DEF TypeOK, GoTo, Finish, Leave, tables, copy, NodeCopy, DeleteSteps
<1>2. CASE InsertNode(c)
  BY <1>1, <1>2 DEF InsertNode
<1>3. CASE SayRegistered(c)
  BY <1>1, <1>3 DEF SayRegistered
<1>4. CASE SayInitial(c)
  BY <1>1, <1>4 DEF SayInitial
<1>5. CASE GetNode(c)
  BY <1>1, <1>5 DEF GetNode
<1>6. CASE WriteNode(c)
  BY <1>1, <1>6 DEF WriteNode, NewStatus
<1>7. CASE SayState(c)
  BY <1>1, <1>7 DEF SayState, NewStatus
<1>8. CASE SayUpdated(c)
  BY <1>1, <1>8 DEF SayUpdated
<1>9. CASE FindNode(c) \/ ListOut(c) \/ ListIn(c)
  BY <1>1, <1>9 DEF FindNode, ListOut, ListIn
<1>10. CASE DeleteTx(c)
  BY <1>1, <1>10 DEF DeleteTx
<1>11. CASE DeleteListed(c)
  <2>1. /\ pc[c] = "deleteListed" /\ pc'[c] \in {"deleteListed", "deleteNode"}
        /\ UNCHANGED <<status, shownStatus>>
    BY <1>11 DEF DeleteListed
  <2> QED
    BY <2>1
<1>12. CASE DeleteRow(c) \/ SayDeleted(c)
  BY <1>1, <1>12 DEF DeleteRow, SayDeleted
<1>13. CASE Interrupted(c)
  <2>1. pc[c] \notin Unannounced
    BY <1>13 DEF Interrupted
  <2> QED
    BY <1>0, <1>13, <2>1 DEF Interrupted, Unannounced, RegisterSteps, UpdateSteps
<1> QED
  BY <1>0, <1>2, <1>3, <1>4, <1>5, <1>6, <1>7, <1>8, <1>9, <1>10, <1>11, <1>12, <1>13
     DEF Step, CheckEnds, InsertRel, SayCreated, DeleteRel, SayRemoved, RegisterSteps,
     UpdateSteps

\* The copy of a relationship a request works on, one step later.
LEMMA RelCopyStep ==
  ASSUME TypeOK, Shape, Deleting, NEW c \in Clients, Step(c) \/ Interrupted(c),
         NEW r \in Rels, r \in Scope(c), r \notin contended \union broken', RelCopy(c, r)
  PROVE  IF pc'[c] = "idle" THEN (r \in shownRels' <=> r \in rels') ELSE RelCopy(c, r)'
<1>1. /\ pc[c] # "idle"
      /\ \/ pc[c] \in DeleteSteps /\ r \in Incident(on[c])
         \/ pc[c] \in LinkSteps \union UnlinkSteps /\ r = on[c]
  BY GraphAssumption DEF Scope, Shape, TypeOK, Steps
<1> USE DEF TypeOK, GoTo, Finish, Leave, tables, copy, RelCopy, DeleteSteps, LinkSteps,
            UnlinkSteps
<1>2. CASE FindNode(c) \/ ListOut(c) \/ ListIn(c)
  BY <1>1, <1>2 DEF FindNode, ListOut, ListIn
<1>3. CASE DeleteTx(c)
  BY <1>1, <1>3 DEF DeleteTx
<1>4. CASE DeleteListed(c)
  <2>1. /\ pc[c] = "deleteListed" /\ pc'[c] \in {"deleteListed", "deleteNode"}
        /\ shownRels' = shownRels
    BY <1>4 DEF DeleteListed
  <2>2. rels' \subseteq rels
    BY <1>4, Zenon DEF DeleteListed
  <2> QED
    BY <2>1, <2>2
<1>5. CASE DeleteRow(c)
  <2>1. pc[c] = "deleteNode" /\ r \notin rels
    BY <1>1, <1>5 DEF DeleteRow, Deleting, Covered
  <2> QED
    BY <1>5, <2>1 DEF DeleteRow
<1>6. CASE SayDeleted(c)
  BY <1>1, <1>6 DEF SayDeleted
<1>7. CASE CheckEnds(c)
  BY <1>1, <1>7 DEF CheckEnds
<1>8. CASE InsertRel(c) \/ SayCreated(c)
  BY <1>1, <1>8 DEF InsertRel, SayCreated
<1>9. CASE DeleteRel(c) \/ SayRemoved(c)
  BY <1>1, <1>9 DEF DeleteRel, SayRemoved
<1>10. CASE Interrupted(c)
  <2>1. pc[c] \notin Unannounced
    BY <1>10 DEF Interrupted
  <2> QED
    BY <1>1, <1>10, <2>1 DEF Interrupted, Unannounced
<1> QED
  BY <1>1, <1>2, <1>3, <1>4, <1>5, <1>6, <1>7, <1>8, <1>9, <1>10
     DEF Step, InsertNode, SayRegistered, SayInitial, GetNode, WriteNode, SayState,
     SayUpdated

\* The copy of what no request works on agrees with the tables.
LEMMA CopyingKeeps ==
  ASSUME TypeOK, Shape, Overlaps, Deleting, Copying, [Next]_vars
  PROVE  Copying'
<1>1. ASSUME NEW c \in Clients, Call(c) PROVE Copying'
  <2>1. /\ UNCHANGED <<status, rels, shownStatus, shownRels, broken>>
        /\ Others(c) /\ UNCHANGED row /\ contended \subseteq contended'
        /\ pc[c] = "idle"
    BY <1>1, CallScope, CallBegins DEF tables, copy
  <2>2. \A d \in Clients : d # c => Scope(d)' = Scope(d)
    BY <1>1, <2>1, ScopeOfOthers
  <2>3. Scope(c) = {}
    BY <2>1 DEF Scope
  <2>4. \A x : Quiet(x)' => Quiet(x)
    BY <2>1, <2>2, <2>3 DEF Quiet
  <2>5. CopyAgrees'
    BY <2>1, <2>4 DEF Copying, CopyAgrees
  <2>6. ASSUME NEW x \in Scope(c)' \ (contended' \union broken')
        PROVE  IF x \in Nodes THEN NodeCopy(c, x)' ELSE RelCopy(c, x)'
    <3>1. Quiet(x)
      BY <1>1, <2>1, CallScope DEF Quiet
    <3>2. pc'[c] \in {"insertNode", "getNode", "findNode", "checkEnds", "deleteRel"}
      BY <1>1, CallBegins DEF Begin, TypeOK
    <3>3. CASE x \in Nodes
      BY <2>1, <3>1, <3>2, <3>3 DEF Copying, CopyAgrees, NodeCopy
    <3>4. CASE x \in Rels
      BY <2>1, <3>1, <3>2, <3>4, GraphAssumption DEF Copying, CopyAgrees, RelCopy
    <3>5. x \in Nodes \union Rels
      BY <1>1, TypeKeeps, ShapeKeeps DEF Next, Scope, Shape, TypeOK, Steps, Incident,
         Outgoing, Incoming
    <3> QED
      BY <3>3, <3>4, <3>5
  <2>7. ASSUME NEW d \in Clients, d # c, NEW x \in Scope(d)' \ (contended' \union broken')
        PROVE  IF x \in Nodes THEN NodeCopy(d, x)' ELSE RelCopy(d, x)'
    <3>1. x \in Scope(d) \ (contended \union broken)
      BY <2>1, <2>2, <2>7
    <3>2. pc'[d] = pc[d] /\ want'[d] = want[d] /\ row'[d] = row[d]
      BY <2>1, <2>7 DEF Others
    <3> QED
      BY <2>1, <3>1, <3>2 DEF Copying, NodeCopy, RelCopy, NewStatus
  <2> QED
    BY <2>5, <2>6, <2>7 DEF Copying
<1>2. ASSUME NEW c \in Clients, Step(c) \/ Interrupted(c) PROVE Copying'
  <2>1. /\ Others(c) /\ contended' = contended /\ broken \subseteq broken'
        /\ Scope(c)' \subseteq Scope(c) /\ \A d \in Clients : d # c => Scope(d)' = Scope(d)
    BY <1>2, StepScope, ScopeOfStep, ScopeOfOthers
  <2>2. ASSUME NEW x \in Scope(c) \ (contended' \union broken')
        PROVE  /\ x \in Nodes =>
                    IF pc'[c] = "idle" THEN shownStatus'[x] = status'[x] ELSE NodeCopy(c, x)'
               /\ x \in Rels =>
                    IF pc'[c] = "idle" THEN (x \in shownRels' <=> x \in rels')
                                       ELSE RelCopy(c, x)'
    <3>1. x \in Scope(c) \ (contended \union broken)
      BY <2>1
    <3>2. x \in Nodes => NodeCopy(c, x)
      BY <3>1 DEF Copying
    <3>3. x \in Rels => RelCopy(c, x)
      BY <3>1, GraphAssumption DEF Copying
    <3> QED
      BY <1>2, <2>1, <3>1, <3>2, <3>3, NodeCopyStep, RelCopyStep
  <2>3. ASSUME NEW x, Quiet(x)', x \notin Scope(c) PROVE Quiet(x)
    BY <2>1, <2>3 DEF Quiet
  <2>4. ASSUME NEW x, Quiet(x)', x \in Scope(c) PROVE pc'[c] = "idle"
    <3>1. x \notin Scope(c)'
      BY <2>4 DEF Quiet
    <3> QED
      BY <1>2, <2>4, <3>1, ScopeOfStep
  <2>5. CopyAgrees'
    <3>1. ASSUME NEW n \in Nodes, Quiet(n)' PROVE shownStatus'[n] = status'[n]
      <4>1. CASE n \in Scope(c)
        BY <2>2, <2>4, <3>1, <4>1 DEF Quiet
      <4>2. CASE n \notin Scope(c)
        BY <1>2, <2>3, <3>1, <4>2, StepLocal DEF SameNode, Copying, CopyAgrees
      <4> QED
        BY <4>1, <4>2
    <3>2. ASSUME NEW r \in Rels, Quiet(r)' PROVE r \in shownRels' <=> r \in rels'
      <4>1. CASE r \in Scope(c)
        BY <2>2, <2>4, <3>2, <4>1 DEF Quiet
      <4>2. CASE r \notin Scope(c)
        BY <1>2, <2>3, <3>2, <4>2, StepLocal DEF SameRel, Copying, CopyAgrees
      <4> QED
        BY <4>1, <4>2
    <3> QED
      BY <3>1, <3>2 DEF CopyAgrees
  <2>6. \A d \in Clients : Scope(d)' \subseteq Nodes \union Rels
    <3>1. TypeOK' /\ Shape'
      BY <1>2, TypeKeeps, ShapeKeeps
    <3> QED
      BY <3>1 DEF Scope, Shape, TypeOK, Steps, Incident, Outgoing, Incoming
  <2>7. ASSUME NEW x \in Scope(c)' \ (contended' \union broken')
        PROVE  IF x \in Nodes THEN NodeCopy(c, x)' ELSE RelCopy(c, x)'
    <3>1. x \in Scope(c) /\ pc'[c] # "idle" /\ x \in Nodes \union Rels
      BY <2>1, <2>6 DEF Scope
    <3> QED
      BY <2>2, <2>7, <3>1
  <2>8. ASSUME NEW d \in Clients, d # c, NEW x \in Scope(d)' \ (contended' \union broken')
        PROVE  IF x \in Nodes THEN NodeCopy(d, x)' ELSE RelCopy(d, x)'
    <3>1. x \in Scope(d) \ (contended \union broken) /\ x \in Nodes \union Rels
      BY <2>1, <2>6, <2>8
    <3>2. x \notin Scope(c)
      BY <2>8, <3>1 DEF Overlaps
    <3>3. pc'[d] = pc[d] /\ want'[d] = want[d] /\ row'[d] = row[d]
      BY <2>1, <2>8 DEF Others
    <3>4. CASE x \in Nodes
      <4>1. SameNode(x) /\ NodeCopy(d, x)
        BY <1>2, <3>1, <3>2, <3>4, StepLocal DEF Copying
      <4> QED
        BY <3>3, <3>4, <4>1 DEF SameNode, NodeCopy, NewStatus
    <3>5. CASE x \notin Nodes
      <4>1. SameRel(x) /\ RelCopy(d, x)
        BY <1>2, <3>1, <3>2, <3>5, StepLocal DEF Copying
      <4> QED
        BY <3>3, <3>5, <4>1 DEF SameRel, RelCopy
    <3> QED
      BY <3>4, <3>5
  <2> QED
    BY <2>5, <2>7, <2>8 DEF Copying
<1>3. CASE UNCHANGED vars
  BY <1>3 DEF vars, tables, copy, request, Copying, CopyAgrees, Quiet, Scope, Incident,
     Outgoing, Incoming, NodeCopy, RelCopy, NewStatus
<1> QED
  BY <1>1, <1>2, <1>3 DEF Next

-----------------------------------------------------------------------------
\* The tables are whole as the service starts, and nobody is at work.
LEMMA InitIndInv == Init => IndInv
<1> SUFFICES ASSUME Init PROVE IndInv
  OBVIOUS
<1>1. TypeOK
  BY GraphAssumption DEF Init, TypeOK
<1>2. \A c \in Clients : pc[c] = "idle" /\ Scope(c) = {}
  BY DEF Init, Scope
<1>3. Shape
  BY DEF Init, Shape, RegisterSteps, UpdateSteps, DeleteSteps, LinkSteps, UnlinkSteps
<1>4. Overlaps /\ Linking
  BY <1>2 DEF Overlaps, Linking
<1>5. Deleting
  BY <1>2 DEF Init, Deleting, Covered, Removing
<1>6. NoDangling
  BY DEF Init, NoDangling
<1>7. Copying
  BY <1>2 DEF Init, Copying, CopyAgrees
<1> QED
  BY <1>1, <1>3, <1>4, <1>5, <1>6, <1>7 DEF IndInv

\* The inductive invariant: for any number of requests at once, and whichever
\* of them fail, at any statement.
THEOREM Invariance == Spec => []IndInv
<1>1. IndInv /\ [Next]_vars => IndInv'
  BY TypeKeeps, ShapeKeeps, OverlapsKeeps, DeletingKeeps, LinkingKeeps,
     NoDanglingKeeps, CopyingKeeps DEF IndInv
<1> QED
  BY <1>1, InitIndInv, PTL DEF Spec

\* Type correctness.
THEOREM TypeCorrect == Spec => []TypeOK
<1>1. IndInv => TypeOK
  BY DEF IndInv
<1> QED
  BY <1>1, Invariance, PTL

\* A relationship joins nodes that exist, unless another request worked on it
\* while it was created or its node deleted.
THEOREM Referential == Spec => []NoDangling
<1>1. IndInv => NoDangling
  BY DEF IndInv
<1> QED
  BY <1>1, Invariance, PTL

\* A deletion that is announced left nothing it had found.
THEOREM DeletesAll == Spec => []DeletionComplete
<1>1. IndInv => DeletionComplete
  <2> SUFFICES ASSUME IndInv, NEW c \in Clients, pc[c] = "sayDeleted"
               PROVE  before[c] = {}
    BY DEF DeletionComplete
  <2>1. /\ before[c] \intersect Incident(on[c]) = {}
        /\ before[c] \subseteq Incident(on[c])
    BY DEF IndInv, Deleting, Covered, Removing
  <2> QED
    BY <2>1
<1> QED
  BY <1>1, Invariance, PTL

\* A subscriber that follows the events knows the tables, wherever no two
\* requests met and none was interrupted.
THEOREM EventsTellAll == Spec => []CopyAgrees
<1>1. IndInv => CopyAgrees
  BY DEF IndInv, Copying
<1> QED
  BY <1>1, Invariance, PTL

-----------------------------------------------------------------------------
(* The search of Traverse.                                                 *)

-----------------------------------------------------------------------------
(* Near, one level after another.                                          *)

\* A set of numbers has a least element.
LEMMA Least ==
  ASSUME NEW T, T \subseteq Nat, T # {}
  PROVE  \E n \in T : \A m \in T : n <= m
<1>1. IsWellFoundedOn(OpToRel(<, Nat), Nat)
  BY NatLessThanWellFounded
<1>2. PICK n \in T : \A m \in T : ~(<<m, n>> \in OpToRel(<, Nat))
  BY <1>1, WFMin
<1>3. \A m \in T : ~(m < n)
  BY <1>2 DEF OpToRel
<1> QED
  BY <1>3

\* What is within bounds at level 0, and stays so from each level to the next,
\* is so at all levels.
LEMMA LevelByLevel ==
  ASSUME NEW d \in Nat, NEW f, NEW h,
         f[0] \subseteq h[0],
         \A k \in 0..(d - 1) : f[k] \subseteq h[k] => f[k + 1] \subseteq h[k + 1]
  PROVE  \A k \in 0..d : f[k] \subseteq h[k]
<1> DEFINE Bad == {k \in 0..d : ~(f[k] \subseteq h[k])}
<1>1. SUFFICES ASSUME Bad # {} PROVE FALSE
  OBVIOUS
<1>2. PICK n \in Bad : \A m \in Bad : n <= m
  <2>1. Bad \subseteq Nat
    OBVIOUS
  <2> HIDE DEF Bad
  <2> QED
    BY <1>1, <2>1, Least
<1>3. n \in 1..d /\ ~(f[n] \subseteq h[n])
  OBVIOUS
<1>4. n - 1 \in 0..(d - 1) /\ n - 1 \notin Bad /\ (n - 1) + 1 = n
  BY <1>2, <1>3
<1>5. f[n - 1] \subseteq h[n - 1]
  BY <1>4
<1> QED
  BY <1>3, <1>4, <1>5

\* A set of nodes with those one step of g away from it.
Grown(g, S) == S \union {n \in Nodes : \E r \in g, m \in S : Leads(r, m, n)}

Unfolded ==
  maxDepth \in Nat =>
    \A g : /\ Near(g)[0] = {start}
           /\ \A k \in 0..(maxDepth - 1) : Near(g)[k + 1] = Grown(g, Near(g)[k])

\* Near is what its definition says, for every depth.
LEMMA NearUnfolds == Unfolded
<1> SUFFICES ASSUME maxDepth \in Nat, NEW g
             PROVE  /\ Near(g)[0] = {start}
                    /\ \A k \in 0..(maxDepth - 1) : Near(g)[k + 1] = Grown(g, Near(g)[k])
  BY DEF Unfolded
<1> DEFINE Good(n) == \E c : c = [k \in 0..n |-> IF k = 0 THEN {start} ELSE Grown(g, c[k - 1])]
           Bad == {n \in Nat : ~Good(n)}
<1>1. Good(0)
  <2> DEFINE c == [k \in 0..0 |-> {start}]
  <2>1. c = [k \in 0..0 |-> IF k = 0 THEN {start} ELSE Grown(g, c[k - 1])]
    OBVIOUS
  <2> QED
    BY <2>1
<1>2. ASSUME NEW n \in Nat, Good(n) PROVE Good(n + 1)
  <2>1. PICK c : c = [k \in 0..n |-> IF k = 0 THEN {start} ELSE Grown(g, c[k - 1])]
    BY <1>2
  <2> DEFINE d == [k \in 0..(n + 1) |-> IF k = n + 1 THEN Grown(g, c[n]) ELSE c[k]]
  <2>2. ASSUME NEW k \in 0..(n + 1)
        PROVE  d[k] = IF k = 0 THEN {start} ELSE Grown(g, d[k - 1])
    <3>1. CASE k = n + 1
      <4>1. k # 0 /\ k - 1 = n /\ n \in 0..(n + 1) /\ n # n + 1
        BY <3>1
      <4>2. d[k] = Grown(g, c[n]) /\ d[n] = c[n]
        BY <3>1, <4>1
      <4> QED
        BY <4>1, <4>2
    <3>2. CASE k \in 1..n
      <4>1. k # 0 /\ k - 1 \in 0..n /\ k \in 0..n /\ k # n + 1 /\ k - 1 # n + 1
            /\ k - 1 \in 0..(n + 1)
        BY <3>2
      <4>2. d[k] = c[k] /\ d[k - 1] = c[k - 1]
        BY <4>1
      <4>3. c[k] = Grown(g, c[k - 1])
        BY <2>1, <4>1
      <4> QED
        BY <4>1, <4>2, <4>3
    <3>3. CASE k = 0
      BY <2>1, <3>3
    <3> QED
      BY <3>1, <3>2, <3>3
  <2>3. d = [k \in 0..(n + 1) |-> IF k = 0 THEN {start} ELSE Grown(g, d[k - 1])]
    BY <2>2
  <2> QED
    BY <2>3
<1> HIDE DEF Good
<1>3. Bad = {}
  <2> SUFFICES ASSUME Bad # {} PROVE FALSE
    OBVIOUS
  <2>1. PICK n \in Bad : \A m \in Bad : n <= m
    BY Least
  <2>2. n # 0
    BY <1>1
  <2>3. n - 1 \in Nat /\ n - 1 \notin Bad /\ (n - 1) + 1 = n
    BY <2>1, <2>2
  <2> QED
    BY <1>2, <2>3
<1>4. Good(maxDepth)
  BY <1>3
<1>5. Near(g) = [k \in 0..maxDepth |->
                   IF k = 0 THEN {start} ELSE Grown(g, Near(g)[k - 1])]
  BY <1>4 DEF Good, Near, Grown
<1>6. Near(g)[0] = {start}
  BY <1>5
<1>7. ASSUME NEW k \in 0..(maxDepth - 1)
      PROVE  Near(g)[k + 1] = Grown(g, Near(g)[k])
  <2>1. k + 1 \in 0..maxDepth /\ k + 1 # 0 /\ (k + 1) - 1 = k
    OBVIOUS
  <2> QED
    BY <1>5, <2>1
<1> QED
  BY <1>6, <1>7

\* The further one goes, the more is near.
LEMMA NearGrows ==
  ASSUME maxDepth \in Nat, NEW g, NEW i \in 0..maxDepth, NEW j \in i..maxDepth
  PROVE  Near(g)[i] \subseteq Near(g)[j]
<1> DEFINE f == [k \in 0..(j - i) |-> Near(g)[i]]
           h == [k \in 0..(j - i) |-> Near(g)[i + k]]
<1>1. j - i \in Nat /\ f[0] \subseteq h[0]
  OBVIOUS
<1>2. ASSUME NEW k \in 0..((j - i) - 1), f[k] \subseteq h[k]
      PROVE  f[k + 1] \subseteq h[k + 1]
  <2>1. i + k \in 0..(maxDepth - 1) /\ i + (k + 1) = (i + k) + 1
        /\ k \in 0..(j - i) /\ k + 1 \in 0..(j - i)
    OBVIOUS
  <2>2. Near(g)[(i + k) + 1] = Grown(g, Near(g)[i + k])
    BY <2>1, NearUnfolds DEF Unfolded
  <2> QED
    BY <1>2, <2>1, <2>2 DEF Grown
<1>3. f[j - i] \subseteq h[j - i]
  <2> HIDE DEF f, h
  <2>1. \A k \in 0..(j - i) : f[k] \subseteq h[k]
    BY <1>1, <1>2, LevelByLevel
  <2> QED
    BY <1>1, <2>1
<1>4. j - i \in 0..(j - i) /\ i + (j - i) = j
  OBVIOUS
<1> QED
  BY <1>3, <1>4

\* What is near over fewer relationships is near over more of them; and to
\* delete one and to create one makes it fewer and more.
LEMMA NearShifts ==
  ASSUME TraverseTypeOK, TraverseTypeOK', UNCHANGED arguments,
         always' \subseteq always, ever \subseteq ever'
  PROVE  \A k \in 0..maxDepth : /\ Near(always)'[k] \subseteq Near(always)[k]
                                /\ Near(ever)[k] \subseteq Near(ever)'[k]
<1>1. maxDepth \in Nat /\ maxDepth' = maxDepth /\ start' = start
  BY DEF TraverseTypeOK, arguments
<1>2. \A r, m, n : Leads(r, m, n)' <=> Leads(r, m, n)
  BY DEF arguments, Leads
<1>3. Unfolded'
  BY NearUnfolds, PTL
<1>4. /\ Near(always)'[0] = {start} /\ Near(ever)'[0] = {start}
      /\ \A k \in 0..(maxDepth - 1) :
           /\ Near(always)'[k + 1] = Grown(always, Near(always)[k])'
           /\ Near(ever)'[k + 1] = Grown(ever, Near(ever)[k])'
  BY <1>1, <1>3 DEF Unfolded, Grown
<1>5. /\ Near(always)[0] = {start} /\ Near(ever)[0] = {start}
      /\ \A k \in 0..(maxDepth - 1) :
           /\ Near(always)[k + 1] = Grown(always, Near(always)[k])
           /\ Near(ever)[k + 1] = Grown(ever, Near(ever)[k])
  BY <1>1, NearUnfolds DEF Unfolded
<1>6. \A k \in 0..maxDepth : Near(always)'[k] \subseteq Near(always)[k]
  <2> DEFINE f == Near(always)'
             h == Near(always)
  <2>1. f[0] \subseteq h[0]
    BY <1>4, <1>5
  <2>2. \A k \in 0..(maxDepth - 1) : f[k] \subseteq h[k] => f[k + 1] \subseteq h[k + 1]
    BY <1>2, <1>4, <1>5 DEF Grown
  <2> HIDE DEF f, h
  <2>3. \A k \in 0..maxDepth : f[k] \subseteq h[k]
    BY <1>1, <2>1, <2>2, LevelByLevel
  <2> QED
    BY <2>3 DEF f, h
<1>7. \A k \in 0..maxDepth : Near(ever)[k] \subseteq Near(ever)'[k]
  <2> DEFINE f == Near(ever)
             h == Near(ever)'
  <2>1. f[0] \subseteq h[0]
    BY <1>4, <1>5
  <2>2. \A k \in 0..(maxDepth - 1) : f[k] \subseteq h[k] => f[k + 1] \subseteq h[k + 1]
    BY <1>2, <1>4, <1>5 DEF Grown
  <2> HIDE DEF f, h
  <2>3. \A k \in 0..maxDepth : f[k] \subseteq h[k]
    BY <1>1, <2>1, <2>2, LevelByLevel
  <2> QED
    BY <2>3 DEF f, h
<1> QED
  BY <1>6, <1>7

\* So does what is reachable.
LEMMA ReachableShifts ==
  ASSUME TraverseTypeOK, TraverseTypeOK', UNCHANGED arguments,
         always' \subseteq always, ever \subseteq ever'
  PROVE  /\ Reachable(always)' \subseteq Reachable(always)
         /\ Reachable(ever) \subseteq Reachable(ever)'
<1>1. maxDepth - 1 \in 0..maxDepth /\ maxDepth' = maxDepth
  BY DEF TraverseTypeOK, arguments
<1>2. \A r, m, n : Leads(r, m, n)' <=> Leads(r, m, n)
  BY DEF arguments, Leads
<1>3. /\ Near(always)'[maxDepth - 1] \subseteq Near(always)[maxDepth - 1]
      /\ Near(ever)[maxDepth - 1] \subseteq Near(ever)'[maxDepth - 1]
  BY <1>1, NearShifts
<1> QED
  BY <1>1, <1>2, <1>3 DEF Reachable

-----------------------------------------------------------------------------
(* The inductive invariant.                                                *)

\* One turn of the loop reads all that leads away from its node.
LEMMA AskSearches ==
  ASSUME TraverseTypeOK, Searched, NEW n \in Nodes, Ask(n)
  PROVE  TraverseTypeOK' /\ Searched'
<1> DEFINE found  == Touching(n) \ collected
           others == {Other(r, n) : r \in found} \ visited
<1>1. /\ state = "running" /\ n \in frontier
      /\ collected' = collected \union found
      /\ visited' = visited \union others
      /\ next' = next \union others
      /\ frontier' = frontier \ {n}
      /\ UNCHANGED <<graph, start, direction, maxDepth, depth, state, changes, always,
                     ever>>
  BY DEF Ask, arguments
<1> HIDE DEF found, others
<1>2. found \subseteq graph
  BY DEF found, Touching
<1>3. \A r \in found : Other(r, n) \in Nodes
  BY <1>2, EndsAssumption DEF TraverseTypeOK, Other
<1>4. others \subseteq Nodes /\ others \intersect visited = {}
  BY <1>3 DEF others
<1>5. TraverseTypeOK'
  BY <1>1, <1>2, <1>4 DEF TraverseTypeOK
<1>6. \A r \in found : From[r] \in visited' /\ To[r] \in visited'
  BY <1>1 DEF found, others, Touching, Other, TraverseTypeOK
<1>7. Asked' = Asked \union {n}
  BY <1>1, <1>4 DEF Asked, TraverseTypeOK, Searched
<1>8. ASSUME NEW r \in always, NEW m \in Nodes, Leads(r, n, m)
      PROVE  r \in collected' /\ m \in visited'
  <2>1. r \in Touching(n) /\ (m = From[r] \/ m = To[r])
    BY <1>8 DEF Leads, Touching, TraverseTypeOK
  <2>2. r \in collected'
    BY <1>1, <2>1 DEF found
  <2>3. \A s \in collected' : From[s] \in visited' /\ To[s] \in visited'
    BY <1>1, <1>6 DEF Searched
  <2> QED
    BY <2>1, <2>2, <2>3
<1>9. \A r, m, k : Leads(r, m, k)' <=> Leads(r, m, k)
  BY <1>1 DEF Leads
<1>10. Searched'
  BY <1>1, <1>4, <1>6, <1>7, <1>8, <1>9 DEF TraverseTypeOK, Searched
<1> QED
  BY <1>5, <1>10

\* The other steps read nothing; what others create or delete does not count
\* as there throughout.
LEMMA OthersSearchNot ==
  ASSUME TraverseTypeOK, Searched,
         \/ AskFails \/ NextLevel
         \/ \E r \in Rels : Create(r) \/ Delete(r)
         \/ UNCHANGED traverseVars
  PROVE  TraverseTypeOK' /\ Searched'
<1>1. CASE AskFails
  BY <1>1 DEF AskFails, arguments, TraverseTypeOK, Searched, Asked, Leads
<1>2. CASE NextLevel
  <2>1. TraverseTypeOK'
    BY <1>2 DEF NextLevel, arguments, TraverseTypeOK, Searched
  <2>2. Asked' = Asked
    BY <1>2 DEF NextLevel, Asked
  <2>3. \A r, m, k : Leads(r, m, k)' <=> Leads(r, m, k)
    BY <1>2 DEF NextLevel, arguments, Leads
  <2> QED
    BY <1>2, <2>1, <2>2, <2>3 DEF NextLevel, arguments, TraverseTypeOK, Searched
<1>3. ASSUME NEW r \in Rels, Create(r) \/ Delete(r) PROVE TraverseTypeOK' /\ Searched'
  <2>1. always' \subseteq always /\ UNCHANGED <<arguments, search>>
    BY <1>3 DEF Create, Delete
  <2>2. Searched'
    BY <2>1 DEF arguments, search, Searched, Asked, Leads
  <2>3. TraverseTypeOK'
    <3>1. changes' \in 0..MaxChanges
      BY <1>3, TraversalAssumption DEF Create, Delete, TraverseTypeOK
    <3>2. /\ always' \subseteq graph' /\ graph' \subseteq ever'
          /\ ever \subseteq ever' /\ graph' \subseteq Rels
      BY <1>3 DEF Create, Delete, TraverseTypeOK
    <3> QED
      BY <2>1, <3>1, <3>2 DEF arguments, search, TraverseTypeOK
  <2> QED
    BY <2>2, <2>3
<1>4. CASE UNCHANGED traverseVars
  BY <1>4 DEF traverseVars, arguments, search, TraverseTypeOK, Searched, Asked, Leads
<1> QED
  BY <1>1, <1>2, <1>3, <1>4

\* What no step does: change the arguments, bring back what was touched, forget
\* what was there.
LEMMA StepSearches ==
  ASSUME TraverseTypeOK, Searched, [TraverseNext]_traverseVars
  PROVE  /\ TraverseTypeOK' /\ Searched' /\ UNCHANGED arguments
         /\ always' \subseteq always /\ ever \subseteq ever'
<1>1. CASE \E n \in Nodes : Ask(n)
  BY <1>1, AskSearches DEF Ask
<1>2. CASE ~\E n \in Nodes : Ask(n)
  <2>1. TraverseTypeOK' /\ Searched'
    BY <1>2, OthersSearchNot DEF TraverseNext
  <2>2. UNCHANGED arguments /\ always' \subseteq always /\ ever \subseteq ever'
    BY <1>2 DEF TraverseNext, AskFails, NextLevel, Create, Delete, traverseVars
  <2> QED
    BY <2>1, <2>2
<1> QED
  BY <1>1, <1>2

\* What is read of a node leads from it to the other end.
LEMMA OtherEnd ==
  ASSUME TraverseTypeOK, NEW n \in Nodes, NEW r \in Touching(n)
  PROVE  r \in ever /\ Other(r, n) \in Nodes /\ Leads(r, n, Other(r, n))
BY EndsAssumption DEF TraverseTypeOK, Touching, Other, Leads

\* The levels keep pace with Near: over what was there at some time they do not
\* run ahead, over what was there throughout they do not lag behind.
LEMMA StepLevels ==
  ASSUME TraverseTypeOK, Searched, Levels, [TraverseNext]_traverseVars
  PROVE  Levels'
<1>1. /\ TraverseTypeOK' /\ UNCHANGED arguments
      /\ always' \subseteq always /\ ever \subseteq ever'
  BY StepSearches
<1>2. maxDepth \in Nat /\ maxDepth' = maxDepth /\ depth \in 0..maxDepth
  BY <1>1 DEF TraverseTypeOK, arguments
<1>3. \A k \in 0..maxDepth : /\ Near(always)'[k] \subseteq Near(always)[k]
                             /\ Near(ever)[k] \subseteq Near(ever)'[k]
  BY <1>1, NearShifts
<1>4. CASE state # "running"
  BY <1>4 DEF Levels, TraverseNext, Ask, AskFails, NextLevel, Create, Delete, traverseVars, search
<1>5. CASE state = "running"
  <2>1. /\ depth \in 0..(maxDepth - 1) /\ depth + 1 \in 0..maxDepth
        /\ frontier \subseteq Near(ever)[depth] /\ next \subseteq Near(ever)[depth + 1]
        /\ Near(always)[depth] \subseteq visited \ next
    BY <1>2, <1>5 DEF Levels, Searched
  <2>2. /\ Near(ever)[depth] \subseteq Near(ever)'[depth]
        /\ Near(ever)[depth + 1] \subseteq Near(ever)'[depth + 1]
        /\ Near(always)'[depth] \subseteq Near(always)[depth]
        /\ Near(always)'[depth + 1] \subseteq Near(always)[depth + 1]
    BY <1>2, <1>3, <2>1
  <2>3. ASSUME NEW n \in Nodes, Ask(n) PROVE Levels'
    <3> DEFINE others == {Other(r, n) : r \in Touching(n) \ collected} \ visited
    <3>1. /\ n \in frontier /\ frontier' \subseteq frontier
          /\ visited' = visited \union others /\ next' = next \union others
          /\ depth' = depth
      BY <2>3 DEF Ask
    <3>2. others \subseteq Near(ever)[depth + 1]
      <4>1. Near(ever)[depth + 1] = Grown(ever, Near(ever)[depth])
        BY <1>2, <2>1, NearUnfolds DEF Unfolded
      <4>2. \A r \in Touching(n) : Other(r, n) \in Near(ever)[depth + 1]
        BY <2>1, <3>1, <4>1, OtherEnd DEF Grown
      <4> QED
        BY <4>2
    <3>3. visited \ next \subseteq visited' \ next'
      BY <3>1
    <3> HIDE DEF others
    <3>4. /\ frontier' \subseteq Near(ever)'[depth]
          /\ next' \subseteq Near(ever)'[depth + 1]
          /\ Near(always)'[depth] \subseteq visited' \ next'
      BY <2>1, <2>2, <3>1, <3>2, <3>3
    <3> QED
      BY <3>1, <3>4 DEF Levels
  <2>4. CASE NextLevel
    <3>1. /\ frontier = {} /\ depth' = depth + 1 /\ frontier' = next /\ next' = {}
          /\ visited' = visited
      BY <2>4 DEF NextLevel
    <3>2. Near(always)[depth + 1] = Grown(always, Near(always)[depth])
      BY <1>2, <2>1, NearUnfolds DEF Unfolded
    <3>3. Near(always)[depth] \subseteq Asked
      BY <2>1, <3>1 DEF Asked
    <3>4. Near(always)[depth + 1] \subseteq visited
      BY <3>2, <3>3 DEF Grown, Searched, Asked
    <3>5. /\ frontier' \subseteq Near(ever)'[depth + 1]
          /\ Near(always)'[depth + 1] \subseteq visited' \ next'
      BY <2>1, <2>2, <3>1, <3>4
    <3> QED
      BY <3>1, <3>5 DEF Levels
  <2>5. CASE AskFails
    BY <2>5 DEF AskFails, Levels
  <2>6. CASE UNCHANGED search
    <3>1. /\ frontier' \subseteq Near(ever)'[depth]
          /\ next' \subseteq Near(ever)'[depth + 1]
          /\ Near(always)'[depth] \subseteq visited' \ next'
      BY <2>1, <2>2, <2>6 DEF search
    <3> QED
      BY <2>6, <3>1 DEF Levels, search
  <2> QED
    BY <2>3, <2>4, <2>5, <2>6 DEF TraverseNext, Create, Delete, traverseVars
<1> QED
  BY <1>4, <1>5

\* What is collected begins at a node of the level at hand.
LEMMA StepNothingBeyond ==
  ASSUME TraverseTypeOK, Searched, Levels, NothingBeyond, [TraverseNext]_traverseVars
  PROVE  NothingBeyond'
<1>1. Reachable(ever) \subseteq Reachable(ever)'
  BY StepSearches, ReachableShifts
<1>2. collected' \subseteq Reachable(ever)
  <2>1. CASE collected' = collected
    BY <2>1 DEF NothingBeyond
  <2>2. ASSUME NEW n \in Nodes, Ask(n) PROVE collected' \subseteq Reachable(ever)
    <3>1. /\ n \in frontier /\ state = "running"
          /\ collected' \subseteq collected \union Touching(n)
      BY <2>2 DEF Ask
    <3>2. /\ maxDepth \in Nat /\ depth \in 0..maxDepth
          /\ maxDepth - 1 \in depth..maxDepth
      BY <3>1 DEF TraverseTypeOK, Searched
    <3>3. n \in Near(ever)[maxDepth - 1]
      BY <3>1, <3>2, NearGrows DEF Levels
    <3>4. Touching(n) \subseteq Reachable(ever)
      BY <3>3, OtherEnd DEF Reachable
    <3> QED
      BY <3>1, <3>4 DEF NothingBeyond
  <2> QED
    BY <2>1, <2>2 DEF TraverseNext, AskFails, NextLevel, Create, Delete, traverseVars, search
<1> QED
  BY <1>1, <1>2 DEF NothingBeyond

\* When a level ends and no other begins, all that could be reached was read:
\* the levels are used up, or nothing leads away from what was visited.
LEMMA StepNothingMissed ==
  ASSUME TraverseTypeOK, Searched, Levels, NothingMissed, [TraverseNext]_traverseVars
  PROVE  NothingMissed'
<1>1. Reachable(always)' \subseteq Reachable(always)
  BY StepSearches, ReachableShifts
<1>2. CASE state = "done"
  BY <1>1, <1>2 DEF NothingMissed, TraverseNext, Ask, AskFails, NextLevel, Create, Delete,
     traverseVars, search
<1>3. CASE state # "done" /\ ~NextLevel
  BY <1>3 DEF NothingMissed, TraverseNext, Ask, AskFails, Create, Delete, traverseVars, search
<1>4. CASE NextLevel /\ state' = "done"
  <2>1. /\ state = "running" /\ frontier = {} /\ collected' = collected
        /\ ~(depth + 1 < maxDepth /\ next # {})
    BY <1>4 DEF NextLevel
  <2>2. /\ maxDepth \in Nat /\ depth \in 0..(maxDepth - 1)
        /\ maxDepth - 1 \in 0..maxDepth
    BY <2>1 DEF TraverseTypeOK, Searched
  <2>3. Near(always)[maxDepth - 1] \subseteq Asked
    <3>1. CASE depth = maxDepth - 1
      BY <2>1, <3>1 DEF Levels, Asked
    <3>2. CASE depth # maxDepth - 1
      <4> DEFINE f == Near(always)
                 h == [k \in 0..maxDepth |-> Asked]
      <4>1. next = {} /\ Asked = visited
        BY <2>1, <2>2, <3>2 DEF Asked
      <4>2. f[0] = {start}
            /\ \A k \in 0..(maxDepth - 1) : f[k + 1] = Grown(always, f[k])
        BY <2>2, NearUnfolds DEF Unfolded
      <4>3. f[0] \subseteq h[0]
        BY <2>2, <4>1, <4>2 DEF TraverseTypeOK
      <4>4. ASSUME NEW k \in 0..(maxDepth - 1), f[k] \subseteq h[k]
            PROVE  f[k + 1] \subseteq h[k + 1]
        <5>1. f[k] \subseteq Asked
          BY <2>2, <4>4
        <5>2. f[k + 1] \subseteq Asked
          BY <4>1, <4>2, <5>1 DEF Grown, Searched
        <5> QED
          BY <2>2, <5>2
      <4>5. h[maxDepth - 1] = Asked
        BY <2>2
      <4> HIDE DEF f, h
      <4>6. \A k \in 0..maxDepth : f[k] \subseteq h[k]
        BY <2>2, <4>3, <4>4, LevelByLevel
      <4>7. f[maxDepth - 1] \subseteq Asked
        BY <2>2, <4>5, <4>6
      <4> QED
        BY <4>7 DEF f
    <3> QED
      BY <3>1, <3>2
  <2>4. Reachable(always) \subseteq collected
    BY <2>3 DEF Reachable, Searched
  <2> QED
    BY <1>1, <2>1, <2>4 DEF NothingMissed
<1>5. CASE state' # "done"
  BY <1>5 DEF NothingMissed
<1> QED
  BY <1>2, <1>3, <1>4, <1>5

\* Traverse begins with the node it is given and nothing read.
LEMMA InitTraverseInv == TraverseInit => TraverseInv
<1> SUFFICES ASSUME TraverseInit PROVE TraverseInv
  OBVIOUS
<1>1. maxDepth \in Nat \ {0}
  <2>1. PICK d \in Depths : maxDepth = IF d = 0 THEN 1 ELSE d
    BY DEF TraverseInit
  <2> QED
    BY <2>1, TraversalAssumption
<1>2. TraverseTypeOK
  BY <1>1, TraversalAssumption DEF TraverseInit, TraverseTypeOK
<1>3. Asked = {}
  BY DEF TraverseInit, Asked
<1>4. Searched
  BY <1>1, <1>3 DEF TraverseInit, Searched
<1>5. \A g : Near(g)[0] = {start}
  BY <1>1, NearUnfolds DEF Unfolded
<1>6. Levels /\ NothingBeyond /\ NothingMissed
  BY <1>5 DEF TraverseInit, Levels, NothingBeyond, NothingMissed
<1> QED
  BY <1>2, <1>4, <1>6 DEF TraverseInv

\* The inductive invariant of the search.
THEOREM TraverseInvariance == TraverseSpec => []TraverseInv
<1>1. TraverseInv /\ [TraverseNext]_traverseVars => TraverseInv'
  BY StepSearches, StepLevels, StepNothingBeyond, StepNothingMissed DEF TraverseInv
<1> QED
  BY <1>1, InitTraverseInv, PTL DEF TraverseSpec

\* Type correctness: among other things, the search never goes beyond the level
\* asked for, and collects only what was in the table.
THEOREM TraverseTypeCorrect == TraverseSpec => []TraverseTypeOK
<1>1. TraverseInv => TraverseTypeOK
  BY DEF TraverseInv
<1> QED
  BY <1>1, TraverseInvariance, PTL

\* A search that ran out of nodes has found all that is connected by the
\* relationships nobody touched: on a graph of any size, with any cycles.
THEOREM ClosedSearch == TraverseSpec => []Closed
<1>1. TraverseInv => Closed
  <2> SUFFICES ASSUME TraverseInv, state = "done", frontier = {} PROVE Closed
    BY DEF Closed
  <2>1. Asked = visited
    BY DEF TraverseInv, Searched, Asked
  <2> QED
    BY <2>1 DEF TraverseInv, Searched, Closed
<1> QED
  BY <1>1, TraverseInvariance, PTL

\* The search is exact, but for what others change beside it: it collects only
\* what could be reached within its depth over relationships that were there at
\* some time, and all that could be over those that were there throughout.
THEOREM ExactSearch == TraverseSpec => []SearchExact
<1>1. TraverseInv => NothingBeyond /\ NothingMissed
  BY DEF TraverseInv
<1> QED
  BY <1>1, TraverseInvariance, ClosedSearch, PTL DEF SearchExact
=============================================================================
